SPECIFICATION MCSpec
CONSTANTS
    ann = ann
    ben = ben
    cat = cat
    None = None
    Users <- Three
    Conns <- Once
    Members <- Three
    MaxMessages = 1
    MaxChanges = 0
SYMMETRY Symmetric
INVARIANTS
    AckMeansDelivered
    
    BroadcastsToMembers
CHECK_DEADLOCK FALSE

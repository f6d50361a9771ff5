SPECIFICATION Spec
CONSTANTS
    Users = {ann, ben}
    Members = {ann, ben}
    Creator = ann
    Slots <- BusyCreator
    MaxSkip = 2
    MaxKeys = 2
    MaxMessages = 2
    MaxReads = 2
    MaxChanges = 2
    None = None
INVARIANTS
    StepsHold
    KeyHolds
CHECK_DEADLOCK FALSE

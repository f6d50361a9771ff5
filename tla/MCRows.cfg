CONSTANTS
    Users = {a, b, c}
    Members = {a, b, c}
    Ids = {m}
    MaxChanges = 2
    MaxFails = 1
    None = None
    Couple = {o, p}
    Owner = o
    Posts = {k, l}
    MaxLosses = 1
    Crowd = {g, h, i}
    Founder = g
    MaxInvites = 1
    Kept = 2
    MaxEdits = 4
SPECIFICATION MCSpec
SYMMETRY Symmetry
INVARIANTS
    AnnouncedOnce
    BytesFollowRow
    
    EditsHold
PROPERTY
    PromiseKept
CHECK_DEADLOCK FALSE

CONSTANTS
    Users = {o, p}
    Owner = o
    Posts = {k}
    MaxLosses = 0
    None = None
SPECIFICATION Spec
INVARIANT OpenedCanBeFetched
CHECK_DEADLOCK FALSE

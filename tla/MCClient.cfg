SPECIFICATION MCSpec

CONSTANTS
    Ids = {m}
    Users = {u, v}
    Socks = {a, b, c}
    None = None

PROPERTIES
    
    
    EveryRowLeaves

CHECK_DEADLOCK FALSE

SPECIFICATION Spec
CONSTANTS
  Users = {a, b, d}
  Calls = {c1, c2}
  MaxConns = 1
  MaxBusy = 1
  MaxRestarts = 0
  MaxPending = 1
  MinimalMetadata = FALSE
  RedisUp = TRUE
  None = None
SYMMETRY Symmetry
INVARIANTS BusyWithLiveCall
  
CHECK_DEADLOCK FALSE

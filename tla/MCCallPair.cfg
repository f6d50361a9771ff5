SPECIFICATION Spec
CONSTANTS
  Users = {a, b}
  Calls = {c1}
  MaxConns = 2
  MaxBusy = 2
  MaxRestarts = 0
  MaxPending = 1
  MinimalMetadata = FALSE
  RedisUp = TRUE
  None = None
SYMMETRY Symmetry
INVARIANTS BufferOnlyWhileOffline AcceptDeliveredOnce ActiveCallerTold
CHECK_DEADLOCK FALSE

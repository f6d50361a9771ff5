SPECIFICATION FairSpec
CONSTANTS
  Users = {a, b}
  Calls = {c1}
  MaxConns = 1
  MaxBusy = 2
  MaxRestarts = 1
  MaxPending = 1
  MinimalMetadata = TRUE
  RedisUp = TRUE
  None = None
PROPERTIES DisconnectEndsCall
CHECK_DEADLOCK FALSE

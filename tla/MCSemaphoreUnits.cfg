SPECIFICATION UnitsSpec
CONSTANTS
  k1 = k1
  k2 = k2
  private = private
  Clients <- TwoClients
  Keys = {k1, k2}
  IPC_PRIVATE = private
  NANVIX_CONNECTIONS_MAX = 2
  NANVIX_SEM_MAX = 1
  NANVIX_PROC_MAX = 2
  GetCalls <- CreateOne
  Ops <- UpDown
  SemFlags = {"0"}
  Wild = FALSE
  MaxOpen = 1
  MaxConnections = 4
  MaxVal = 3
INVARIANT
  UnitsBacked

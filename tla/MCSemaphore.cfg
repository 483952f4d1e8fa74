SPECIFICATION FairSpec
CONSTANTS
  k1 = k1
  k2 = k2
  private = private
  Clients <- TwoClients
  Keys = {k1, k2}
  IPC_PRIVATE = private
  NANVIX_CONNECTIONS_MAX = 2
  NANVIX_SEM_MAX = 2
  NANVIX_PROC_MAX = 2
  GetCalls <- SomeGets
  Ops <- UpDownZero
  SemFlags = {"0", "IPC_NOWAIT"}
  Wild = FALSE
  MaxOpen = 2
  MaxConnections = 2
  MaxVal = 1
INVARIANTS
  SemaphoresCoherent
  ReferencesCounted
  HoldersConnected

  

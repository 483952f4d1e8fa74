SPECIFICATION FairSpec
CONSTANTS
  k1 = k1
  k2 = k2
  private = private
  Clients <- TwoClients
  Keys = {k1, k2}
  IPC_PRIVATE = private
  Payloads = {z, v}
  Zero = z
  NANVIX_MSG_MAX = 1
  NANVIX_MSG_LENGTH_MAX = 2
  NANVIX_CONNECTIONS_MAX = 2
  GetCalls <- SomeGets
  NoWait = {TRUE, FALSE}
  Wild = FALSE
  MaxOpen = 1
  MaxConnections = 2
INVARIANTS
  QueuesCoherent
  ReferencesCounted
  ConnectionsCounted
PROPERTY
  ImplementsFifo
  CallsReturn

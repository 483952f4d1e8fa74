SPECIFICATION IpcSpec
CONSTANTS
  p1 = p1
  p2 = p2
  n1 = n1
  n2 = n2
  NoProcess = NoProcess
  NoName = NoName
  Processes <- TwoProcesses
  Names <- TwoNames
  Ports = {13}
  PoolMax = 2
  ConnectorMax = 3
  NANVIX_PNAME_MAX = 3
SYMMETRY Symmetric
INVARIANTS
  
  ConnectorsTracked
 

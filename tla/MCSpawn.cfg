SPECIFICATION FairSpec
CONSTANTS
  Spawners <- Unix64Spawners
  Leader = "spawn0"
  Table <- Unix64Table
  Ring <- Unix64Ring
  Port <- Unix64Port
  Services <- Unix64Services
  OpensIn <- Unix64OpensIn
  Exits <- Unix64Exits
  Name = "name"
  Programs <- TwoPrograms
  Boss = "test"
  Test = "test"
INVARIANTS
  RingsInOrder
  PortsMatch
  NobodyPanics
  ServersOutliveClients
 

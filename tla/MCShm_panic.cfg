SPECIFICATION Spec
CONSTANTS
  Clients <- TwoClients
  Names = {n1, n2}
  NoName = none
  NANVIX_SHM_MAX = 2
  NANVIX_SHM_OPEN_MAX = 1
  NANVIX_CONNECTIONS_MAX = 2
  Pages = {p1, p2}
  RMEM_NULL = null
  OpenFlags <- OpenOrCreate
  Writable = {TRUE}
  MaxOpen = 1
CHECK_DEADLOCK FALSE
SYMMETRY
  NamesSymmetric
INVARIANT
  ServerNeverPanics

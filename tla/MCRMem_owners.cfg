CONSTANTS
  Clients = {1, 2}
  RMEM_SERVERS_NUM = 2
  RMEM_NUM_BLOCKS = 2
  Values = {z, v}
  Zero = z
  Pages <- AllPages
  Strays <- NullBlocks
SPECIFICATION Spec
INVARIANT TypeOK
INVARIANT BlockAccounting
INVARIANT NoLeakedBlock
INVARIANT ReadYourWrites
\* A process whose assertion failed, or whose portal nobody reads, stops.
CHECK_DEADLOCK FALSE

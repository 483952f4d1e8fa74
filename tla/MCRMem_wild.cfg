CONSTANTS
  Clients = {1, 2}
  RMEM_SERVERS_NUM = 1
  RMEM_NUM_BLOCKS = 2
  Values = {z, v}
  Zero = z
  Pages <- AllocatablePages
  Strays <- AllocatablePages
SPECIFICATION FairSpec
INVARIANT HeldPagesAreOwned
INVARIANT FreeBlocksAreClean
 

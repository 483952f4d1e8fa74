SPECIFICATION FairSpec
CONSTANTS
  Clients <- TwoClients
  NANVIX_CONNECTIONS_MAX = 2
  s_ninodes = 3
  s_nblocks = 2
  DirentsPerBlock = 2
  NANVIX_DISK_SIZE = 2
  NANVIX_OPEN_MAX = 2
  NANVIX_NR_FILES = 2
  NANVIX_INODES_TABLE_LENGTH = 2
  Names <- AllNames
  OpenFlags <- SomeFlags
  Seeks <- SomeSeeks
  Values = {z}
  Meta = meta
  Zero = z
  MaxChunks = 2
INVARIANTS
  
  InodesCounted
  ConnectionsCounted
PROPERTY
  CallsReturn

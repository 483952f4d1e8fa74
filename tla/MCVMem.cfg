SPECIFICATION VMemSpec
CONSTANTS
  RCACHE_LENGTH = 2
  RMEM_NULL = null
  MaxRefs = 1
  RMEM_TABLE_LENGTH = 6
  Pages = {p1, p2}
  Shared = {s}
  Values = {z, v}
  Zero = z
  Unset = unset
  MaxAlloc = 2
SYMMETRY
  PagesSymmetric
INVARIANTS
  
  HeapTracked

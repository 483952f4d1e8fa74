-------------------------------- MODULE VMem --------------------------------
(***************************************************************************)
(* The remote heap of a process: libruntime/mm/manager.c over the page     *)
(* cache (module RCache).  Heap addresses are page aligned here: address a *)
(* is entry a of the table of remote pages, and a page is read and written *)
(* as a whole.  The process is the only one that uses the pages of its     *)
(* heap (what the remote memory service guarantees of them is in module    *)
(* RMem); the shared memory regions that it has opened (module Shm) go     *)
(* through the same cache.                                                 *)
(***************************************************************************)
EXTENDS RCache, FiniteSets, Functions

CONSTANTS RMEM_TABLE_LENGTH,  \* length of the table of remote pages
          Shared,             \* pages of the shared memory regions it has opened
          Values, Zero,       \* page contents, and those of a new page
          Unset,              \* nothing was stored since the allocation
          MaxAlloc            \* bound on the pages of one allocation

ASSUME VMemAssumption ==
  /\ RMEM_TABLE_LENGTH \in Nat \ {0, 1} /\ MaxAlloc \in Nat
  /\ IsFiniteSet(Pages) /\ Pages \cap Shared = {} /\ RMEM_NULL \notin Pages \cup Shared
  /\ Zero \in Values /\ Unset \notin Values

Addrs == 0 .. RMEM_TABLE_LENGTH - 1

VARIABLES
  cache,       \* the page cache and the remote memory
  rmem_table,  \* rmem_table[a]: the page at address a
  rbrk,        \* the break: addresses below it are allocated
  maps,        \* maps[i]: line and address of entry i of the table of maps
  linked,      \* linked[a]: the line that address a is linked to in hardware
  view         \* view[a]: what the process last stored at address a

vmemvars == <<cache, rmem_table, rbrk, maps, linked, view>>

NoMap == [laddr |-> 0, raddr |-> None]

VMemInit ==
  /\ cache = [lines |-> Setup(Zero).lines, age |-> Setup(Zero).age,
              policy |-> Setup(Zero).policy, mem |-> [p \in Shared |-> Zero]]
  /\ rmem_table = [a \in Addrs |-> RMEM_NULL]
  /\ rbrk = 1
  /\ maps = [i \in Lines |-> NoMap]
  /\ linked = [a \in Addrs |-> None]
  /\ view = [a \in Addrs |-> Unset]

-----------------------------------------------------------------------------
\* nanvix_vmem_lookup(): addresses outside the table are refused.
Lookup(a) == a \in Addrs /\ rmem_table[a] # RMEM_NULL

\* nanvix_vmem_expand()
Expand(n) == n > 0 /\ rbrk + n < RMEM_TABLE_LENGTH

FreePages == Pages \ DOMAIN cache.mem

\* The table after vmem_alloc() stored the pages that it got from base on.
Filled(base, pages) ==
  [a \in Addrs |-> IF a - base + 1 \in DOMAIN pages THEN pages[a - base + 1] ELSE rmem_table[a]]

\* nanvix_vmem_alloc(): if the remote memory runs out of pages, the caller
\* gets none, but the pages allocated so far stay in the table, and the break
\* stays raised.
nanvix_vmem_alloc(n) ==
  LET got == IF n <= Cardinality(FreePages) THEN n ELSE Cardinality(FreePages) IN
  /\ Expand(n)
  /\ \E pages \in Injection(1 .. got, FreePages) :
       /\ rmem_table' = Filled(rbrk, pages)
       /\ cache' = [cache EXCEPT !.mem = [p \in DOMAIN @ \cup Range(pages) |->
                                             IF p \in Range(pages) THEN Zero ELSE @[p]]]
  /\ rbrk' = rbrk + n
  /\ view' = [a \in Addrs |-> IF a \in rbrk .. rbrk + n - 1 THEN Unset ELSE view[a]]
  /\ UNCHANGED <<maps, linked>>

\* Where the loop of vmem_free() from base on ends: at the break, or at an
\* entry without a page, where it gives up.
FreedUpTo(base) ==
  LET holes == {a \in base .. rbrk - 1 : rmem_table[a] = RMEM_NULL} IN
  IF holes = {} THEN rbrk ELSE First(holes)

\* nanvix_vmem_contract(), which a loop that gave up does not reach.
\* The mutant takes one page too many.
ContractMutant(base) == IF FreedUpTo(base) = rbrk THEN base - 1 ELSE rbrk
Contract(base) == IF FreedUpTo(base) = rbrk THEN base ELSE rbrk

\* nanvix_vmem_free(): frees everything from the address to the break.  The
\* cache and the links keep what they have.
nanvix_vmem_free(base) ==
  LET freed == base .. FreedUpTo(base) - 1
      pages == {rmem_table[a] : a \in freed} IN
  /\ Lookup(base)
  /\ cache' = [cache EXCEPT !.mem = Restrict(@, DOMAIN @ \ pages)]
  /\ rmem_table' = [a \in Addrs |-> IF a \in freed THEN RMEM_NULL ELSE rmem_table[a]]
  /\ rbrk' = Contract(base)
  /\ view' = [a \in Addrs |-> IF a \in freed THEN Unset ELSE view[a]]
  /\ UNCHANGED <<maps, linked>>

\* nanvix_vmem_read(): the page is left referenced in the cache.
nanvix_vmem_read(a) ==
  /\ Lookup(a)
  /\ \E older \in BOOLEAN : cache' = Get(cache, rmem_table[a], older).cache
  /\ UNCHANGED <<rmem_table, rbrk, maps, linked, view>>

\* The cache after a store to the page in line x.
Stored(k, x, v) == WithLine(k, x, [k.lines[x] EXCEPT !.page = v])

\* nanvix_vmem_write()
nanvix_vmem_write(a, v) ==
  /\ Lookup(a)
  /\ \E older \in BOOLEAN :
       LET g == Get(cache, rmem_table[a], older) IN
       IF g.line = None
       THEN cache' = g.cache /\ view' = view
       ELSE /\ cache' = Stored(g.cache, g.line, v)
            /\ view' = [view EXCEPT ![a] = v]
  /\ UNCHANGED <<rmem_table, rbrk, maps, linked>>

\* __nanvix_shm_read() and __nanvix_shm_write() of a region with page p: the
\* page goes through the same cache, and is put back.
nanvix_shm_read(p) ==
  /\ \E older \in BOOLEAN : cache' = Put(Get(cache, p, older).cache, p)
  /\ UNCHANGED <<rmem_table, rbrk, maps, linked, view>>
nanvix_shm_write(p, v) ==
  /\ \E older \in BOOLEAN :
       LET g == Get(cache, p, older) IN
       cache' = Put(Stored(g.cache, g.line, v), p)
  /\ UNCHANGED <<rmem_table, rbrk, maps, linked, view>>

-----------------------------------------------------------------------------
\* nanvix_rfault(): the entry of the table of maps for line x, the last one
\* if no entry has it.
MapEntry(x) ==
  LET found == {i \in Lines : maps[i].raddr = x} IN
  IF found = {} THEN RCACHE_LENGTH - 1 ELSE First(found)

\* The links after address a got line x: the address that the entry of the
\* line remembers is unlinked first.
Relink(a, x) ==
  LET old == maps[MapEntry(x)] IN
  [b \in Addrs |-> IF b = a THEN x
                   ELSE IF old.raddr = x /\ b = old.laddr THEN None ELSE linked[b]]

\* nanvix_rfault(), on an access to an address that is not linked.
nanvix_rfault(a) ==
  /\ Lookup(a)
  /\ linked[a] = None
  /\ \E older \in BOOLEAN :
       LET g == Get(cache, rmem_table[a], older) IN
       /\ cache' = g.cache
       /\ IF g.line = None
          THEN UNCHANGED <<maps, linked>>
          ELSE /\ linked' = Relink(a, g.line)
               /\ maps' = [maps EXCEPT ![MapEntry(g.line)] = [laddr |-> a, raddr |-> g.line]]
  /\ UNCHANGED <<rmem_table, rbrk, view>>

\* A store to a linked address goes straight to the line.  Nothing unlinks an
\* address whose entry of the table of maps has been overwritten, so its line
\* may meanwhile have the page of another address; the process is taken not
\* to store to the address then.
StoreLinked(a, v) ==
  /\ Lookup(a)
  /\ linked[a] # None
  /\ cache.lines[linked[a]].pgnum = rmem_table[a]
  /\ cache' = Stored(cache, linked[a], v)
  /\ view' = [view EXCEPT ![a] = v]
  /\ UNCHANGED <<rmem_table, rbrk, maps, linked>>

\* nanvix_rcache_select_replacement_policy()
SelectPolicy(num) ==
  /\ cache' = Select(cache, num)
  /\ UNCHANGED <<rmem_table, rbrk, maps, linked, view>>

VMemNext ==
  \/ \E n \in 1 .. MaxAlloc : nanvix_vmem_alloc(n)
  \/ \E num \in Policies : SelectPolicy(num)
  \/ \E p \in Shared : nanvix_shm_read(p) \/ \E v \in Values : nanvix_shm_write(p, v)
  \/ \E a \in Addrs :
       \/ nanvix_vmem_free(a)
       \/ nanvix_vmem_read(a)
       \/ nanvix_rfault(a)
       \/ \E v \in Values : nanvix_vmem_write(a, v) \/ StoreLinked(a, v)

VMemSpec == VMemInit /\ [][VMemNext]_vmemvars

-----------------------------------------------------------------------------
VMemTypeOK ==
  /\ IsCache(cache, Pages \cup Shared, Values)
  /\ rmem_table \in [Addrs -> Pages \cup {RMEM_NULL}]
  /\ rbrk \in 1 .. RMEM_TABLE_LENGTH - 1
  /\ maps \in [Lines -> [laddr : Addrs, raddr : Lines \cup {None}]]
  /\ linked \in [Addrs -> Lines \cup {None}]
  /\ view \in [Addrs -> Values \cup {Unset}]

\* The heap is remote memory behind a cache, and a process does not notice:
\* what it stored at an address is in the line of the page or, when the page
\* is not in the cache, in the remote memory, over any evictions, frees,
\* reuses of the page number and uses of shared pages.  Another line never has
\* a second copy.
HeapCoherent ==
  \A a \in Addrs : rmem_table[a] # RMEM_NULL =>
    LET p == rmem_table[a]
        copies == {x \in Lines : cache.lines[x].pgnum = p} IN
    /\ \A x, y \in copies : x = y
    /\ view[a] # Unset =>
         /\ \A x \in copies : view[a] = cache.lines[x].page
         /\ copies = {} => view[a] = cache.mem[p]

\* The variables have their types, so the break stays inside the table, and no
\* remote page is lost or used twice, not even by an allocation that
\* fails half way: the pages that the process has are those in the table
\* below the break, each at one address.
HeapTracked ==
  /\ VMemTypeOK
  /\ {rmem_table[a] : a \in 1 .. rbrk - 1} \ {RMEM_NULL} = DOMAIN cache.mem \ Shared
  /\ \A a, b \in Addrs : rmem_table[a] = rmem_table[b] /\ a # b => rmem_table[a] = RMEM_NULL
  /\ \A a \in Addrs \ (1 .. rbrk - 1) : rmem_table[a] = RMEM_NULL

=============================================================================

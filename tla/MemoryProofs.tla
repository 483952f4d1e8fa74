---------------------------- MODULE MemoryProofs ----------------------------
(***************************************************************************)
(* Proofs about the users of remote pages: the remote heap, for any number *)
(* of lines, addresses and pages; and the shared memory regions of the     *)
(* System V server, for any number of clients, names, regions and pages,   *)
(* and for any order in which processes open, resize, close and unlink     *)
(* regions.                                                                *)
(***************************************************************************)
EXTENDS VMem, Shm, TableProofs

-----------------------------------------------------------------------------
(***************************************************************************)
(* The remote heap.  The page cache as the heap uses it: what the cache    *)
(* finds for a page survives whatever the cache does.                      *)
(***************************************************************************)
HeapCache(k) == IsCache(k, Pages \cup Shared, Values)

\* A cache that is fit for a heap: of the pages of the heap, one that has a
\* line is referenced there, so that nanvix_rcache_page_search() finds it,
\* and has no other line.
CacheOK(k) ==
  /\ HeapCache(k)
  /\ \A x \in Lines : k.lines[x].pgnum \in Pages => k.lines[x].refcount > 0
  /\ \A x, y \in Lines :
       k.lines[x].pgnum \in Pages /\ k.lines[x].pgnum = k.lines[y].pgnum => x = y

\* What a read of page p finds through cache k is v.
Holds(k, p, v) ==
  /\ \A x \in Lines : k.lines[x].pgnum = p => k.lines[x].page = v
  /\ (\A x \in Lines : k.lines[x].pgnum # p) => k.mem[p] = v

\* Cache d finds what cache k finds, for every page of the heap.
KeepsPages(k, d) ==
  /\ DOMAIN d.mem = DOMAIN k.mem
  /\ \A p \in Pages \cap DOMAIN k.mem, v \in Values : Holds(k, p, v) => Holds(d, p, v)

-----------------------------------------------------------------------------
\* The type of a line, and the fields of a cache after one line changed.
LineType == [pgnum : Pages \cup Shared \cup {RMEM_NULL}, refcount : 0 .. MaxRefs, page : Values]

\* What a cache with another line holds.
LEMMA WithLineFields ==
  ASSUME NEW k, HeapCache(k), NEW x \in Lines, NEW l \in LineType
  PROVE  LET d == WithLine(k, x, l) IN
         /\ HeapCache(d)
         /\ d.mem = k.mem /\ d.age = k.age /\ d.policy = k.policy
         /\ d.lines[x] = l
         /\ \A y \in Lines \ {x} : d.lines[y] = k.lines[y]
<1>. DEFINE d == WithLine(k, x, l)
<1>1. /\ d.mem = k.mem /\ d.age = k.age /\ d.policy = k.policy
      /\ d = [lines |-> d.lines, age |-> d.age, policy |-> d.policy, mem |-> d.mem]
      /\ d.lines = [k.lines EXCEPT ![x] = l]
  BY SMTT(60) DEF WithLine, HeapCache, IsCache
<1>. HIDE DEF d
<1>2. HeapCache(d) /\ d.lines[x] = l /\ \A y \in Lines \ {x} : d.lines[y] = k.lines[y]
  BY <1>1 DEF HeapCache, IsCache, LineType
<1>. QED
  BY Zenon, <1>1, <1>2 DEF d

\* nanvix_rcache_flush() changes the remote memory only, and only the page of
\* the line.
LEMMA FlushFields ==
  ASSUME NEW k, CacheOK(k), NEW x \in Lines
  PROVE  LET f == Flush(k, x) IN
         /\ CacheOK(f)
         /\ f.lines = k.lines
         /\ DOMAIN f.mem = DOMAIN k.mem
         /\ \A p \in DOMAIN k.mem :
              f.mem[p] = IF p = k.lines[x].pgnum THEN k.lines[x].page ELSE k.mem[p]
<1>. DEFINE f == Flush(k, x)
<1>1. /\ f.lines = k.lines /\ f.age = k.age /\ f.policy = k.policy
      /\ f = [lines |-> f.lines, age |-> f.age, policy |-> f.policy, mem |-> f.mem]
      /\ DOMAIN f.mem = DOMAIN k.mem
      /\ f.mem \in [DOMAIN k.mem -> Values]
  BY Zenon DEF CacheOK, HeapCache, IsCache, Flush, Allocated, Store
<1>2. \A p \in DOMAIN k.mem :
         f.mem[p] = IF p = k.lines[x].pgnum THEN k.lines[x].page ELSE k.mem[p]
  BY Zenon DEF CacheOK, HeapCache, IsCache, Flush, Allocated, Store
<1>. HIDE DEF f
<1>3. CacheOK(f)
  BY Zenon, <1>1 DEF CacheOK, HeapCache, IsCache
<1>. QED
  BY Zenon, <1>1, <1>2, <1>3 DEF f

\* nanvix_rcache_flush() followed by CACHE_ENTRY_INITIALIZER(), which is how a
\* line is given up: what was in the line is in the remote memory then.
LEMMA GiveUp ==
  ASSUME NEW k, CacheOK(k), NEW x \in Lines
  PROVE  LET d == Initialized(Flush(k, x), x) IN
         /\ CacheOK(d)
         /\ KeepsPages(k, d)
         /\ d.lines[x].pgnum = RMEM_NULL
         /\ \A y \in Lines \ {x} : d.lines[y] = k.lines[y]
<1>. DEFINE f == Flush(k, x)
            d == Initialized(f, x)
<1>. USE VMemAssumption, RCacheAssumption
<1>1. /\ CacheOK(f) /\ f.lines = k.lines /\ DOMAIN f.mem = DOMAIN k.mem
      /\ \A p \in DOMAIN k.mem :
           f.mem[p] = IF p = k.lines[x].pgnum THEN k.lines[x].page ELSE k.mem[p]
  BY Zenon, FlushFields
<1>. HIDE DEF f
<1>. DEFINE l == [pgnum |-> RMEM_NULL, refcount |-> 0, page |-> f.lines[x].page]
<1>3. HeapCache(f) /\ l \in LineType
  BY <1>1 DEF CacheOK, HeapCache, IsCache, LineType
<1>4. /\ HeapCache(d)
      /\ d.mem = f.mem
      /\ d.lines[x].pgnum = RMEM_NULL
      /\ \A y \in Lines \ {x} : d.lines[y] = k.lines[y]
  <2>1. d = WithLine(f, x, l) /\ l.pgnum = RMEM_NULL
    BY Zenon DEF Initialized
  <2>. HIDE DEF d, l
  <2>. QED
    BY <1>1, <1>3, <2>1, WithLineFields
<1>. HIDE DEF d
<1>5. CacheOK(d)
  BY Zenon, <1>4 DEF CacheOK
<1>6. KeepsPages(k, d)
  BY <1>1, <1>4 DEF CacheOK, KeepsPages, Holds
<1>. QED
  BY Zenon, <1>4, <1>5, <1>6 DEF d, f

\* The line that the search for an empty line finds is empty.
LEMMA EmptyLine ==
  ASSUME NEW k, Empty(k) # None
  PROVE  Empty(k) \in Lines /\ k.lines[Empty(k)].pgnum = RMEM_NULL
<1>. DEFINE found == {x \in Lines : k.lines[x].pgnum = RMEM_NULL}
<1>1. found # {} /\ Empty(k) = First(found)
  BY Zenon DEF Empty
<1>2. found \in SUBSET Nat
  BY RCacheAssumption DEF Lines
<1>3. First(found) \in found
  <2>. HIDE DEF found
  <2>. QED  BY Zenon, <1>1, <1>2, FirstIsLeast
<1>. QED
  BY Zenon, <1>1, <1>3

\* The search for a page of the cache finds a referenced line of the page, or
\* there is none.
LEMMA SearchLine ==
  ASSUME NEW k, NEW p
  PROVE  \/ /\ Search(k, p) \in Lines
            /\ k.lines[Search(k, p)].refcount > 0
            /\ k.lines[Search(k, p)].pgnum = p
         \/ /\ Search(k, p) = None
            /\ \A x \in Lines : ~(k.lines[x].refcount > 0 /\ k.lines[x].pgnum = p)
<1>. DEFINE found == {x \in Lines : k.lines[x].refcount > 0 /\ k.lines[x].pgnum = p}
<1>1. CASE found = {}
  BY Zenon, <1>1 DEF Search
<1>2. CASE found # {}
  <2>1. Search(k, p) = First(found)
    BY Zenon, <1>2 DEF Search
  <2>2. found \in SUBSET Nat
    BY RCacheAssumption DEF Lines
  <2>3. First(found) \in found
    <3>. HIDE DEF found
    <3>. QED  BY Zenon, <1>2, <2>2, FirstIsLeast
  <2>. QED
    BY Zenon, <2>1, <2>3
<1>. QED
  BY Zenon, <1>1, <1>2

\* There is an oldest line.
LEMMA OldestLine ==
  ASSUME NEW k, k.age \in [Lines -> 0 .. RCACHE_LENGTH]
  PROVE  Oldest(k) \in Lines
<1>. DEFINE S == {k.age[x] : x \in Lines}
<1>1. S \in SUBSET Nat /\ S # {}
  BY RCacheAssumption DEF Lines
<1>2. First(S) \in S /\ \A j \in S : First(S) <= j
  <2>. HIDE DEF S
  <2>. QED  BY Zenon, <1>1, FirstIsLeast
<1>3. \E x \in Lines : \A y \in Lines : k.age[x] <= k.age[y]
  BY ZenonT(60), <1>2
<1>. QED
  BY ZenonT(60), <1>3, Zenon DEF Oldest

\* The replacement policies: no page of the heap loses its contents, and the
\* line that is given is empty.
LEMMA EvictKeeps ==
  ASSUME NEW k, CacheOK(k), NEW older \in BOOLEAN
  PROVE  LET e == Evict(k, older) IN
         /\ CacheOK(e.cache)
         /\ KeepsPages(k, e.cache)
         /\ e.line \in Lines
         /\ e.cache.lines[e.line].pgnum = RMEM_NULL
         /\ \A y \in Lines : e.cache.lines[y].pgnum \in {RMEM_NULL, k.lines[y].pgnum}
<1>. DEFINE Good(r) == /\ CacheOK(r.cache)
                       /\ KeepsPages(k, r.cache)
                       /\ r.line \in Lines
                       /\ r.cache.lines[r.line].pgnum = RMEM_NULL
                       /\ \A y \in Lines : r.cache.lines[y].pgnum \in {RMEM_NULL, k.lines[y].pgnum}
<1>1. 0 \in Lines
  BY RCacheAssumption DEF Lines
<1>2. Good(Bypass(k))
  <2>. DEFINE d == Initialized(Flush(k, 0), 0)
  <2>1. /\ CacheOK(d) /\ KeepsPages(k, d) /\ d.lines[0].pgnum = RMEM_NULL
        /\ \A y \in Lines \ {0} : d.lines[y] = k.lines[y]
    BY Zenon, <1>1, GiveUp
  <2>2. Bypass(k).cache = d /\ Bypass(k).line = 0
    BY Zenon DEF Bypass
  <2>. HIDE DEF d
  <2>. QED
    BY Zenon, <1>1, <2>1, <2>2
<1>3. ASSUME Empty(k) # None
      PROVE  Good([cache |-> k, line |-> Empty(k)])
  <2>1. KeepsPages(k, k)
    BY Zenon DEF KeepsPages
  <2>. QED
    BY Zenon, <1>3, <2>1, EmptyLine
<1>4. Good(Bypass(Initialized(Flush(k, Oldest(k)), Oldest(k))))
  <2>. DEFINE x == Oldest(k)
              d == Initialized(Flush(k, x), x)
              b == Initialized(Flush(d, 0), 0)
  <2>1. x \in Lines
    BY Zenon, OldestLine DEF CacheOK, HeapCache, IsCache
  <2>2. /\ CacheOK(d) /\ KeepsPages(k, d) /\ d.lines[x].pgnum = RMEM_NULL
        /\ \A y \in Lines \ {x} : d.lines[y] = k.lines[y]
    <3>. HIDE DEF x
    <3>. QED  BY Zenon, <2>1, GiveUp
  <2>. HIDE DEF d
  <2>3. /\ CacheOK(b) /\ KeepsPages(d, b) /\ b.lines[0].pgnum = RMEM_NULL
        /\ \A y \in Lines \ {0} : b.lines[y] = d.lines[y]
    BY Zenon, <1>1, <2>2, GiveUp
  <2>4. Bypass(d).cache = b /\ Bypass(d).line = 0
    BY Zenon DEF Bypass
  <2>. HIDE DEF b, x
  <2>5. KeepsPages(k, b)
    BY Zenon, <2>2, <2>3 DEF KeepsPages
  <2>6. Good(Bypass(d))
    BY Zenon, <1>1, <2>1, <2>2, <2>3, <2>4, <2>5
  <2>. QED
    BY Zenon, <2>6 DEF d, x
<1>5. Evict(k, older) \in {Bypass(k), Fifo(k, older)}
  BY Zenon DEF Evict
<1>6. Good(Fifo(k, older))
  <2>1. CASE Empty(k) # None
    BY Zenon, <1>3, <2>1 DEF Fifo
  <2>2. CASE Empty(k) = None
    BY Zenon, <1>2, <1>4, <2>2 DEF Fifo
  <2>. QED
    BY Zenon, <2>1, <2>2
<1>. HIDE DEF Good
<1>7. Good(Evict(k, older))
  BY Zenon, <1>2, <1>5, <1>6
<1>. QED
  BY Zenon, <1>7 DEF Good

\* One more reference keeps the count of a line between one and its bound.
LEMMA ReferencedType ==
  ASSUME NEW n \in 0 .. MaxRefs
  PROVE  Referenced(n) \in 0 .. MaxRefs /\ Referenced(n) > 0
BY SMTT(60), RCacheAssumption DEF Referenced

\* nanvix_rcache_get() of an allocated page: no page of the heap loses its
\* contents, and the result is a referenced line of the page.
LEMMA GetKeepsPages ==
  ASSUME NEW k, CacheOK(k), NEW p \in DOMAIN k.mem, NEW older \in BOOLEAN
  PROVE  LET g == Get(k, p, older) IN
         /\ CacheOK(g.cache)
         /\ KeepsPages(k, g.cache)
         /\ g.line \in Lines
         /\ g.cache.lines[g.line].pgnum = p
         /\ g.cache.lines[g.line].refcount > 0
<1>. DEFINE g == Get(k, p, older)
            hit == Search(k, p)
<1>. USE VMemAssumption, RCacheAssumption
<1>0. p \in Pages \cup Shared /\ p # RMEM_NULL
  BY Zenon DEF CacheOK, HeapCache, IsCache
<1>1. CASE hit # None
  <2>. DEFINE l == [k.lines[hit] EXCEPT !.refcount = Referenced(@)]
              d == WithLine(k, hit, l)
  <2>1. hit \in Lines /\ k.lines[hit].refcount > 0 /\ k.lines[hit].pgnum = p
    BY Zenon, <1>1, SearchLine
  <2>2. g.cache = d /\ g.line = hit
    BY Zenon, <1>1 DEF Get
  <2>. HIDE DEF hit
  <2>3. l \in LineType /\ l.pgnum = p /\ l.page = k.lines[hit].page /\ l.refcount > 0
    <3>1. k.lines[hit] \in LineType
      BY Zenon, <2>1 DEF CacheOK, HeapCache, IsCache, LineType
    <3>2. /\ Referenced(k.lines[hit].refcount) \in 0 .. MaxRefs
          /\ Referenced(k.lines[hit].refcount) > 0
      BY Zenon, <3>1, ReferencedType DEF LineType
    <3>. QED
      BY Zenon, <2>1, <3>1, <3>2 DEF LineType
  <2>. HIDE DEF l
  <2>4. /\ HeapCache(d) /\ d.mem = k.mem /\ d.lines[hit] = l
        /\ \A y \in Lines \ {hit} : d.lines[y] = k.lines[y]
    BY <2>1, <2>3, WithLineFields DEF CacheOK
  <2>. HIDE DEF d
  <2>5. /\ d.lines[hit].refcount > 0
        /\ \A y \in Lines : /\ d.lines[y].pgnum = k.lines[y].pgnum
                            /\ d.lines[y].page = k.lines[y].page
    BY Zenon, <2>1, <2>3, <2>4
  <2>6. CacheOK(d)
    BY <2>1, <2>4, <2>5 DEF CacheOK
  <2>7. KeepsPages(k, d)
    BY Zenon, <2>4, <2>5 DEF KeepsPages, Holds
  <2>. QED
    BY Zenon, <2>1, <2>2, <2>5, <2>6, <2>7
<1>2. CASE hit = None
  <2>. DEFINE e == Evict(k, older)
              x == e.line
              m == e.cache
              l == [pgnum |-> p, refcount |-> Referenced(m.lines[x].refcount), page |-> m.mem[p]]
              w == WithLine(m, x, l)
              d == [w EXCEPT !.age = Aged(@, x)]
  <2>1. /\ CacheOK(m) /\ KeepsPages(k, m) /\ x \in Lines /\ m.lines[x].pgnum = RMEM_NULL
        /\ \A y \in Lines : m.lines[y].pgnum \in {RMEM_NULL, k.lines[y].pgnum}
    BY Zenon, EvictKeeps
  <2>2. p \in DOMAIN m.mem
    BY Zenon, <2>1 DEF KeepsPages
  <2>3. g.cache = d /\ g.line = x
    BY Zenon, <1>2, <2>2 DEF Get, Allocated
  <2>4. p \in Pages => \A y \in Lines : m.lines[y].pgnum # p
    <3>1. \A y \in Lines : ~(k.lines[y].refcount > 0 /\ k.lines[y].pgnum = p)
      BY <1>2, SearchLine DEF None, Lines
    <3>. QED
      BY <1>0, <2>1, <3>1 DEF CacheOK
  <2>. HIDE DEF e, x, m, hit
  <2>5. /\ l \in LineType
        /\ l.pgnum = p /\ l.refcount > 0 /\ l.page = m.mem[p]
    <3>1. m.lines[x].refcount \in 0 .. MaxRefs /\ m.mem[p] \in Values
      BY Zenon, <2>1, <2>2 DEF CacheOK, HeapCache, IsCache
    <3>. QED
      BY Zenon, <1>0, <3>1, ReferencedType DEF LineType
  <2>. HIDE DEF l
  <2>6. /\ HeapCache(w) /\ w.mem = m.mem /\ w.lines[x] = l
        /\ \A y \in Lines \ {x} : w.lines[y] = m.lines[y]
    BY <2>1, <2>5, WithLineFields DEF CacheOK
  <2>. HIDE DEF w
  <2>7. /\ d = [lines |-> d.lines, age |-> d.age, policy |-> d.policy, mem |-> d.mem]
        /\ d.lines = w.lines /\ d.mem = w.mem /\ d.age = Aged(w.age, x) /\ d.policy = w.policy
    BY <2>6 DEF HeapCache, IsCache
  <2>. HIDE DEF d
  <2>8. d.age \in [Lines -> 0 .. RCACHE_LENGTH]
    BY <2>1, <2>6, <2>7 DEF Aged, HeapCache, IsCache
  <2>9. CacheOK(d)
    <3>1. HeapCache(d)
      BY Zenon, <2>6, <2>7, <2>8 DEF HeapCache, IsCache
    <3>. QED
      BY <2>1, <2>4, <2>5, <2>6, <2>7, <3>1 DEF CacheOK
  <2>10. KeepsPages(m, d)
    BY <2>1, <2>4, <2>5, <2>6, <2>7 DEF KeepsPages, Holds
  <2>11. KeepsPages(k, d)
    BY Zenon, <2>1, <2>10 DEF KeepsPages
  <2>. QED
    BY Zenon, <2>1, <2>3, <2>5, <2>6, <2>7, <2>9, <2>11
<1>. QED
  BY Zenon, <1>1, <1>2

\* A store to a line changes what the page of the line holds, and nothing else.
LEMMA StoredKeeps ==
  ASSUME NEW k, CacheOK(k), NEW x \in Lines, NEW v \in Values
  PROVE  LET d == Stored(k, x, v) IN
         /\ CacheOK(d)
         /\ d.mem = k.mem
         /\ d.lines[x].pgnum = k.lines[x].pgnum /\ d.lines[x].refcount = k.lines[x].refcount
         /\ k.lines[x].pgnum \in Pages => Holds(d, k.lines[x].pgnum, v)
         /\ \A p \in Pages \ {k.lines[x].pgnum}, w \in Values : Holds(k, p, w) => Holds(d, p, w)
<1>. DEFINE l == [k.lines[x] EXCEPT !.page = v]
            d == WithLine(k, x, l)
<1>1. /\ l \in LineType /\ l.page = v
      /\ l.pgnum = k.lines[x].pgnum /\ l.refcount = k.lines[x].refcount
  <2>1. k.lines[x] \in LineType
    BY Zenon DEF CacheOK, HeapCache, IsCache, LineType
  <2>. QED
    BY Zenon, <2>1 DEF LineType
<1>. HIDE DEF l
<1>2. /\ HeapCache(d) /\ d.mem = k.mem /\ d.lines[x] = l
      /\ \A y \in Lines \ {x} : d.lines[y] = k.lines[y]
  BY <1>1, WithLineFields DEF CacheOK
<1>3. Stored(k, x, v) = d
  BY Zenon DEF Stored, l
<1>. HIDE DEF d
<1>4. CacheOK(d)
  BY <1>1, <1>2 DEF CacheOK
<1>5. k.lines[x].pgnum \in Pages => Holds(d, k.lines[x].pgnum, v)
  BY Zenon, <1>1, <1>2 DEF CacheOK, Holds
<1>6. \A p \in Pages \ {k.lines[x].pgnum}, w \in Values : Holds(k, p, w) => Holds(d, p, w)
  BY <1>1, <1>2 DEF Holds
<1>. QED
  BY Zenon, <1>1, <1>2, <1>3, <1>4, <1>5, <1>6

\* nanvix_rcache_put() of a shared page leaves the pages of the heap alone.
LEMMA PutKeepsPages ==
  ASSUME NEW k, CacheOK(k), NEW p \in Shared, NEW z \in Lines,
         k.lines[z].pgnum = p, k.lines[z].refcount > 0
  PROVE  CacheOK(Put(k, p)) /\ KeepsPages(k, Put(k, p))
<1>. DEFINE x == Search(k, p)
            l == [k.lines[x] EXCEPT !.refcount = @ - 1]
            d == WithLine(k, x, l)
            f == Flush(d, x)
<1>. USE VMemAssumption, RCacheAssumption
<1>1. x \in Lines /\ k.lines[x].refcount > 0 /\ k.lines[x].pgnum = p /\ p \notin Pages
  BY Zenon, SearchLine
<1>2. Put(k, p) \in {d, f}
  BY Zenon DEF Put
<1>. HIDE DEF x
<1>3. l \in LineType /\ l.pgnum = p
  <2>1. k.lines[x] \in LineType
    BY Zenon, <1>1 DEF CacheOK, HeapCache, IsCache, LineType
  <2>. QED
    BY <1>1, <2>1 DEF LineType
<1>. HIDE DEF l
<1>4. /\ HeapCache(d) /\ d.mem = k.mem /\ d.lines[x] = l
      /\ \A y \in Lines \ {x} : d.lines[y] = k.lines[y]
  BY <1>1, <1>3, WithLineFields DEF CacheOK
<1>. HIDE DEF d
<1>5. CacheOK(d)
  BY <1>1, <1>3, <1>4 DEF CacheOK
<1>6. KeepsPages(k, d)
  BY <1>1, <1>3, <1>4 DEF KeepsPages, Holds
<1>7. CacheOK(f) /\ f.lines = d.lines /\ DOMAIN f.mem = DOMAIN d.mem
      /\ \A q \in DOMAIN d.mem : q # p => f.mem[q] = d.mem[q]
  BY <1>1, <1>3, <1>4, <1>5, FlushFields
<1>. HIDE DEF f
<1>8. KeepsPages(k, f)
  BY <1>1, <1>6, <1>7 DEF KeepsPages, Holds
<1>. QED
  BY Zenon, <1>2, <1>5, <1>6, <1>7, <1>8

-----------------------------------------------------------------------------
(***************************************************************************)
(* The heap.                                                               *)
(***************************************************************************)

\* What the process stored at an address of its heap is what it finds there.
HeapHolds ==
  \A a \in Addrs : rmem_table[a] # RMEM_NULL /\ view[a] # Unset =>
    Holds(cache, rmem_table[a], view[a])

\* The inductive invariant.
HeapInv ==
  /\ HeapTracked
  /\ CacheOK(cache)
  /\ HeapHolds
  /\ Shared \subseteq DOMAIN cache.mem

\* A cache that holds what the process stored is coherent.
LEMMA HoldsCoherent == HeapInv => HeapCoherent
<1>. SUFFICES ASSUME HeapInv, NEW a \in Addrs, rmem_table[a] # RMEM_NULL
              PROVE  LET p == rmem_table[a]
                         copies == {x \in Lines : cache.lines[x].pgnum = p} IN
                     /\ \A x, y \in copies : x = y
                     /\ view[a] # Unset =>
                          /\ \A x \in copies : view[a] = cache.lines[x].page
                          /\ copies = {} => view[a] = cache.mem[p]
  BY Zenon DEF HeapCoherent
<1>1. rmem_table[a] \in Pages
  BY Zenon DEF HeapInv, HeapTracked, VMemTypeOK
<1>2. \A x, y \in {z \in Lines : cache.lines[z].pgnum = rmem_table[a]} : x = y
  BY Zenon, <1>1 DEF HeapInv, CacheOK
<1>3. view[a] # Unset => Holds(cache, rmem_table[a], view[a])
  BY Zenon DEF HeapInv, HeapHolds
<1>. QED
  BY Zenon, <1>2, <1>3 DEF Holds

\* The page at an address that nanvix_vmem_lookup() accepts is allocated.
LEMMA LookupPage ==
  ASSUME HeapInv, NEW a, Lookup(a)
  PROVE  a \in Addrs /\ rmem_table[a] \in Pages \cap DOMAIN cache.mem
<1>1. a \in Addrs /\ rmem_table[a] # RMEM_NULL
  BY Zenon DEF Lookup
<1>2. a \in 1 .. rbrk - 1
  BY Zenon, <1>1 DEF HeapInv, HeapTracked
<1>. QED
  BY Zenon, <1>1, <1>2 DEF HeapInv, HeapTracked, VMemTypeOK

\* A step of the cache alone preserves the invariant.
LEMMA CacheStep ==
  ASSUME HeapInv, CacheOK(cache'), KeepsPages(cache, cache'), UNCHANGED <<rmem_table, rbrk, view>>,
         maps' \in [Lines -> [laddr : Addrs, raddr : Lines \cup {None}]],
         linked' \in [Addrs -> Lines \cup {None}]
  PROVE  HeapInv'
<1>1. DOMAIN cache'.mem = DOMAIN cache.mem
  BY Zenon DEF KeepsPages
<1>2. HeapTracked'
  BY <1>1 DEF HeapInv, HeapTracked, VMemTypeOK, CacheOK, HeapCache
<1>3. HeapHolds'
  <2>. SUFFICES ASSUME NEW a \in Addrs, rmem_table[a] # RMEM_NULL, view[a] # Unset
                PROVE  Holds(cache', rmem_table[a], view[a])
    BY Zenon DEF HeapHolds
  <2>1. rmem_table[a] \in Pages \cap DOMAIN cache.mem
    BY Zenon, LookupPage DEF Lookup
  <2>2. view[a] \in Values /\ Holds(cache, rmem_table[a], view[a])
    BY Zenon DEF HeapInv, HeapHolds, HeapTracked, VMemTypeOK
  <2>. QED
    BY Zenon, <2>1, <2>2 DEF KeepsPages
<1>. QED
  BY Zenon, <1>1, <1>2, <1>3 DEF HeapInv

\* A store to the line that has the page of address a preserves it as well.
LEMMA StoreStep ==
  ASSUME HeapInv, NEW a, Lookup(a), NEW v \in Values, NEW k, CacheOK(k), KeepsPages(cache, k),
         NEW x \in Lines, k.lines[x].pgnum = rmem_table[a],
         cache' = Stored(k, x, v), view' = [view EXCEPT ![a] = v],
         UNCHANGED <<rmem_table, rbrk, maps, linked>>
  PROVE  HeapInv'
<1>1. a \in Addrs /\ rmem_table[a] \in Pages \cap DOMAIN cache.mem
  BY Zenon, LookupPage
<1>2. /\ CacheOK(cache')
      /\ cache'.mem = k.mem
      /\ Holds(cache', rmem_table[a], v)
      /\ \A p \in Pages \ {rmem_table[a]}, w \in Values : Holds(k, p, w) => Holds(cache', p, w)
  BY Zenon, <1>1, StoredKeeps
<1>3. DOMAIN cache'.mem = DOMAIN cache.mem
  BY Zenon, <1>2 DEF KeepsPages
<1>4. HeapTracked'
  BY SMTT(60), <1>1, <1>2, <1>3 DEF HeapInv, HeapTracked, VMemTypeOK, CacheOK, HeapCache
<1>5. HeapHolds'
  <2>. SUFFICES ASSUME NEW b \in Addrs, rmem_table[b] # RMEM_NULL, view'[b] # Unset
                PROVE  Holds(cache', rmem_table[b], view'[b])
    BY Zenon DEF HeapHolds
  <2>1. CASE b = a
    BY Zenon, <1>1, <1>2, <2>1 DEF HeapInv, HeapTracked, VMemTypeOK
  <2>2. CASE b # a
    <3>1. rmem_table[b] \in Pages \cap DOMAIN cache.mem
      BY Zenon, LookupPage DEF Lookup
    <3>2. rmem_table[b] # rmem_table[a]
      BY Zenon, <1>1, <2>2 DEF HeapInv, HeapTracked
    <3>3. view'[b] = view[b] /\ view[b] \in Values /\ Holds(cache, rmem_table[b], view[b])
      BY Zenon, <1>1, <2>2 DEF HeapInv, HeapHolds, HeapTracked, VMemTypeOK
    <3>4. Holds(k, rmem_table[b], view[b])
      BY Zenon, <3>1, <3>3 DEF KeepsPages
    <3>. QED
      BY Zenon, <1>2, <3>1, <3>2, <3>3, <3>4
  <2>. QED
    BY Zenon, <2>1, <2>2
<1>. QED
  BY Zenon, <1>2, <1>3, <1>4, <1>5 DEF HeapInv

\* The invariant holds in the beginning.
LEMMA HeapInitOK == VMemInit => HeapInv
<1>. SUFFICES ASSUME VMemInit
              PROVE  HeapInv
  BY Zenon
<1>. USE VMemAssumption, RCacheAssumption
<1>1. /\ cache = [lines |-> cache.lines, age |-> cache.age, policy |-> cache.policy, mem |-> cache.mem]
      /\ cache.lines = [x \in Lines |-> [pgnum |-> RMEM_NULL, refcount |-> 0, page |-> Zero]]
      /\ cache.age = [x \in Lines |-> 0] /\ cache.policy = "RCACHE_FIFO"
      /\ cache.mem = [p \in Shared |-> Zero]
  BY Zenon DEF VMemInit, Setup
<1>2. HeapCache(cache)
  BY <1>1 DEF HeapCache, IsCache, Policies
<1>3. CacheOK(cache)
  BY <1>1, <1>2 DEF CacheOK
<1>4. VMemTypeOK
  BY <1>2 DEF VMemInit, VMemTypeOK, HeapCache, NoMap, Addrs, None
<1>5. HeapTracked
  BY <1>1, <1>4 DEF VMemInit, HeapTracked
<1>6. HeapHolds
  BY Zenon DEF VMemInit, HeapHolds
<1>. QED
  BY Zenon, <1>1, <1>3, <1>5, <1>6 DEF HeapInv

\* nanvix_vmem_alloc(): the new pages are distinct and were not allocated, and
\* land right above the old break, be they enough or not.
LEMMA AllocStep ==
  ASSUME HeapInv, NEW n \in Nat, nanvix_vmem_alloc(n)
  PROVE  HeapInv'
<1>. DEFINE got == IF n <= Cardinality(FreePages) THEN n ELSE Cardinality(FreePages)
<1>. USE VMemAssumption
<1>1. got \in Nat /\ got <= n
  <2>1. IsFiniteSet(FreePages)
    BY Zenon, FS_Subset DEF FreePages
  <2>. QED
    BY <2>1, FS_CardinalityType
<1>. HIDE DEF got
<1>2. PICK taken \in Injection(1 .. got, FreePages) :
        /\ rmem_table' = Filled(rbrk, taken)
        /\ cache' = [cache EXCEPT !.mem = [p \in DOMAIN cache.mem \cup Range(taken) |->
                                     IF p \in Range(taken) THEN Zero ELSE cache.mem[p]]]
  BY Zenon DEF nanvix_vmem_alloc, got
<1>3. /\ taken \in [1 .. got -> FreePages]
      /\ \A i, j \in 1 .. got : taken[i] = taken[j] => i = j
  BY Zenon DEF Injection, IsInjective
<1>. DEFINE new == Range(taken)
<1>4. new = {taken[i] : i \in 1 .. got} /\ new \subseteq Pages /\ new \cap DOMAIN cache.mem = {}
  BY <1>3 DEF Range, FreePages
<1>. HIDE DEF new
<1>5. /\ cache'.lines = cache.lines /\ cache'.age = cache.age /\ cache'.policy = cache.policy
      /\ cache'.mem = [p \in DOMAIN cache.mem \cup new |-> IF p \in new THEN Zero ELSE cache.mem[p]]
      /\ cache' = [lines |-> cache'.lines, age |-> cache'.age, policy |-> cache'.policy, mem |-> cache'.mem]
  BY ZenonT(60), <1>2 DEF HeapInv, CacheOK, HeapCache, IsCache, new
<1>6. HeapCache(cache')
  BY <1>4, <1>5 DEF HeapInv, CacheOK, HeapCache, IsCache
<1>7. CacheOK(cache')
  BY <1>5, <1>6 DEF HeapInv, CacheOK
<1>8. /\ rbrk \in 1 .. RMEM_TABLE_LENGTH - 1 /\ rbrk' = rbrk + n
      /\ rbrk' \in 1 .. RMEM_TABLE_LENGTH - 1
  BY DEF nanvix_vmem_alloc, Expand, HeapInv, HeapTracked, VMemTypeOK
<1>9. \A a \in Addrs :
        rmem_table'[a] = IF a \in rbrk .. rbrk + got - 1 THEN taken[a - rbrk + 1] ELSE rmem_table[a]
  BY SMTT(60), <1>1, <1>2, <1>3, <1>8 DEF Filled, Addrs
<1>10. rmem_table' \in [Addrs -> Pages \cup {RMEM_NULL}]
  <2>1. \A a \in Addrs : rmem_table'[a] \in Pages \cup {RMEM_NULL}
    BY <1>1, <1>3, <1>8, <1>9 DEF Addrs, FreePages, HeapInv, HeapTracked, VMemTypeOK
  <2>. QED
    BY Zenon, <1>2, <2>1 DEF Filled
<1>11. VMemTypeOK'
  BY Zenon, <1>6, <1>8, <1>10 DEF nanvix_vmem_alloc, HeapInv, HeapTracked, VMemTypeOK, HeapCache
<1>12. \A i \in 1 .. got : /\ rbrk + i - 1 \in Addrs \cap (rbrk .. rbrk + got - 1)
                           /\ rmem_table'[rbrk + i - 1] = taken[i]
  <2>. SUFFICES ASSUME NEW i \in 1 .. got
                PROVE  /\ rbrk + i - 1 \in Addrs \cap (rbrk .. rbrk + got - 1)
                       /\ rmem_table'[rbrk + i - 1] = taken[i]
    BY Zenon
  <2>1. rbrk + i - 1 \in Addrs \cap (rbrk .. rbrk + got - 1) /\ (rbrk + i - 1) - rbrk + 1 = i
    BY <1>1, <1>8 DEF Addrs
  <2>. QED
    BY Zenon, <1>9, <2>1
<1>13. \A a \in Addrs \ (1 .. rbrk - 1) : rmem_table[a] = RMEM_NULL
  BY Zenon DEF HeapInv, HeapTracked
<1>14. {rmem_table'[a] : a \in 1 .. rbrk' - 1} \ {RMEM_NULL} = DOMAIN cache'.mem \ Shared
  <2>1. ASSUME NEW p \in DOMAIN cache'.mem \ Shared
        PROVE  p # RMEM_NULL /\ \E a \in 1 .. rbrk' - 1 : rmem_table'[a] = p
    <3>1. CASE p \in new
      <4>1. PICK i \in 1 .. got : p = taken[i]
        BY Zenon, <1>4, <3>1
      <4>2. rbrk + i - 1 \in 1 .. rbrk' - 1
        BY <1>1, <1>8
      <4>. QED
        BY Zenon, <1>4, <1>12, <3>1, <4>1, <4>2
    <3>2. CASE p \notin new
      <4>1. p \in DOMAIN cache.mem \ Shared
        BY Zenon, <1>5, <2>1, <3>2
      <4>2. PICK a \in 1 .. rbrk - 1 : rmem_table[a] = p /\ p # RMEM_NULL
        BY <4>1 DEF HeapInv, HeapTracked
      <4>3. a \in Addrs /\ a \notin rbrk .. rbrk + got - 1 /\ a \in 1 .. rbrk' - 1
        BY <1>1, <1>8 DEF Addrs
      <4>. QED
        BY Zenon, <1>9, <4>2, <4>3
    <3>. QED
      BY Zenon, <3>1, <3>2
  <2>2. ASSUME NEW a \in 1 .. rbrk' - 1, rmem_table'[a] # RMEM_NULL
        PROVE  rmem_table'[a] \in DOMAIN cache'.mem \ Shared
    <3>1. a \in Addrs
      BY <1>8 DEF Addrs
    <3>2. CASE a \in rbrk .. rbrk + got - 1
      <4>1. a - rbrk + 1 \in 1 .. got
        BY <1>1, <1>8, <3>2
      <4>. QED
        BY <1>4, <1>5, <1>9, <3>1, <3>2, <4>1
    <3>3. CASE a \notin rbrk .. rbrk + got - 1
      <4>1. rmem_table[a] = rmem_table'[a] /\ a \in 1 .. rbrk - 1
        BY Zenon, <1>9, <1>13, <2>2, <3>1, <3>3
      <4>2. rmem_table[a] \in DOMAIN cache.mem \ Shared
        BY Zenon, <2>2, <4>1 DEF HeapInv, HeapTracked
      <4>. QED
        BY Zenon, <1>5, <4>1, <4>2
    <3>. QED
      BY Zenon, <3>2, <3>3
  <2>. QED
    BY <2>1, <2>2
<1>15. \A a, b \in Addrs : rmem_table'[a] = rmem_table'[b] /\ a # b => rmem_table'[a] = RMEM_NULL
  <2>. SUFFICES ASSUME NEW a \in Addrs, NEW b \in Addrs, a # b,
                       rmem_table'[a] = rmem_table'[b], rmem_table'[a] # RMEM_NULL
                PROVE  FALSE
    BY Zenon
  <2>. DEFINE In(e) == e \in rbrk .. rbrk + got - 1
  <2>1. \A e \in Addrs : In(e) => e - rbrk + 1 \in 1 .. got /\ rmem_table'[e] = taken[e - rbrk + 1]
                                 /\ rmem_table'[e] \in new
    BY SMTT(60), <1>1, <1>4, <1>8, <1>9 DEF Addrs
  <2>2. \A e \in Addrs : ~In(e) /\ rmem_table'[e] # RMEM_NULL =>
                          rmem_table'[e] = rmem_table[e] /\ rmem_table'[e] \in DOMAIN cache.mem
    BY Zenon, <1>9, LookupPage DEF Lookup
  <2>3. CASE In(a) /\ In(b)
    <3>1. /\ a - rbrk + 1 \in 1 .. got /\ rmem_table'[a] = taken[a - rbrk + 1]
          /\ b - rbrk + 1 \in 1 .. got /\ rmem_table'[b] = taken[b - rbrk + 1]
      BY Zenon, <2>1, <2>3
    <3>2. a - rbrk + 1 = b - rbrk + 1
      BY ZenonT(60), <1>3, <3>1
    <3>. QED
      BY <1>8, <3>2 DEF Addrs
  <2>4. CASE ~In(a) /\ ~In(b)
    BY Zenon, <2>2, <2>4 DEF HeapInv, HeapTracked
  <2>5. CASE In(a) /\ ~In(b)
    BY Zenon, <1>4, <2>1, <2>2, <2>5
  <2>6. CASE ~In(a) /\ In(b)
    BY Zenon, <1>4, <2>1, <2>2, <2>6
  <2>. HIDE DEF In
  <2>. QED
    BY Zenon, <2>3, <2>4, <2>5, <2>6
<1>16. \A a \in Addrs \ (1 .. rbrk' - 1) : rmem_table'[a] = RMEM_NULL
  <2>. SUFFICES ASSUME NEW a \in Addrs, a \notin 1 .. rbrk' - 1
                PROVE  rmem_table'[a] = RMEM_NULL
    BY Zenon
  <2>1. a \notin rbrk .. rbrk + got - 1 /\ a \notin 1 .. rbrk - 1
    BY SMTT(60), <1>1, <1>8 DEF Addrs
  <2>. QED
    BY Zenon, <1>9, <1>13, <2>1
<1>17. HeapHolds'
  <2>. SUFFICES ASSUME NEW a \in Addrs, rmem_table'[a] # RMEM_NULL, view'[a] # Unset
                PROVE  Holds(cache, rmem_table[a], view[a])' 
    BY Zenon DEF HeapHolds
  <2>1. view'[a] = view[a] /\ a \notin rbrk .. rbrk + n - 1
    BY Zenon DEF nanvix_vmem_alloc
  <2>2. rmem_table'[a] = rmem_table[a]
    BY SMTT(60), <1>1, <1>8, <1>9, <2>1 DEF Addrs
  <2>3. Holds(cache, rmem_table[a], view[a]) /\ rmem_table[a] \in DOMAIN cache.mem
    BY Zenon, <2>1, <2>2, LookupPage DEF Lookup, HeapInv, HeapHolds
  <2>. QED
    BY <1>4, <1>5, <2>1, <2>2, <2>3 DEF Holds
<1>. QED
  BY Zenon, <1>5, <1>7, <1>11, <1>14, <1>15, <1>16, <1>17 DEF HeapInv, HeapTracked

\* nanvix_vmem_free(): the loop frees allocated pages only, and the break is
\* lowered only if the loop reached it.
LEMMA FreeStep ==
  ASSUME HeapInv, NEW base \in Addrs, nanvix_vmem_free(base)
  PROVE  HeapInv'
<1>. DEFINE holes == {a \in base .. rbrk - 1 : rmem_table[a] = RMEM_NULL}
            end == FreedUpTo(base)
            freed == base .. end - 1
            taken == {rmem_table[a] : a \in freed}
<1>. USE VMemAssumption
<1>1. base \in 1 .. rbrk - 1 /\ rbrk \in 1 .. RMEM_TABLE_LENGTH - 1
  <2>1. rmem_table[base] # RMEM_NULL
    BY Zenon DEF nanvix_vmem_free, Lookup
  <2>. QED
    BY Zenon, <2>1 DEF HeapInv, HeapTracked, VMemTypeOK
<1>2. /\ end \in base .. rbrk
      /\ \A a \in base .. end - 1 : rmem_table[a] # RMEM_NULL
  <2>1. CASE holes = {}
    BY <1>1, <2>1 DEF FreedUpTo
  <2>2. CASE holes # {}
    <3>1. holes \in SUBSET Nat
      BY <1>1
    <3>2. end = First(holes)
      BY Zenon, <2>2 DEF FreedUpTo
    <3>3. First(holes) \in holes /\ \A j \in holes : First(holes) <= j
      <4>. HIDE DEF holes
      <4>. QED  BY Zenon, <2>2, <3>1, FirstIsLeast
    <3>. HIDE DEF end
    <3>. QED
      BY <1>1, <3>2, <3>3
  <2>. QED
    BY Zenon, <2>1, <2>2
<1>3. rbrk' \in {base, rbrk} /\ (rbrk' # rbrk => end = rbrk /\ rbrk' = base)
  BY Zenon DEF nanvix_vmem_free, Contract
<1>4. /\ rmem_table' = [a \in Addrs |-> IF a \in freed THEN RMEM_NULL ELSE rmem_table[a]]
      /\ view' = [a \in Addrs |-> IF a \in freed THEN Unset ELSE view[a]]
      /\ cache' = [cache EXCEPT !.mem = Restrict(cache.mem, DOMAIN cache.mem \ taken)]
      /\ maps' = maps /\ linked' = linked
  BY Zenon DEF nanvix_vmem_free
<1>5. /\ cache'.lines = cache.lines /\ cache'.age = cache.age /\ cache'.policy = cache.policy
      /\ cache'.mem = [p \in DOMAIN cache.mem \ taken |-> cache.mem[p]]
      /\ cache' = [lines |-> cache'.lines, age |-> cache'.age, policy |-> cache'.policy, mem |-> cache'.mem]
  <2>. HIDE DEF taken
  <2>. QED
    BY Zenon, <1>4 DEF HeapInv, CacheOK, HeapCache, IsCache, Restrict
<1>. HIDE DEF end, taken
<1>6. freed \subseteq Addrs \cap (1 .. rbrk - 1) /\ \A a \in freed : rmem_table[a] \in taken
  BY <1>1, <1>2 DEF Addrs, taken
<1>7. taken \subseteq Pages
  BY <1>2, <1>6 DEF taken, HeapInv, HeapTracked, VMemTypeOK
<1>8. CacheOK(cache')
  <2>1. HeapCache(cache')
    BY <1>5 DEF HeapInv, CacheOK, HeapCache, IsCache
  <2>. QED
    BY <1>5, <2>1 DEF HeapInv, CacheOK
<1>9. VMemTypeOK'
  BY <1>1, <1>3, <1>4, <1>8 DEF HeapInv, CacheOK, HeapCache, HeapTracked, VMemTypeOK
<1>. HIDE DEF freed
<1>10. \A a \in Addrs \ freed : rmem_table[a] # RMEM_NULL => rmem_table[a] \notin taken
  <2>. SUFFICES ASSUME NEW a \in Addrs \ freed, rmem_table[a] # RMEM_NULL, rmem_table[a] \in taken
                PROVE  FALSE
    BY Zenon
  <2>1. PICK b \in freed : rmem_table[b] = rmem_table[a]
    BY Zenon DEF taken
  <2>. QED
    BY Zenon, <1>6, <2>1 DEF HeapInv, HeapTracked
<1>11. \A a \in Addrs \ (1 .. rbrk' - 1) : rmem_table'[a] = RMEM_NULL
  <2>. SUFFICES ASSUME NEW a \in Addrs, a \notin 1 .. rbrk' - 1
                PROVE  rmem_table'[a] = RMEM_NULL
    BY Zenon
  <2>1. CASE a \notin 1 .. rbrk - 1
    BY Zenon, <1>4, <2>1 DEF HeapInv, HeapTracked
  <2>2. CASE a \in 1 .. rbrk - 1
    <3>0. rbrk' # rbrk
      BY Zenon, <2>2
    <3>1. a \in freed
      BY <1>1, <1>3, <2>2, <3>0 DEF freed
    <3>. QED
      BY Zenon, <1>4, <3>1
  <2>. QED
    BY Zenon, <2>1, <2>2
<1>12. {rmem_table'[a] : a \in 1 .. rbrk' - 1} \ {RMEM_NULL} = DOMAIN cache'.mem \ Shared
  <2>1. ASSUME NEW p \in DOMAIN cache'.mem \ Shared
        PROVE  p # RMEM_NULL /\ \E a \in 1 .. rbrk' - 1 : rmem_table'[a] = p
    <3>1. p \in DOMAIN cache.mem \ Shared /\ p \notin taken
      BY Zenon, <1>5
    <3>2. PICK a \in 1 .. rbrk - 1 : rmem_table[a] = p /\ p # RMEM_NULL
      BY Zenon, <3>1 DEF HeapInv, HeapTracked
    <3>3. a \in Addrs /\ a \notin freed
      BY <1>1, <1>6, <3>1, <3>2 DEF Addrs
    <3>4. rmem_table'[a] = p
      BY Zenon, <1>4, <3>2, <3>3
    <3>. QED
      BY Zenon, <1>11, <3>2, <3>3, <3>4
  <2>2. ASSUME NEW a \in 1 .. rbrk' - 1, rmem_table'[a] # RMEM_NULL
        PROVE  rmem_table'[a] \in DOMAIN cache'.mem \ Shared
    <3>0. rbrk' = rbrk \/ rbrk' = base
      BY Zenon, <1>3
    <3>1. a \in Addrs /\ a \in 1 .. rbrk - 1
      BY <1>1, <3>0 DEF Addrs
    <3>2. a \notin freed /\ rmem_table'[a] = rmem_table[a]
      BY Zenon, <1>4, <2>2, <3>1
    <3>3. rmem_table[a] \in DOMAIN cache.mem \ Shared
      BY <2>2, <3>1, <3>2 DEF HeapInv, HeapTracked
    <3>. QED
      BY Zenon, <1>5, <1>10, <2>2, <3>1, <3>2, <3>3
  <2>. QED
    BY <2>1, <2>2
<1>13. \A a, b \in Addrs : rmem_table'[a] = rmem_table'[b] /\ a # b => rmem_table'[a] = RMEM_NULL
  BY Zenon, <1>4 DEF HeapInv, HeapTracked
<1>14. HeapHolds'
  <2>. SUFFICES ASSUME NEW a \in Addrs, rmem_table'[a] # RMEM_NULL, view'[a] # Unset
                PROVE  Holds(cache, rmem_table[a], view[a])'
    BY Zenon DEF HeapHolds
  <2>1. a \notin freed /\ rmem_table'[a] = rmem_table[a] /\ view'[a] = view[a]
    BY Zenon, <1>4
  <2>2. Holds(cache, rmem_table[a], view[a]) /\ rmem_table[a] \in DOMAIN cache.mem \ taken
    BY Zenon, <1>10, <2>1, LookupPage DEF Lookup, HeapInv, HeapHolds
  <2>. QED
    BY <1>5, <2>1, <2>2 DEF Holds
<1>15. Shared \subseteq DOMAIN cache'.mem
  BY Zenon, <1>5, <1>7 DEF HeapInv
<1>. QED
  BY Zenon, <1>8, <1>9, <1>11, <1>12, <1>13, <1>14, <1>15 DEF HeapInv, HeapTracked

\* Every step preserves the invariant.
LEMMA HeapNextOK == HeapInv /\ [VMemNext]_vmemvars => HeapInv'
<1>. SUFFICES ASSUME HeapInv, [VMemNext]_vmemvars
              PROVE  HeapInv'
  BY Zenon
<1>. USE VMemAssumption, RCacheAssumption
<1>0. CacheOK(cache) /\ KeepsPages(cache, cache)
  BY Zenon DEF HeapInv, KeepsPages
<1>1. /\ maps \in [Lines -> [laddr : Addrs, raddr : Lines \cup {None}]]
      /\ linked \in [Addrs -> Lines \cup {None}]
  BY Zenon DEF HeapInv, HeapTracked, VMemTypeOK
<1>2. ASSUME NEW n \in 1 .. MaxAlloc, nanvix_vmem_alloc(n)
      PROVE  HeapInv'
  BY <1>2, AllocStep
<1>3. ASSUME NEW num \in Policies, SelectPolicy(num)
      PROVE  HeapInv'
  <2>1. /\ cache'.lines = cache.lines /\ cache'.age = cache.age /\ cache'.mem = cache.mem
        /\ cache'.policy = num
        /\ cache' = [lines |-> cache'.lines, age |-> cache'.age, policy |-> cache'.policy, mem |-> cache'.mem]
    BY Zenon, <1>0, <1>3 DEF SelectPolicy, Select, CacheOK, HeapCache, IsCache
  <2>2. HeapCache(cache')
    BY Zenon, <1>0, <2>1 DEF CacheOK, HeapCache, IsCache
  <2>3. CacheOK(cache') /\ KeepsPages(cache, cache')
    BY <1>0, <2>1, <2>2 DEF CacheOK, KeepsPages, Holds
  <2>. QED
    BY Zenon, <1>1, <1>3, <2>3, CacheStep DEF SelectPolicy
<1>4. ASSUME NEW p \in Shared, nanvix_shm_read(p)
      PROVE  HeapInv'
  <2>1. PICK older \in BOOLEAN : cache' = Put(Get(cache, p, older).cache, p)
    BY Zenon, <1>4 DEF nanvix_shm_read
  <2>. DEFINE g == Get(cache, p, older)
  <2>2. /\ CacheOK(g.cache) /\ KeepsPages(cache, g.cache) /\ g.line \in Lines
        /\ g.cache.lines[g.line].pgnum = p /\ g.cache.lines[g.line].refcount > 0
    BY SMTT(60), <1>0, GetKeepsPages DEF HeapInv
  <2>. HIDE DEF g
  <2>3. CacheOK(Put(g.cache, p)) /\ KeepsPages(g.cache, Put(g.cache, p))
    BY Zenon, <2>2, PutKeepsPages
  <2>4. CacheOK(cache') /\ KeepsPages(cache, cache')
    BY Zenon, <2>1, <2>2, <2>3 DEF g, KeepsPages
  <2>. QED
    BY Zenon, <1>1, <1>4, <2>4, CacheStep DEF nanvix_shm_read
<1>5. ASSUME NEW p \in Shared, NEW v \in Values, nanvix_shm_write(p, v)
      PROVE  HeapInv'
  <2>1. PICK older \in BOOLEAN :
          cache' = Put(Stored(Get(cache, p, older).cache, Get(cache, p, older).line, v), p)
    BY Zenon, <1>5 DEF nanvix_shm_write
  <2>. DEFINE g == Get(cache, p, older)
              d == Stored(g.cache, g.line, v)
  <2>2. /\ CacheOK(g.cache) /\ KeepsPages(cache, g.cache) /\ g.line \in Lines
        /\ g.cache.lines[g.line].pgnum = p /\ g.cache.lines[g.line].refcount > 0
    BY SMTT(60), <1>0, GetKeepsPages DEF HeapInv
  <2>. HIDE DEF g
  <2>3. /\ CacheOK(d) /\ d.mem = g.cache.mem
        /\ d.lines[g.line].pgnum = p /\ d.lines[g.line].refcount > 0
        /\ \A q \in Pages \ {p}, w \in Values : Holds(g.cache, q, w) => Holds(d, q, w)
    BY SMTT(60), <2>2, StoredKeeps
  <2>. HIDE DEF d
  <2>4. CacheOK(Put(d, p)) /\ KeepsPages(d, Put(d, p))
    BY Zenon, <2>2, <2>3, PutKeepsPages
  <2>5. cache' = Put(d, p)
    BY Zenon, <2>1 DEF d, g
  <2>6. CacheOK(cache') /\ KeepsPages(cache, cache')
    <3>1. KeepsPages(g.cache, d)
      BY Zenon, <2>3 DEF KeepsPages
    <3>. QED
      BY Zenon, <2>2, <2>4, <2>5, <3>1 DEF KeepsPages
  <2>. QED
    BY Zenon, <1>1, <1>5, <2>6, CacheStep DEF nanvix_shm_write
<1>6. ASSUME NEW a \in Addrs, nanvix_vmem_free(a)
      PROVE  HeapInv'
  BY Zenon, <1>6, FreeStep
<1>7. ASSUME NEW a \in Addrs, Lookup(a), NEW older \in BOOLEAN
      PROVE  LET g == Get(cache, rmem_table[a], older) IN
             /\ CacheOK(g.cache) /\ KeepsPages(cache, g.cache) /\ g.line \in Lines
             /\ g.cache.lines[g.line].pgnum = rmem_table[a]
  BY <1>0, <1>7, LookupPage, GetKeepsPages
<1>8. ASSUME NEW a \in Addrs, nanvix_vmem_read(a)
      PROVE  HeapInv'
  <2>1. PICK older \in BOOLEAN : cache' = Get(cache, rmem_table[a], older).cache
    BY Zenon, <1>8 DEF nanvix_vmem_read
  <2>2. CacheOK(cache') /\ KeepsPages(cache, cache')
    BY Zenon, <1>7, <1>8, <2>1 DEF nanvix_vmem_read
  <2>. QED
    BY Zenon, <1>1, <1>8, <2>2, CacheStep DEF nanvix_vmem_read
<1>9. None \notin Lines
  BY SMTT(60) DEF None, Lines
<1>10. ASSUME NEW a \in Addrs, nanvix_rfault(a)
       PROVE  HeapInv'
  <2>1. PICK older \in BOOLEAN :
          LET g == Get(cache, rmem_table[a], older) IN
          /\ cache' = g.cache
          /\ IF g.line = None
             THEN UNCHANGED <<maps, linked>>
             ELSE /\ linked' = Relink(a, g.line)
                  /\ maps' = [maps EXCEPT ![MapEntry(g.line)] = [laddr |-> a, raddr |-> g.line]]
    BY Zenon, <1>10 DEF nanvix_rfault
  <2>. DEFINE x == Get(cache, rmem_table[a], older).line
  <2>2. CacheOK(cache') /\ KeepsPages(cache, cache') /\ x \in Lines
    BY Zenon, <1>7, <1>10, <2>1 DEF nanvix_rfault
  <2>3. /\ linked' = Relink(a, x)
        /\ maps' = [maps EXCEPT ![MapEntry(x)] = [laddr |-> a, raddr |-> x]]
    BY Zenon, <1>9, <2>1, <2>2
  <2>. HIDE DEF x
  <2>4. linked' \in [Addrs -> Lines \cup {None}]
    BY Zenon, <1>1, <2>2, <2>3 DEF Relink
  <2>5. maps' \in [Lines -> [laddr : Addrs, raddr : Lines \cup {None}]]
    BY ZenonT(60), <1>1, <2>2, <2>3
  <2>. QED
    BY Zenon, <1>10, <2>2, <2>4, <2>5, CacheStep DEF nanvix_rfault
<1>11. ASSUME NEW a \in Addrs, NEW v \in Values, nanvix_vmem_write(a, v)
       PROVE  HeapInv'
  <2>1. PICK older \in BOOLEAN :
          LET g == Get(cache, rmem_table[a], older) IN
          IF g.line = None
          THEN cache' = g.cache /\ view' = view
          ELSE /\ cache' = Stored(g.cache, g.line, v)
               /\ view' = [view EXCEPT ![a] = v]
    BY Zenon, <1>11 DEF nanvix_vmem_write
  <2>. DEFINE g == Get(cache, rmem_table[a], older)
              k == g.cache
              x == g.line
  <2>2. /\ CacheOK(k) /\ KeepsPages(cache, k) /\ x \in Lines /\ k.lines[x].pgnum = rmem_table[a]
    BY Zenon, <1>7, <1>11 DEF nanvix_vmem_write
  <2>3. cache' = Stored(k, x, v) /\ view' = [view EXCEPT ![a] = v]
    BY Zenon, <1>9, <2>1, <2>2
  <2>. HIDE DEF k, x
  <2>. QED
    BY ZenonT(60), <1>11, <2>2, <2>3, StoreStep DEF nanvix_vmem_write
<1>12. ASSUME NEW a \in Addrs, NEW v \in Values, StoreLinked(a, v)
       PROVE  HeapInv'
  <2>1. linked[a] \in Lines
    BY Zenon, <1>1, <1>12 DEF StoreLinked
  <2>. QED
    BY ZenonT(60), <1>0, <1>12, <2>1, StoreStep DEF StoreLinked
<1>13. CASE UNCHANGED vmemvars
  BY Zenon, <1>0, <1>1, <1>13, CacheStep DEF vmemvars
<1>. QED
  BY Zenon, <1>2, <1>3, <1>4, <1>5, <1>6, <1>8, <1>10, <1>11, <1>12, <1>13 DEF VMemNext

\* For any sizes of cache and heap, and any number of remote pages: a process
\* finds in its heap what it stored there, over any evictions by
\* nanvix_rcache_bypass() and nanvix_rcache_fifo(), and after allocations that
\* fail half way and frees that stop half way the table of remote pages still
\* has every page that the process was given.
THEOREM HeapCorrect == VMemSpec => [](HeapCoherent /\ HeapTracked)
<1>1. HeapInv => HeapCoherent /\ HeapTracked
  BY Zenon, HoldsCoherent DEF HeapInv
<1>. QED
  BY HeapInitOK, HeapNextOK, <1>1, PTL DEF VMemSpec

-----------------------------------------------------------------------------
(***************************************************************************)
(* The table of regions.                                                   *)
(***************************************************************************)

MaybePage == Pages \cup {RMEM_NULL}
Region == [used : BOOLEAN, name : Names \cup {NoName}, owner : Nat, refcount : Nat,
           writable : BOOLEAN, remove : BOOLEAN, page : MaybePage]

\* Regions R and allocated pages P are as they should be.
TableOK(R, P) ==
  /\ R \in [Shms -> Region]
  /\ \A i, j \in Shms : R[i].used /\ R[j].used /\ R[i].name = R[j].name => i = j
  /\ \A i \in Shms : R[i].used /\ R[i].remove => R[i].refcount > 0
  /\ \A i \in Shms : ~ R[i].used => R[i].page = RMEM_NULL /\ R[i].refcount = 0
  /\ \A p : p \in P <=> p # RMEM_NULL /\ \E i \in Shms : R[i].page = p
  /\ \A i, j \in Shms : R[i].page = R[j].page /\ i # j => R[i].page = RMEM_NULL

\* The references to all regions.
Refs(R) == Total([i \in Shms |-> R[i].refcount])

\* Region e may take the place of entry i of table R.
Fits(R, i, e) ==
  /\ e \in Region
  /\ e.used => \A j \in Shms \ {i} : R[j].used => R[j].name # e.name
  /\ e.used /\ e.remove => e.refcount > 0
  /\ ~ e.used => e.page = RMEM_NULL /\ e.refcount = 0

\* The allocated pages go from P to Q when e takes the place of entry i.
PageMoves(R, P, i, e, Q) ==
  \/ e.page = R[i].page /\ Q = P
  \/ e.page = RMEM_NULL /\ Q = P \ {R[i].page}
  \/ R[i].page = RMEM_NULL /\ e.page \in Pages \ P /\ Q = P \cup {e.page}

\* What a call does to the references: they stay, or there is one more or one
\* less.
RefsMove(R, i, e, S) ==
  /\ e.refcount = R[i].refcount => Refs(S) = Refs(R)
  /\ e.refcount = R[i].refcount + 1 => Refs(S) = Refs(R) + 1
  /\ R[i].refcount = e.refcount + 1 => Refs(R) = Refs(S) + 1

\* Every call replaces at most one entry of the table.
LEMMA Replaced ==
  ASSUME NEW R, NEW P, NEW i, NEW e, NEW S, NEW Q, TableOK(R, P), i \in Shms, Fits(R, i, e),
         PageMoves(R, P, i, e, Q), S = [R EXCEPT ![i] = e]
  PROVE  TableOK(S, Q) /\ RefsMove(R, i, e, S)
<1>1. R \in [Shms -> Region] /\ S \in [Shms -> Region] /\ e \in Region
  BY Zenon DEF TableOK, Fits
<1>2. S[i] = e /\ \A j \in Shms \ {i} : S[j] = R[j]
  BY Zenon, <1>1
<1>3. \A j, k \in Shms : S[j].used /\ S[k].used /\ S[j].name = S[k].name => j = k
  <2>. SUFFICES ASSUME NEW j \in Shms, NEW k \in Shms, S[j].used, S[k].used, S[j].name = S[k].name
                PROVE  j = k
    BY Zenon
  <2>1. CASE j = i
    BY Zenon, <1>2, <2>1 DEF Fits
  <2>2. CASE k = i
    BY Zenon, <1>2, <2>2 DEF Fits
  <2>3. CASE j # i /\ k # i
    BY ZenonT(40), <1>2, <2>3 DEF TableOK
  <2>. QED
    BY Zenon, <2>1, <2>2, <2>3
<1>4. \A j \in Shms : S[j].used /\ S[j].remove => S[j].refcount > 0
  BY ZenonT(40), <1>2 DEF Fits, TableOK
<1>5. \A j \in Shms : ~ S[j].used => S[j].page = RMEM_NULL /\ S[j].refcount = 0
  BY Zenon, <1>2 DEF Fits, TableOK
<1>6. RMEM_NULL \notin Pages
  BY Zenon, ShmAssumption
<1>7. \A p : p \in P <=> p # RMEM_NULL /\ \E j \in Shms : R[j].page = p
  BY Zenon DEF TableOK
<1>8. \A j \in Shms \ {i} : R[j].page = R[i].page => R[j].page = RMEM_NULL
  BY Zenon DEF TableOK
<1>9. \A p : p \in Q <=> p # RMEM_NULL /\ \E j \in Shms : S[j].page = p
  <2>. SUFFICES ASSUME NEW p PROVE p \in Q <=> p # RMEM_NULL /\ \E j \in Shms : S[j].page = p
    BY Zenon
  <2>1. CASE e.page = R[i].page /\ Q = P
    BY Zenon, <1>2, <1>7, <2>1
  <2>2. CASE e.page = RMEM_NULL /\ Q = P \ {R[i].page}
    BY ZenonT(40), <1>2, <1>7, <1>8, <2>2
  <2>3. CASE R[i].page = RMEM_NULL /\ e.page \in Pages \ P /\ Q = P \cup {e.page}
    BY ZenonT(40), <1>2, <1>6, <1>7, <2>3
  <2>. QED
    BY Zenon, <2>1, <2>2, <2>3 DEF PageMoves
<1>10. \A j, k \in Shms : S[j].page = S[k].page /\ j # k => S[j].page = RMEM_NULL
  <2>1. ASSUME NEW k \in Shms \ {i}, S[i].page = S[k].page PROVE S[k].page = RMEM_NULL
    <3>1. R[k].page # RMEM_NULL => R[k].page \in P
      BY Zenon, <1>7
    <3>. QED
      BY Zenon, <1>2, <1>8, <2>1, <3>1 DEF PageMoves
  <2>2. \A j, k \in Shms \ {i} : S[j].page = S[k].page /\ j # k => S[j].page = RMEM_NULL
    BY ZenonT(40), <1>2 DEF TableOK
  <2>. QED
    BY Zenon, <2>1, <2>2
<1>11. RefsMove(R, i, e, S)
  <2>1. PICK f \in [Shms -> Nat] : f = [j \in Shms |-> R[j].refcount]
    BY Zenon, <1>1 DEF Region
  <2>2. PICK g \in [Shms -> Nat] : g = [j \in Shms |-> S[j].refcount]
    BY Zenon, <1>1 DEF Region
  <2>3. f[i] = R[i].refcount /\ g[i] = e.refcount /\ \A j \in Shms \ {i} : g[j] = f[j]
    <3>1. f[i] = R[i].refcount /\ g[i] = S[i].refcount
      BY Zenon, <2>1, <2>2
    <3>2. ASSUME NEW j \in Shms \ {i} PROVE g[j] = f[j]
      <4>1. j \in Shms /\ S[j] = R[j]
        BY Zenon, <1>2
      <4>2. f[j] = R[j].refcount
        BY Zenon, <2>1, <4>1
      <4>3. g[j] = S[j].refcount
        BY Zenon, <2>2, <4>1
      <4>. QED
        BY Zenon, <4>1, <4>2, <4>3
    <3>. QED
      BY Zenon, <1>2, <3>1, <3>2
  <2>4. IsFiniteSet(Shms)
    BY FS_Interval, ShmAssumption DEF Shms
  <2>5. Refs(R) = Total(f) /\ Refs(S) = Total(g)
    BY Zenon, <2>1, <2>2 DEF Refs
  <2>6. g[i] = f[i] => g = f
    BY Zenon, <2>1, <2>2, <2>3
  <2>7. g[i] = f[i] + 1 => Total(g) = Total(f) + 1
    BY Zenon, <2>3, <2>4, TotalUp
  <2>8. f[i] = g[i] + 1 => Total(f) = Total(g) + 1
    <3>1. \A j \in Shms \ {i} : f[j] = g[j]
      BY Zenon, <2>3
    <3>. QED
      BY Zenon, <2>4, <3>1, TotalUp
  <2>. QED
    BY Zenon, <2>3, <2>5, <2>6, <2>7, <2>8 DEF RefsMove
<1>. QED
  BY Zenon, <1>1, <1>3, <1>4, <1>5, <1>9, <1>10, <1>11 DEF TableOK

\* The table with regions R and pages P.
Tab(R, P) == [regions |-> R, pages |-> P]

\* Entry r with one reference more, one less, marked for removal, and with
\* another page.
More(r) == [r EXCEPT !.refcount = r.refcount + 1]
Less(r) == [r EXCEPT !.refcount = r.refcount - 1]
Doomed(r) == [r EXCEPT !.remove = TRUE]
Paged(r, p) == [r EXCEPT !.page = p]

\* An entry with one reference more.
LEMMA MoreIs ==
  ASSUME NEW r, r \in Region
  PROVE  /\ More(r) \in Region /\ More(r).refcount = r.refcount + 1 /\ More(r).refcount > 0
         /\ More(r).used = r.used /\ More(r).name = r.name /\ More(r).page = r.page
         /\ More(r).remove = r.remove
BY DEF Region, More

\* An entry with one reference less.
LEMMA LessIs ==
  ASSUME NEW r, r \in Region
  PROVE  /\ r.refcount > 0 => Less(r) \in Region /\ r.refcount = Less(r).refcount + 1
         /\ Less(r).used = r.used /\ Less(r).name = r.name /\ Less(r).page = r.page
         /\ Less(r).remove = r.remove
BY DEF Region, Less

\* An entry that is marked for removal.
LEMMA DoomedIs ==
  ASSUME NEW r, r \in Region
  PROVE  /\ Doomed(r) \in Region /\ Doomed(r).used = r.used /\ Doomed(r).name = r.name
         /\ Doomed(r).page = r.page /\ Doomed(r).refcount = r.refcount /\ Doomed(r).remove
BY Zenon DEF Region, Doomed

\* An entry with another page.
LEMMA PagedIs ==
  ASSUME NEW r, NEW p, r \in Region, p \in MaybePage
  PROVE  /\ Paged(r, p) \in Region /\ Paged(r, p).used = r.used /\ Paged(r, p).name = r.name
         /\ Paged(r, p).page = p /\ Paged(r, p).refcount = r.refcount
         /\ Paged(r, p).remove = r.remove
BY DEF Region, Paged

\* A reference that is got and given back leaves no trace.
LEMMA BackAgain ==
  ASSUME NEW r, r \in Region
  PROVE  Less(More(r)) = r /\ Less(Doomed(More(r))) = Doomed(r)
<1>1. \A m : /\ [[r EXCEPT !.refcount = m] EXCEPT !.refcount = r.refcount] = r
             /\ [[[r EXCEPT !.refcount = m] EXCEPT !.remove = TRUE] EXCEPT !.refcount = r.refcount]
                  = [r EXCEPT !.remove = TRUE]
  BY Zenon DEF Region
<1>2. More(r).refcount - 1 = r.refcount
  BY DEF Region, More
<1>3. Doomed(More(r)).refcount = More(r).refcount
  BY Zenon, MoreIs, DoomedIs
<1>. QED
  BY Zenon, <1>1, <1>2, <1>3 DEF More, Less, Doomed

\* An entry without a region.
LEMMA EmptyRegion ==
  NoRegion \in Region /\ ~ NoRegion.used /\ NoRegion.page = RMEM_NULL /\ NoRegion.refcount = 0
BY DEF NoRegion, Region, MaybePage

\* shm_get()
LEMMA GetIs ==
  ASSUME NEW R, NEW P, NEW i, R \in [Shms -> Region], i \in Shms
  PROVE  shm_get(Tab(R, P), i) = Tab([R EXCEPT ![i] = More(R[i])], P)
BY DEF shm_get, Tab, More

\* shm_put()
LEMMA PutIs ==
  ASSUME NEW R, NEW P, NEW i, R \in [Shms -> Region], i \in Shms
  PROVE  shm_put(Tab(R, P), i) =
           IF R[i].refcount = 1 /\ R[i].remove
           THEN Tab([R EXCEPT ![i] = NoRegion], P \ {R[i].page})
           ELSE Tab([R EXCEPT ![i] = Less(R[i])], P)
BY DEF shm_put, Tab, Less

\* The mark of do_shm_unlink().
LEMMA MarkIs ==
  ASSUME NEW R, NEW P, NEW i, R \in [Shms -> Region], i \in Shms
  PROVE  Marked(Tab(R, P), i) = Tab([R EXCEPT ![i] = Doomed(R[i])], P)
<1>1. \A v : [Tab(R, P) EXCEPT !.regions[i].remove = v]
             = Tab([R EXCEPT ![i] = [R[i] EXCEPT !.remove = v]], P)
  BY DEF Tab
<1>. QED
  BY Zenon, <1>1 DEF Marked, Doomed

\* shm_set_size() to zero.
LEMMA EmptyIs ==
  ASSUME NEW R, NEW P, NEW i, R \in [Shms -> Region], i \in Shms
  PROVE  Emptied(Tab(R, P), i) = Tab([R EXCEPT ![i] = Paged(R[i], RMEM_NULL)], P \ {R[i].page})
BY DEF Emptied, Tab, Paged

-----------------------------------------------------------------------------
(***************************************************************************)
(* Each operation keeps the table as it should be.                         *)
(***************************************************************************)

\* From R and P to S and Q, with as many references, one more or one less.
Keeps(R, S, Q) == TableOK(S, Q) /\ Refs(S) = Refs(R)
Gains(R, S, Q) == TableOK(S, Q) /\ Refs(S) = Refs(R) + 1
Loses(R, S, Q) == TableOK(S, Q) /\ Refs(R) = Refs(S) + 1

\* An entry of a region that keeps its name.
LEMMA SameName ==
  ASSUME NEW R, NEW P, NEW i, NEW e, TableOK(R, P), i \in Shms, R[i].used, e \in Region,
         e.used = R[i].used, e.name = R[i].name, e.remove => e.refcount > 0
  PROVE  Fits(R, i, e)
BY Zenon DEF TableOK, Fits

\* shm_get(), with and without truncation.
LEMMA GetKeeps ==
  ASSUME NEW R, NEW P, NEW i, TableOK(R, P), i \in Shms, R[i].used
  PROVE  /\ Gains(R, [R EXCEPT ![i] = More(R[i])], P)
         /\ Gains(R, [R EXCEPT ![i] = Paged(More(R[i]), RMEM_NULL)], P \ {R[i].page})
<1>1. R[i] \in Region /\ RMEM_NULL \in MaybePage
  BY Zenon DEF TableOK, MaybePage
<1>2. PICK e : e = More(R[i])
  BY Zenon
<1>3. /\ e \in Region /\ e.refcount = R[i].refcount + 1 /\ e.refcount > 0
      /\ e.used = R[i].used /\ e.name = R[i].name /\ e.page = R[i].page
  BY Zenon, <1>1, <1>2, MoreIs
<1>4. PICK d : d = Paged(e, RMEM_NULL)
  BY Zenon
<1>5. /\ d \in Region /\ d.refcount = e.refcount /\ d.used = e.used /\ d.name = e.name
      /\ d.page = RMEM_NULL
  BY Zenon, <1>1, <1>3, <1>4, PagedIs
<1>6. Gains(R, [R EXCEPT ![i] = e], P)
  <2>1. Fits(R, i, e) /\ PageMoves(R, P, i, e, P)
    BY Zenon, <1>3, SameName DEF PageMoves
  <2>2. TableOK([R EXCEPT ![i] = e], P) /\ RefsMove(R, i, e, [R EXCEPT ![i] = e])
    BY Zenon, <2>1, Replaced
  <2>. QED
    BY Zenon, <1>3, <2>2 DEF Gains, RefsMove
<1>7. Gains(R, [R EXCEPT ![i] = d], P \ {R[i].page})
  <2>1. Fits(R, i, d) /\ PageMoves(R, P, i, d, P \ {R[i].page})
    BY Zenon, <1>3, <1>5, SameName DEF PageMoves
  <2>2. TableOK([R EXCEPT ![i] = d], P \ {R[i].page}) /\ RefsMove(R, i, d, [R EXCEPT ![i] = d])
    BY Zenon, <2>1, Replaced
  <2>. QED
    BY Zenon, <1>3, <1>5, <2>2 DEF Gains, RefsMove
<1>. QED
  BY Zenon, <1>2, <1>4, <1>6, <1>7

\* shm_put() takes one reference, and removes a region with the last one if
\* the region is marked.
LEMMA PutKeeps ==
  ASSUME NEW R, NEW P, NEW i, TableOK(R, P), i \in Shms, R[i].used, R[i].refcount # 0
  PROVE  \E S, Q : shm_put(Tab(R, P), i) = Tab(S, Q) /\ Loses(R, S, Q)
<1>1. R[i] \in Region /\ R \in [Shms -> Region]
  BY Zenon DEF TableOK
<1>2. R[i].refcount \in Nat /\ R[i].refcount > 0
  BY <1>1 DEF Region
<1>3. CASE R[i].refcount = 1 /\ R[i].remove
  <2>1. shm_put(Tab(R, P), i) = Tab([R EXCEPT ![i] = NoRegion], P \ {R[i].page})
    BY Zenon, <1>1, <1>3, PutIs
  <2>2. R[i].refcount = NoRegion.refcount + 1
    BY <1>3, EmptyRegion
  <2>3. Fits(R, i, NoRegion) /\ PageMoves(R, P, i, NoRegion, P \ {R[i].page})
    BY Zenon, EmptyRegion DEF Fits, PageMoves
  <2>4. /\ TableOK([R EXCEPT ![i] = NoRegion], P \ {R[i].page})
        /\ RefsMove(R, i, NoRegion, [R EXCEPT ![i] = NoRegion])
    BY Zenon, <2>3, Replaced
  <2>. QED
    BY Zenon, <2>1, <2>2, <2>4 DEF Loses, RefsMove
<1>4. CASE ~(R[i].refcount = 1 /\ R[i].remove)
  <2>1. PICK e : e = Less(R[i])
    BY Zenon
  <2>2. shm_put(Tab(R, P), i) = Tab([R EXCEPT ![i] = e], P)
    BY Zenon, <1>1, <1>4, <2>1, PutIs
  <2>3. /\ e \in Region /\ R[i].refcount = e.refcount + 1
        /\ e.used = R[i].used /\ e.name = R[i].name /\ e.page = R[i].page /\ e.remove = R[i].remove
    BY Zenon, <1>1, <1>2, <2>1, LessIs
  <2>4. e.remove => e.refcount > 0
    <3>1. e.refcount \in Nat /\ (e.remove => R[i].refcount # 1)
      BY Zenon, <1>4, <2>3 DEF Region
    <3>. HIDE <1>4
    <3>2. R[i].refcount # 1 => e.refcount > 0
      BY <2>3, <3>1
    <3>. QED
      BY Zenon, <3>1, <3>2
  <2>5. Fits(R, i, e) /\ PageMoves(R, P, i, e, P)
    BY Zenon, <2>3, <2>4, SameName DEF PageMoves
  <2>6. TableOK([R EXCEPT ![i] = e], P) /\ RefsMove(R, i, e, [R EXCEPT ![i] = e])
    BY Zenon, <2>5, Replaced
  <2>. QED
    BY Zenon, <2>2, <2>3, <2>6 DEF Loses, RefsMove
<1>. QED
  BY Zenon, <1>3, <1>4

\* A search that gives its reference back leaves the table alone: a region
\* without references is not marked for removal.
LEMMA SearchKeeps ==
  ASSUME NEW R, NEW P, NEW i, TableOK(R, P), i \in Shms, R[i].used
  PROVE  shm_put(shm_get(Tab(R, P), i), i) = Tab(R, P)
<1>1. R[i] \in Region /\ R \in [Shms -> Region]
  BY Zenon DEF TableOK
<1>2. PICK S : S = [R EXCEPT ![i] = More(R[i])]
  BY Zenon
<1>3. S \in [Shms -> Region] /\ S[i] = More(R[i])
  BY Zenon, <1>1, <1>2, MoreIs
<1>4. ~(S[i].refcount = 1 /\ S[i].remove)
  <2>1. S[i].refcount = R[i].refcount + 1 /\ S[i].remove = R[i].remove
    BY Zenon, <1>1, <1>3, MoreIs
  <2>2. R[i].remove => R[i].refcount > 0
    BY Zenon DEF TableOK
  <2>3. R[i].refcount \in Nat
    BY Zenon, <1>1 DEF Region
  <2>4. R[i].refcount > 0 => R[i].refcount + 1 # 1
    BY <2>3
  <2>. QED
    BY Zenon, <2>1, <2>2, <2>4
<1>5. shm_put(Tab(S, P), i) = Tab([S EXCEPT ![i] = Less(S[i])], P)
  BY Zenon, <1>3, <1>4, PutIs
<1>6. [S EXCEPT ![i] = R[i]] = R
  BY Zenon, <1>1, <1>2
<1>7. Less(S[i]) = R[i]
  BY Zenon, <1>1, <1>3, BackAgain
<1>8. shm_get(Tab(R, P), i) = Tab(S, P)
  BY Zenon, <1>1, <1>2, GetIs
<1>. QED
  BY Zenon, <1>5, <1>6, <1>7, <1>8

\* do_shm_unlink(): a region that nobody has open goes at once.
LEMMA UnlinkKeeps ==
  ASSUME NEW R, NEW P, NEW i, TableOK(R, P), i \in Shms, R[i].used
  PROVE  \E S, Q : shm_put(Marked(shm_get(Tab(R, P), i), i), i) = Tab(S, Q) /\ Keeps(R, S, Q)
<1>1. R[i] \in Region /\ R \in [Shms -> Region]
  BY Zenon DEF TableOK
<1>2. PICK e : e = More(R[i])
  BY Zenon
<1>3. e \in Region /\ e.refcount = R[i].refcount + 1 /\ e.page = R[i].page
  BY Zenon, <1>1, <1>2, MoreIs
<1>4. PICK d : d = Doomed(e)
  BY Zenon
<1>5. d \in Region /\ d.refcount = R[i].refcount + 1 /\ d.page = R[i].page /\ d.remove
  BY Zenon, <1>3, <1>4, DoomedIs
<1>6. PICK S : S = [R EXCEPT ![i] = d]
  BY Zenon
<1>7. S \in [Shms -> Region] /\ S[i] = d
  BY Zenon, <1>1, <1>5, <1>6
<1>8. Marked(shm_get(Tab(R, P), i), i) = Tab(S, P)
  <2>1. PICK T : T = [R EXCEPT ![i] = e]
    BY Zenon
  <2>2. T \in [Shms -> Region] /\ T[i] = e
    BY Zenon, <1>1, <1>3, <2>1
  <2>3. shm_get(Tab(R, P), i) = Tab(T, P)
    BY Zenon, <1>1, <1>2, <2>1, GetIs
  <2>4. Marked(Tab(T, P), i) = Tab([T EXCEPT ![i] = d], P)
    BY Zenon, <1>4, <2>2, MarkIs
  <2>5. [T EXCEPT ![i] = d] = S
    BY Zenon, <1>1, <1>6, <2>1
  <2>. QED
    BY Zenon, <2>3, <2>4, <2>5
<1>9. CASE R[i].refcount = 0
  <2>1. S[i].refcount = 1 /\ S[i].remove
    BY <1>5, <1>7, <1>9
  <2>2. shm_put(Tab(S, P), i) = Tab([S EXCEPT ![i] = NoRegion], P \ {R[i].page})
    BY Zenon, <1>5, <1>7, <2>1, PutIs
  <2>3. [S EXCEPT ![i] = NoRegion] = [R EXCEPT ![i] = NoRegion]
    BY Zenon, <1>1, <1>6
  <2>4. Fits(R, i, NoRegion) /\ PageMoves(R, P, i, NoRegion, P \ {R[i].page})
    BY Zenon, EmptyRegion DEF Fits, PageMoves
  <2>5. /\ TableOK([R EXCEPT ![i] = NoRegion], P \ {R[i].page})
        /\ RefsMove(R, i, NoRegion, [R EXCEPT ![i] = NoRegion])
    BY Zenon, <2>4, Replaced
  <2>. QED
    BY Zenon, <1>8, <1>9, <2>2, <2>3, <2>5, EmptyRegion DEF Keeps, RefsMove
<1>10. CASE R[i].refcount # 0
  <2>1. R[i].refcount > 0 /\ S[i].refcount # 1
    BY <1>1, <1>5, <1>7, <1>10 DEF Region
  <2>2. PICK r : r = Doomed(R[i])
    BY Zenon
  <2>3. Less(S[i]) = r
    BY Zenon, <1>1, <1>2, <1>4, <1>7, <2>2, BackAgain
  <2>4. shm_put(Tab(S, P), i) = Tab([S EXCEPT ![i] = r], P)
    BY Zenon, <1>7, <2>1, <2>3, PutIs
  <2>5. [S EXCEPT ![i] = r] = [R EXCEPT ![i] = r]
    BY Zenon, <1>1, <1>6
  <2>6. /\ r \in Region /\ r.used = R[i].used /\ r.name = R[i].name
        /\ r.page = R[i].page /\ r.refcount = R[i].refcount
    BY Zenon, <1>1, <2>2, DoomedIs
  <2>7. Fits(R, i, r) /\ PageMoves(R, P, i, r, P)
    BY Zenon, <2>1, <2>6, SameName DEF PageMoves
  <2>8. TableOK([R EXCEPT ![i] = r], P) /\ RefsMove(R, i, r, [R EXCEPT ![i] = r])
    BY Zenon, <2>7, Replaced
  <2>. QED
    BY Zenon, <1>8, <2>4, <2>5, <2>6, <2>8 DEF Keeps, RefsMove
<1>. QED
  BY Zenon, <1>9, <1>10

\* shm_set_size(): a truncation, and a page for a region that had none.
LEMMA SizeKeeps ==
  ASSUME NEW R, NEW P, NEW i, TableOK(R, P), i \in Shms, R[i].used
  PROVE  /\ Keeps(R, [R EXCEPT ![i] = Paged(R[i], RMEM_NULL)], P \ {R[i].page})
         /\ \A p \in Pages \ P : R[i].page = RMEM_NULL =>
              Keeps(R, [R EXCEPT ![i] = Paged(R[i], p)], P \cup {p})
<1>1. R[i] \in Region /\ (R[i].remove => R[i].refcount > 0)
  BY Zenon DEF TableOK
<1>2. ASSUME NEW p \in MaybePage, NEW Q, NEW e, e = Paged(R[i], p),
             PageMoves(R, P, i, e, Q)
      PROVE  Keeps(R, [R EXCEPT ![i] = e], Q)
  <2>1. /\ e \in Region /\ e.used = R[i].used /\ e.name = R[i].name
        /\ e.refcount = R[i].refcount /\ e.remove = R[i].remove
    BY Zenon, <1>1, <1>2, PagedIs
  <2>2. e.remove => e.refcount > 0
    BY Zenon, <1>1, <2>1
  <2>3. Fits(R, i, e)
    BY Zenon, <2>1, <2>2, SameName
  <2>4. TableOK([R EXCEPT ![i] = e], Q) /\ RefsMove(R, i, e, [R EXCEPT ![i] = e])
    BY Zenon, <1>2, <2>3, Replaced
  <2>. QED
    BY Zenon, <2>1, <2>4 DEF Keeps, RefsMove
<1>3. RMEM_NULL \in MaybePage /\ Pages \subseteq MaybePage
  BY Zenon DEF MaybePage
<1>4. \A p \in MaybePage : Paged(R[i], p).page = p
  BY Zenon, <1>1, PagedIs
<1>5. Keeps(R, [R EXCEPT ![i] = Paged(R[i], RMEM_NULL)], P \ {R[i].page})
  BY Zenon, <1>2, <1>3, <1>4 DEF PageMoves
<1>6. ASSUME NEW p \in Pages \ P, R[i].page = RMEM_NULL
      PROVE  Keeps(R, [R EXCEPT ![i] = Paged(R[i], p)], P \cup {p})
  <2>1. PICK e : e = Paged(R[i], p)
    BY Zenon
  <2>2. PageMoves(R, P, i, e, P \cup {p})
    BY Zenon, <1>3, <1>4, <1>6, <2>1 DEF PageMoves
  <2>. QED
    BY Zenon, <1>2, <1>3, <2>1, <2>2
<1>. QED
  BY Zenon, <1>5, <1>6

\* do_shm_create(): a new region, in an entry that is free.
LEMMA CreateKeeps ==
  ASSUME NEW R, NEW P, NEW i, NEW e, TableOK(R, P), i \in Shms, ~ R[i].used, e \in Region,
         e.used, e.refcount = 1, ~ e.remove, e.page = RMEM_NULL,
         \A j \in Shms : R[j].used => R[j].name # e.name
  PROVE  Gains(R, [R EXCEPT ![i] = e], P)
<1>1. R[i].page = RMEM_NULL /\ R[i].refcount = 0
  BY Zenon DEF TableOK
<1>2. e.refcount = R[i].refcount + 1
  BY <1>1
<1>3. Fits(R, i, e) /\ PageMoves(R, P, i, e, P)
  BY Zenon, <1>1 DEF Fits, PageMoves
<1>4. TableOK([R EXCEPT ![i] = e], P) /\ RefsMove(R, i, e, [R EXCEPT ![i] = e])
  BY Zenon, <1>3, Replaced
<1>. QED
  BY Zenon, <1>2, <1>4 DEF Gains, RefsMove

-----------------------------------------------------------------------------
(***************************************************************************)
(* The handlers.                                                           *)
(***************************************************************************)

Response == [ipcid : Shms, page : MaybePage]
Conns(t) == Total([k \in Connections |-> t[k].count])

\* The server between two calls.
ServerOK ==
  /\ TableOK(regions, pages)
  /\ ConnTable(Connections, Clients, connections)
  /\ response \in Response
  /\ Refs(regions) = Conns(connections)

\* A handler ends as it should, or with a failed assertion.
Sound(x) ==
  /\ TableOK(x.table.regions, x.table.pages)
  /\ ConnTable(Connections, Clients, x.conns)
  /\ x.resp \in Response
  /\ x.ok => Refs(x.table.regions) = Conns(x.conns)

\* The table is the one of the variables.
LEMMA TableIs == Table = Tab(regions, pages)
BY Zenon DEF Tab, Table

\* The field that tells whether an assertion failed.
LEMMA OkField ==
  ASSUME NEW t, NEW n, NEW r, NEW o, NEW k, k \in BOOLEAN
  PROVE  Outcome(t, n, r, o, k).ok = k
BY Zenon DEF Outcome

\* A call that changes no reference.
LEMMA DoneSound ==
  ASSUME ServerOK, NEW S, NEW Q, NEW r, Keeps(regions, S, Q), r \in Response
  PROVE  Sound(Done(Tab(S, Q), r))
<1>1. PICK x : x = Done(Tab(S, Q), r)
  BY Zenon
<1>2. x.table.regions = S /\ x.table.pages = Q /\ x.conns = connections /\ x.resp = r
  BY Zenon, <1>1 DEF Done, Outcome, Tab
<1>. QED
  BY Zenon, <1>1, <1>2 DEF Sound, ServerOK, Keeps

\* A call that fails.
LEMMA RefusedSound ==
  ASSUME ServerOK
  PROVE  Sound(Refused(Table)) /\ Sound([Refused(Table) EXCEPT !.ok = FALSE])
<1>1. PICK x : x = Refused(Table)
  BY Zenon
<1>2. x.table.regions = regions /\ x.table.pages = pages /\ x.conns = connections /\ x.resp = response
  BY Zenon, <1>1 DEF Refused, Outcome, Table
<1>3. PICK y : y = [Refused(Table) EXCEPT !.ok = FALSE]
  BY Zenon
<1>4. y.table.regions = regions /\ y.table.pages = pages /\ y.conns = connections /\ y.resp = response
  BY Zenon, <1>3 DEF Refused, Outcome, Table
<1>. QED
  BY Zenon, <1>1, <1>2, <1>3, <1>4 DEF Sound, ServerOK

\* A call that gets a region: its reference has a connection, or the server
\* fails the assertion that it can connect the client.
LEMMA ServedSound ==
  ASSUME ServerOK, NEW c \in Clients, NEW S, NEW Q, NEW i, Gains(regions, S, Q), i \in Shms
  PROVE  Sound(Served(c, Tab(S, Q), i))
<1>1. PICK x : x = Served(c, Tab(S, Q), i)
  BY Zenon
<1>2. /\ x.table.regions = S /\ x.table.pages = Q /\ x.conns = connect(connections, c)
      /\ x.resp = [ipcid |-> i, page |-> S[i].page]
  BY Zenon, <1>1 DEF Served, Outcome, Tab
<1>3. x.ok = (connect_ret(connections, c) = 0)
  BY Zenon, <1>1, OkField DEF Served
<1>4. ConnTable(Connections, Clients, x.conns)
  BY ZenonT(40), <1>2, Connected DEF ServerOK
<1>5. x.ok => Conns(x.conns) = Conns(connections) + 1
  <2>1. x.ok => OneMore(Connections, connections, x.conns, c)
    BY Zenon, <1>2, <1>3, Connected DEF ServerOK
  <2>. QED
    BY Zenon, <2>1 DEF OneMore, Conns
<1>6. [ipcid |-> i, page |-> S[i].page] \in Response
  BY Zenon DEF Gains, TableOK, Region, Response
<1>. QED
  BY Zenon, <1>1, <1>2, <1>4, <1>5, <1>6 DEF Sound, ServerOK, Gains

\* A close: the reference goes with a connection of the client, or the server
\* fails the assertion that the client has one.
LEMMA GivenUpSound ==
  ASSUME ServerOK, NEW c \in Clients, NEW S, NEW Q, Loses(regions, S, Q)
  PROVE  Sound(GivenUp(c, Tab(S, Q)))
<1>1. PICK x : x = GivenUp(c, Tab(S, Q))
  BY Zenon
<1>2. /\ x.table.regions = S /\ x.table.pages = Q /\ x.conns = disconnect(connections, c)
      /\ x.resp = response
  BY Zenon, <1>1 DEF GivenUp, Outcome, Tab
<1>3. x.ok = (lookup(connections, c) # {})
  BY Zenon, <1>1, OkField DEF GivenUp
<1>4. ConnTable(Connections, Clients, x.conns)
  BY Zenon, <1>2, Disconnected DEF ServerOK
<1>5. x.ok => Conns(connections) = Conns(x.conns) + 1
  <2>. SUFFICES ASSUME lookup(connections, c) # {} PROVE Conns(connections) = Conns(x.conns) + 1
    BY Zenon, <1>3
  <2>1. PICK i : EntryOf(Connections, connections, c, i)
    BY Zenon, Looked DEF ServerOK
  <2>2. ConnectionsOf(connections, c) # 0
    <3>1. ConnectionsOf(connections, c) > 0
      BY Zenon, <2>1 DEF EntryOf
    <3>. QED
      BY <3>1
  <2>3. OneMore(Connections, x.conns, connections, c)
    BY Zenon, <1>2, <2>2, Disconnected DEF ServerOK
  <2>. QED
    BY Zenon, <2>3 DEF OneMore, Conns
<1>6. x.ok => Refs(S) = Conns(x.conns)
  <2>1. Refs(regions) = Refs(S) + 1 /\ Refs(regions) = Conns(connections)
    BY Zenon DEF Loses, ServerOK
  <2>2. Refs(S) \in Nat /\ Conns(x.conns) \in Nat
    <3>1. PICK f \in [Shms -> Nat] : f = [i \in Shms |-> S[i].refcount]
      BY Zenon DEF Loses, TableOK, Region
    <3>2. PICK g \in [Connections -> Nat] : g = [k \in Connections |-> x.conns[k].count]
      BY Zenon, <1>4 DEF ConnTable
    <3>3. IsFiniteSet(Shms) /\ IsFiniteSet(Connections)
      BY FS_Interval, ShmAssumption, ConnectionAssumption DEF Shms, Connections
    <3>4. Total(f) \in Nat
      BY Zenon, <3>3, TotalType
    <3>5. Total(g) \in Nat
      BY Zenon, <3>3, TotalType
    <3>. QED
      BY Zenon, <3>1, <3>2, <3>4, <3>5 DEF Refs, Conns
  <2>3. Conns(connections) = Conns(x.conns) + 1 => Refs(S) = Conns(x.conns)
    BY <2>1, <2>2
  <2>. QED
    BY Zenon, <1>5, <2>3
<1>. QED
  BY Zenon, <1>1, <1>2, <1>4, <1>6 DEF Sound, ServerOK, Loses

\* shm_get() finds a region by its name.
LEMMA Found ==
  ASSUME NEW name, Find(name) # {}
  PROVE  First(Find(name)) \in Shms /\ regions[First(Find(name))].used
<1>1. Find(name) \in SUBSET Nat
  BY DEF Find, Shms
<1>2. First(Find(name)) \in Find(name)
  BY Zenon, <1>1, FirstIsLeast
<1>. QED
  BY Zenon, <1>2 DEF Find

\* A call that gets region i and gives it back.
LEMMA GiveBackSound ==
  ASSUME ServerOK, NEW i \in Shms, regions[i].used
  PROVE  Sound(GiveBack(i))
<1>1. shm_put(shm_get(Table, i), i) = Table
  BY Zenon, TableIs, SearchKeeps DEF ServerOK
<1>. QED
  BY Zenon, <1>1, RefusedSound DEF GiveBack

\* An open of region i.
LEMMA AttachSound ==
  ASSUME ServerOK, NEW c \in Clients, NEW i \in Shms, regions[i].used, NEW flags
  PROVE  Sound(Attach(c, i, flags))
<1>1. PICK S : S = [regions EXCEPT ![i] = More(regions[i])]
  BY Zenon
<1>2. regions \in [Shms -> Region] /\ regions[i] \in Region
  BY Zenon DEF ServerOK, TableOK
<1>3. S \in [Shms -> Region] /\ S[i] = More(regions[i]) /\ S[i].page = regions[i].page
  BY Zenon, <1>1, <1>2, MoreIs
<1>4. PICK t : t = shm_get(Table, i)
  BY Zenon
<1>5. t = Tab(S, pages)
  BY Zenon, <1>1, <1>2, <1>4, TableIs, GetIs
<1>6. Sound(Served(c, t, i))
  <2>1. Gains(regions, S, pages)
    BY Zenon, <1>1, GetKeeps DEF ServerOK
  <2>. QED
    BY Zenon, <1>5, <2>1, ServedSound
<1>7. Sound(Served(c, Emptied(t, i), i))
  <2>1. PICK T : T = [regions EXCEPT ![i] = Paged(More(regions[i]), RMEM_NULL)]
    BY Zenon
  <2>2. [S EXCEPT ![i] = Paged(S[i], RMEM_NULL)] = T
    BY Zenon, <1>1, <1>2, <1>3, <2>1
  <2>3. Emptied(t, i) = Tab([S EXCEPT ![i] = Paged(S[i], RMEM_NULL)], pages \ {S[i].page})
    BY ZenonT(40), <1>3, <1>5, EmptyIs
  <2>4. Gains(regions, T, pages \ {regions[i].page})
    BY Zenon, <2>1, GetKeeps DEF ServerOK
  <2>5. Emptied(t, i) = Tab(T, pages \ {regions[i].page})
    BY Zenon, <1>3, <2>2, <2>3
  <2>. QED
    BY Zenon, <2>4, <2>5, ServedSound
<1>8. Sound(GiveBack(i))
  BY Zenon, GiveBackSound
<1>9. Attach(c, i, flags) \in {Served(c, t, i), Served(c, Emptied(t, i), i), GiveBack(i)}
  BY Zenon, <1>4 DEF Attach
<1>. QED
  BY Zenon, <1>6, <1>7, <1>8, <1>9

\* do_shm_open()
LEMMA OpenSound ==
  ASSUME ServerOK, NEW c \in Clients, NEW name, NEW flags
  PROVE  Sound(do_shm_open(c, name, flags))
<1>1. PICK i : i = First(Find(name))
  BY Zenon
<1>2. \/ do_shm_open(c, name, flags) = Refused(Table)
      \/ Find(name) # {} /\ do_shm_open(c, name, flags) = GiveBack(i)
      \/ Find(name) # {} /\ do_shm_open(c, name, flags) = Attach(c, i, flags)
  BY Zenon, <1>1 DEF do_shm_open
<1>. QED
  BY Zenon, <1>1, <1>2, Found, RefusedSound, GiveBackSound, AttachSound

\* do_shm_create()
LEMMA CreateSound ==
  ASSUME ServerOK, NEW c \in Clients, NEW name \in Names, NEW flags, NEW w \in BOOLEAN, NEW new \in Shms
  PROVE  Sound(do_shm_create(c, name, flags, w, new))
<1>1. PICK i : i = First(Find(name))
  BY Zenon
<1>2. PICK e : e = [used |-> TRUE, name |-> name, owner |-> c[1], refcount |-> 1,
                    writable |-> w, remove |-> FALSE, page |-> RMEM_NULL]
  BY Zenon
<1>3. [Table EXCEPT !.regions[new] = e] = Tab([regions EXCEPT ![new] = e], pages)
  BY DEF Table, Tab
<1>4. \/ do_shm_create(c, name, flags, w, new) = Refused(Table)
      \/ Find(name) # {} /\ do_shm_create(c, name, flags, w, new) = GiveBack(i)
      \/ Find(name) # {} /\ do_shm_create(c, name, flags, w, new) = Attach(c, i, flags)
      \/ /\ Find(name) = {} /\ ~ regions[new].used
         /\ do_shm_create(c, name, flags, w, new) = Served(c, [Table EXCEPT !.regions[new] = e], new)
  BY Zenon, <1>1, <1>2 DEF do_shm_create
<1>5. ASSUME Find(name) = {}, ~ regions[new].used
      PROVE  Sound(Served(c, [Table EXCEPT !.regions[new] = e], new))
  <2>1. c[1] \in Nat
    BY ShmAssumption
  <2>2. e \in Region
    <3>1. 1 \in Nat /\ name \in Names \cup {NoName} /\ RMEM_NULL \in MaybePage
      BY Zenon DEF MaybePage
    <3>. QED
      BY Zenon, <1>2, <2>1, <3>1 DEF Region
  <2>3. e.used /\ e.refcount = 1 /\ ~ e.remove /\ e.page = RMEM_NULL /\ e.name = name
    BY Zenon, <1>2
  <2>4. \A j \in Shms : regions[j].used => regions[j].name # e.name
    BY Zenon, <1>5, <2>3 DEF Find
  <2>5. Gains(regions, [regions EXCEPT ![new] = e], pages)
    BY Zenon, <1>5, <2>2, <2>3, <2>4, CreateKeeps DEF ServerOK
  <2>. QED
    BY Zenon, <1>3, <2>5, ServedSound
<1>. QED
  BY Zenon, <1>1, <1>4, <1>5, Found, RefusedSound, GiveBackSound, AttachSound

\* do_shm_close()
LEMMA CloseSound ==
  ASSUME ServerOK, NEW c \in Clients, NEW i \in Shms
  PROVE  Sound(do_shm_close(c, i))
<1>1. ASSUME regions[i].used, regions[i].refcount # 0 PROVE Sound(GivenUp(c, shm_put(Table, i)))
  <2>1. PICK S, Q : shm_put(Table, i) = Tab(S, Q) /\ Loses(regions, S, Q)
    BY Zenon, <1>1, TableIs, PutKeeps DEF ServerOK
  <2>. QED
    BY Zenon, <2>1, GivenUpSound
<1>. QED
  BY Zenon, <1>1, RefusedSound DEF do_shm_close

\* do_shm_unlink()
LEMMA UnlinkSound ==
  ASSUME ServerOK, NEW c \in Clients, NEW name
  PROVE  Sound(do_shm_unlink(c, name))
<1>1. PICK i : i = First(Find(name))
  BY Zenon
<1>2. \/ do_shm_unlink(c, name) = Refused(Table)
      \/ Find(name) # {} /\ do_shm_unlink(c, name) = GiveBack(i)
      \/ /\ Find(name) # {}
         /\ do_shm_unlink(c, name) = Done(shm_put(Marked(shm_get(Table, i), i), i), response)
  BY Zenon, <1>1 DEF do_shm_unlink
<1>3. ASSUME Find(name) # {}
      PROVE  Sound(Done(shm_put(Marked(shm_get(Table, i), i), i), response))
  <2>1. i \in Shms /\ regions[i].used
    BY Zenon, <1>1, <1>3, Found
  <2>2. PICK S, Q : /\ shm_put(Marked(shm_get(Table, i), i), i) = Tab(S, Q)
                    /\ Keeps(regions, S, Q)
    BY Zenon, <2>1, TableIs, UnlinkKeeps DEF ServerOK
  <2>. QED
    BY Zenon, <2>2, DoneSound DEF ServerOK
<1>. QED
  BY Zenon, <1>1, <1>2, <1>3, Found, RefusedSound, GiveBackSound

\* do_shm_ftruncate()
LEMMA TruncateSound ==
  ASSUME ServerOK, NEW i \in Shms, NEW size \in Nat, NEW p \in NewPages
  PROVE  Sound(do_shm_ftruncate(i, size, p))
<1>1. ASSUME NEW S, NEW Q, Keeps(regions, S, Q) PROVE Sound(Truncated(Tab(S, Q), i))
  <2>1. PICK r : r = [response EXCEPT !.page = S[i].page]
    BY Zenon
  <2>2. S[i].page \in MaybePage
    BY Zenon, <1>1 DEF Keeps, TableOK, Region
  <2>3. r \in Response
    BY <2>1, <2>2 DEF ServerOK, Response
  <2>4. Truncated(Tab(S, Q), i) = Done(Tab(S, Q), r)
    BY Zenon, <2>1 DEF Truncated, Tab
  <2>. QED
    BY Zenon, <1>1, <2>3, <2>4, DoneSound
<1>2. \/ do_shm_ftruncate(i, size, p) = Refused(Table)
      \/ regions[i].used /\ do_shm_ftruncate(i, size, p) = Truncated(Emptied(Table, i), i)
      \/ do_shm_ftruncate(i, size, p) = Truncated(Table, i)
      \/ do_shm_ftruncate(i, size, p) = [Refused(Table) EXCEPT !.ok = FALSE]
      \/ /\ regions[i].used /\ regions[i].page = RMEM_NULL /\ p # RMEM_NULL
         /\ do_shm_ftruncate(i, size, p) = Truncated(Sized(Table, i, p), i)
  <2>1. size = 0 \/ size > 0
    OBVIOUS
  <2>2. CASE ~ (regions[i].used /\ regions[i].writable)
    BY Zenon, <2>2 DEF do_shm_ftruncate
  <2>3. CASE regions[i].used /\ regions[i].writable /\ size = 0
    <3>1. ~(size > 0)
      BY <2>3
    <3>. QED
      BY Zenon, <2>3, <3>1 DEF do_shm_ftruncate
  <2>4. CASE regions[i].used /\ regions[i].writable /\ size > 0
    <3>1. size # 0
      BY <2>4
    <3>. QED
      BY Zenon, <2>4, <3>1 DEF do_shm_ftruncate
  <2>. QED
    BY Zenon, <2>1, <2>2, <2>3, <2>4
<1>3. regions \in [Shms -> Region]
  BY Zenon DEF ServerOK, TableOK
<1>4. ASSUME regions[i].used PROVE Sound(Truncated(Emptied(Table, i), i))
  <2>1. Keeps(regions, [regions EXCEPT ![i] = Paged(regions[i], RMEM_NULL)], pages \ {regions[i].page})
    BY Zenon, <1>4, SizeKeeps DEF ServerOK
  <2>2. Emptied(Tab(regions, pages), i)
          = Tab([regions EXCEPT ![i] = Paged(regions[i], RMEM_NULL)], pages \ {regions[i].page})
    BY Zenon, <1>3, EmptyIs
  <2>. QED
    BY Zenon, <1>1, <2>1, <2>2, TableIs
<1>5. Sound(Truncated(Table, i))
  <2>1. Keeps(regions, regions, pages)
    BY Zenon DEF Keeps, ServerOK
  <2>. QED
    BY Zenon, <1>1, <2>1, TableIs
<1>6. ASSUME regions[i].used, regions[i].page = RMEM_NULL, p # RMEM_NULL
      PROVE  Sound(Truncated(Sized(Table, i, p), i))
  <2>1. p \in Pages \ pages
    BY Zenon, <1>6 DEF NewPages
  <2>2. Keeps(regions, [regions EXCEPT ![i] = Paged(regions[i], p)], pages \cup {p})
    BY Zenon, <1>6, <2>1, SizeKeeps DEF ServerOK
  <2>3. Sized(Tab(regions, pages), i, p)
          = Tab([regions EXCEPT ![i] = Paged(regions[i], p)], pages \cup {p})
    BY SMT, <1>3 DEF Sized, Tab, Paged
  <2>. QED
    BY Zenon, <1>1, <2>2, <2>3, TableIs
<1>. QED
  BY Zenon, <1>2, <1>4, <1>5, <1>6, RefusedSound

-----------------------------------------------------------------------------
(***************************************************************************)
(* The steps of the processes.                                             *)
(***************************************************************************)

OEntry == [used : BOOLEAN, name : Names \cup {NoName}, shmid : Shms, refcount : 0 .. MaxOpen,
           creat : BOOLEAN, page : MaybePage]

\* The inductive invariant: the table of regions is as it should be, also when
\* the server stops at a failed assertion; references and connections are in
\* step as long as it runs.
IInv ==
  /\ TableOK(regions, pages)
  /\ ConnTable(Connections, Clients, connections)
  /\ response \in Response
  /\ srv \in {"loop", "panic"}
  /\ srv = "loop" => Refs(regions) = Conns(connections)
  /\ oregions \in [Clients -> [Oshms -> OEntry]]
  /\ snoop \subseteq {c[1] : c \in Clients} /\ panicked \subseteq Clients

\* A call with a sound outcome.
LEMMA CallStep ==
  ASSUME IInv, NEW c \in Clients, NEW x, NEW o \in Oshms, NEW e \in OEntry, NEW f \in OEntry,
         Sound(x), Call(c, x, o, e, f)
  PROVE  IInv'
<1>1. /\ regions' = x.table.regions /\ pages' = x.table.pages /\ connections' = x.conns
      /\ response' = x.resp /\ snoop' = snoop /\ panicked' = panicked
  BY Zenon DEF Call
<1>2. TableOK(regions', pages') /\ ConnTable(Connections, Clients, connections') /\ response' \in Response
  BY Zenon, <1>1 DEF Sound
<1>3. srv' \in {"loop", "panic"} /\ (srv' = "loop" => x.ok)
  BY Zenon DEF Call
<1>4. srv' = "loop" => Refs(regions') = Conns(connections')
  BY Zenon, <1>1, <1>3 DEF Sound
<1>5. oregions' \in [Clients -> [Oshms -> OEntry]]
  <2>1. PICK g \in OEntry : \/ oregions' = oregions
                            \/ oregions' = [oregions EXCEPT ![c] = [oregions[c] EXCEPT ![o] = g]]
    BY Zenon DEF Call
  <2>2. oregions \in [Clients -> [Oshms -> OEntry]]
    BY Zenon DEF IInv
  <2>3. [oregions EXCEPT ![c] = [oregions[c] EXCEPT ![o] = g]] \in [Clients -> [Oshms -> OEntry]]
    BY Zenon, <2>2
  <2>. QED
    BY Zenon, <2>1, <2>2, <2>3
<1>. QED
  BY Zenon, <1>1, <1>2, <1>3, <1>4, <1>5 DEF IInv

\* A step that asks nobody.
LEMMA LocalStep ==
  ASSUME IInv, NEW c \in Clients, NEW o \in Oshms, NEW e \in OEntry, Local(c, o, e)
  PROVE  IInv'
<1>1. oregions' = [oregions EXCEPT ![c] = [oregions[c] EXCEPT ![o] = e]]
  BY Zenon DEF Local
<1>2. oregions' \in [Clients -> [Oshms -> OEntry]]
  BY Zenon, <1>1 DEF IInv
<1>3. UNCHANGED <<regions, pages, connections, response, srv, snoop, panicked>>
  BY Zenon DEF Local
<1>. QED
  BY Zenon, <1>2, <1>3 DEF IInv

\* The entries that the stub stores.
LEMMA StubEntries ==
  ASSUME NEW e \in OEntry
  PROVE  /\ NoEntry \in OEntry
         /\ e.refcount < MaxOpen => [e EXCEPT !.refcount = e.refcount + 1] \in OEntry
         /\ e.refcount > 0 => ClosedEntry(e) \in OEntry
<1>m. MaxOpen \in Nat /\ MaxOpen >= 1 /\ 0 \in Shms
  BY ShmAssumption DEF Shms
<1>1. NoEntry \in OEntry
  BY <1>m DEF NoEntry, OEntry, MaybePage
<1>2. e.refcount < MaxOpen => [e EXCEPT !.refcount = e.refcount + 1] \in OEntry
  BY <1>m DEF OEntry
<1>3. e.refcount > 0 => [e EXCEPT !.refcount = e.refcount - 1] \in OEntry
  BY <1>m DEF OEntry
<1>. QED
  BY Zenon, <1>1, <1>2, <1>3 DEF ClosedEntry

\* The entries that the stub fills with the response of the server.
LEMMA ReplyEntries ==
  ASSUME NEW x, x.resp \in Response
  PROVE  /\ \A e \in OEntry : Resized(e, x) \in OEntry /\ Resized(e, x).refcount = e.refcount
         /\ \A name \in Names : \A flags : Entry(name, flags, x) \in OEntry
<1>1. x.resp.page \in MaybePage /\ x.resp.ipcid \in Shms
  BY Zenon DEF Response
<1>2. \A e \in OEntry : Resized(e, x) \in OEntry /\ Resized(e, x).refcount = e.refcount
  BY Zenon, <1>1 DEF Resized, OEntry
<1>3. ASSUME NEW name \in Names, NEW flags PROVE Entry(name, flags, x) \in OEntry
  <2>1. 1 \in 0 .. MaxOpen
    BY ShmAssumption
  <2>2. ("O_CREAT" \in flags) \in BOOLEAN
    OBVIOUS
  <2>3. name \in Names \cup {NoName}
    BY Zenon
  <2>. QED
    BY Zenon, <1>1, <2>1, <2>2, <2>3 DEF Entry, OEntry
<1>. QED
  BY Zenon, <1>2, <1>3

\* A search of the table of opened regions.
LEMMA OpenedEntry ==
  ASSUME IInv, NEW c \in Clients
  PROVE  /\ \A name : lookup_name(c, name) # {} => First(lookup_name(c, name)) \in Oshms
         /\ \A shmid, o : o \in Opened(c, shmid) => o \in Oshms /\ oregions[c][o].refcount > 0
         /\ \A o \in Oshms : oregions[c][o] \in OEntry
<1>1. ASSUME NEW name, lookup_name(c, name) # {} PROVE First(lookup_name(c, name)) \in Oshms
  <2>1. lookup_name(c, name) \in SUBSET Nat
    BY DEF lookup_name, Oshms
  <2>2. First(lookup_name(c, name)) \in lookup_name(c, name)
    BY Zenon, <1>1, <2>1, FirstIsLeast
  <2>. QED
    BY Zenon, <2>2 DEF lookup_name
<1>2. \A shmid, o : o \in Opened(c, shmid) => o \in Oshms /\ oregions[c][o].refcount > 0
  BY Zenon DEF Opened, lookup_shmid
<1>3. \A o \in Oshms : oregions[c][o] \in OEntry
  BY Zenon DEF IInv
<1>. QED
  BY Zenon, <1>1, <1>2, <1>3

\* Every step keeps the invariant.
LEMMA ShmStep ==
  ASSUME IInv, [Next]_vars
  PROVE  IInv'
<1>1. ASSUME srv = "loop" PROVE ServerOK
  BY Zenon, <1>1 DEF IInv, ServerOK
<1>2. ASSUME NEW c \in Clients, NEW name \in Names, NEW flags, OpenAgain(c, name, flags) PROVE IInv'
  <2>1. PICK o : o = First(lookup_name(c, name))
    BY Zenon
  <2>2. o \in Oshms /\ oregions[c][o] \in OEntry
    BY Zenon, <1>2, <2>1, OpenedEntry DEF OpenAgain
  <2>3. /\ oregions[c][o].refcount < MaxOpen
        /\ Local(c, o, [oregions[c][o] EXCEPT !.refcount = oregions[c][o].refcount + 1])
    BY Zenon, <1>2, <2>1 DEF OpenAgain
  <2>. QED
    BY Zenon, <2>2, <2>3, StubEntries, LocalStep
<1>3. ASSUME NEW c \in Clients, NEW name \in Names, NEW flags, OpenTruncate(c, name, flags) PROVE IInv'
  <2>1. PICK o : o = First(lookup_name(c, name))
    BY Zenon
  <2>2. o \in Oshms /\ oregions[c][o] \in OEntry
    BY Zenon, <1>3, <2>1, OpenedEntry DEF OpenTruncate
  <2>3. PICK e \in OEntry : e = oregions[c][o]
    BY Zenon, <2>2
  <2>4. PICK p \in NewPages : Call(c, do_shm_ftruncate(e.shmid, 0, p), o,
           [Resized(e, do_shm_ftruncate(e.shmid, 0, p)) EXCEPT !.refcount = @ + 1], NoEntry)
    BY Zenon, <1>3, <2>1, <2>3 DEF OpenTruncate
  <2>5. PICK x : x = do_shm_ftruncate(e.shmid, 0, p)
    BY Zenon
  <2>6. PICK d : d = Resized(e, x)
    BY Zenon
  <2>7. Call(c, x, o, [d EXCEPT !.refcount = d.refcount + 1], NoEntry) /\ e.refcount < MaxOpen
    BY Zenon, <1>3, <2>1, <2>3, <2>4, <2>5, <2>6 DEF OpenTruncate
  <2>8. Sound(x)
    <3>1. ServerOK
      BY Zenon, <1>1, <2>7 DEF Call, Running
    <3>2. 0 \in Nat /\ e.shmid \in Shms
      BY DEF OEntry
    <3>. QED
      BY Zenon, <2>5, <3>1, <3>2, TruncateSound
  <2>9. d \in OEntry /\ d.refcount < MaxOpen
    BY Zenon, <2>6, <2>7, <2>8, ReplyEntries DEF Sound
  <2>. QED
    BY Zenon, <2>2, <2>7, <2>8, <2>9, StubEntries, CallStep
<1>4. ASSUME NEW c \in Clients, NEW name \in Names, NEW flags, OpenFirst(c, name, flags) PROVE IInv'
  <2>1. PICK x : x = do_shm_open(c, name, flags)
    BY Zenon
  <2>2. PICK o \in Oshms : Call(c, x, o, Entry(name, flags, x), NoEntry)
    BY Zenon, <1>4, <2>1 DEF OpenFirst
  <2>3. Sound(x)
    BY Zenon, <1>1, <2>1, <2>2, OpenSound DEF Call, Running
  <2>4. Entry(name, flags, x) \in OEntry
    BY Zenon, <2>3, ReplyEntries DEF Sound
  <2>. QED
    BY Zenon, <2>2, <2>3, <2>4, StubEntries, CallStep
<1>5. ASSUME NEW c \in Clients, NEW name \in Names, NEW flags, NEW w \in Writable,
             nanvix_shm_create(c, name, flags, w)
      PROVE  IInv'
  <2>1. PICK o \in Oshms, new \in NewRegions :
          Call(c, do_shm_create(c, name, flags, w, new), o,
               Entry(name, flags, do_shm_create(c, name, flags, w, new)), NoEntry)
    BY Zenon, <1>5 DEF nanvix_shm_create
  <2>2. PICK x : x = do_shm_create(c, name, flags, w, new)
    BY Zenon
  <2>3. Call(c, x, o, Entry(name, flags, x), NoEntry)
    BY Zenon, <2>1, <2>2
  <2>4. new \in Shms /\ w \in BOOLEAN
    <3>1. 0 \in Shms
      BY ShmAssumption DEF Shms
    <3>. QED
      BY Zenon, <3>1, ShmAssumption DEF NewRegions
  <2>5. Sound(x)
    BY Zenon, <1>1, <2>2, <2>3, <2>4, CreateSound DEF Call, Running
  <2>6. Entry(name, flags, x) \in OEntry
    BY Zenon, <2>5, ReplyEntries DEF Sound
  <2>. QED
    BY Zenon, <2>3, <2>5, <2>6, StubEntries, CallStep
<1>6. ASSUME NEW c \in Clients, NEW name \in Names, nanvix_shm_unlink(c, name) PROVE IInv'
  <2>1. PICK o : o = First(lookup_name(c, name))
    BY Zenon
  <2>2. o \in Oshms /\ oregions[c][o] \in OEntry
    BY Zenon, <1>6, <2>1, OpenedEntry DEF nanvix_shm_unlink
  <2>3. Call(c, do_shm_unlink(c, name), o, NoEntry, oregions[c][o])
    BY Zenon, <1>6, <2>1 DEF nanvix_shm_unlink
  <2>4. Sound(do_shm_unlink(c, name))
    BY Zenon, <1>1, <2>3, UnlinkSound DEF Call, Running
  <2>. QED
    BY Zenon, <2>2, <2>3, <2>4, StubEntries, CallStep
<1>7. ASSUME NEW c \in Clients, NEW i \in Shms, NEW size \in {0, 1}, nanvix_shm_ftruncate(c, i, size)
      PROVE  IInv'
  <2>1. PICK o \in Opened(c, i), p \in NewPages :
          Call(c, do_shm_ftruncate(i, size, p), o,
               Resized(oregions[c][o], do_shm_ftruncate(i, size, p)), NoEntry)
    BY Zenon, <1>7 DEF nanvix_shm_ftruncate
  <2>2. PICK x : x = do_shm_ftruncate(i, size, p)
    BY Zenon
  <2>3. Call(c, x, o, Resized(oregions[c][o], x), NoEntry)
    BY Zenon, <2>1, <2>2
  <2>4. o \in Oshms /\ oregions[c][o] \in OEntry
    BY Zenon, OpenedEntry
  <2>5. Sound(x)
    <3>1. size \in Nat
      OBVIOUS
    <3>2. ServerOK
      BY Zenon, <1>1, <2>3 DEF Call, Running
    <3>. QED
      BY Zenon, <2>2, <3>1, <3>2, TruncateSound
  <2>6. Resized(oregions[c][o], x) \in OEntry
    BY Zenon, <2>4, <2>5, ReplyEntries DEF Sound
  <2>. QED
    BY Zenon, <2>3, <2>4, <2>5, <2>6, StubEntries, CallStep
<1>8. ASSUME NEW c \in Clients, NEW i \in Shms, nanvix_shm_close(c, i) PROVE IInv'
  <2>1. PICK o \in Opened(c, i) :
          \/ Call(c, do_shm_close(c, i), o, ClosedEntry(oregions[c][o]), oregions[c][o])
          \/ Local(c, o, ClosedEntry(oregions[c][o]))
    BY Zenon, <1>8 DEF nanvix_shm_close
  <2>2. o \in Oshms /\ oregions[c][o] \in OEntry /\ oregions[c][o].refcount > 0
    BY Zenon, OpenedEntry
  <2>3. ClosedEntry(oregions[c][o]) \in OEntry
    BY Zenon, <2>2, StubEntries
  <2>4. CASE Call(c, do_shm_close(c, i), o, ClosedEntry(oregions[c][o]), oregions[c][o])
    <3>1. Sound(do_shm_close(c, i))
      BY Zenon, <1>1, <2>4, CloseSound DEF Call, Running
    <3>. QED
      BY Zenon, <2>2, <2>3, <2>4, <3>1, CallStep
  <2>5. CASE Local(c, o, ClosedEntry(oregions[c][o]))
    BY Zenon, <2>2, <2>3, <2>5, LocalStep
  <2>. QED
    BY Zenon, <2>1, <2>4, <2>5
<1>9. ASSUME NEW c \in Clients, NEW i \in Shms, nanvix_shm_inval(c, i) PROVE IInv'
  <2>1. \A k \in Connections \ EmptySlots(connections) : connections[k].remote \in {d[1] : d \in Clients}
    <3>. SUFFICES ASSUME NEW k \in Connections, k \notin EmptySlots(connections)
                  PROVE  connections[k].remote \in {d[1] : d \in Clients}
      BY Zenon
    <3>1. DOMAIN connections = Connections /\ connections[k].remote \in Int
      BY Zenon DEF IInv, ConnTable
    <3>2. connections[k].remote >= 0
      BY <3>1 DEF EmptySlots
    <3>3. <<connections[k].remote, connections[k].port>> \in Clients
      BY Zenon, <3>2 DEF IInv, ConnTable
    <3>. QED
      BY <3>3
  <2>2. snoop' \subseteq {d[1] : d \in Clients}
    BY Zenon, <1>9, <2>1 DEF nanvix_shm_inval, IInv
  <2>3. UNCHANGED <<regions, pages, connections, response, srv, oregions, panicked>>
    BY Zenon, <1>9 DEF nanvix_shm_inval
  <2>. QED
    BY Zenon, <2>2, <2>3 DEF IInv
<1>10. ASSUME NEW c \in Clients, NEW i \in Shms, Access(c, i) PROVE IInv'
  <2>1. panicked' \subseteq Clients
    BY Zenon, <1>10 DEF Access, IInv
  <2>2. UNCHANGED <<regions, pages, connections, response, srv, oregions, snoop>>
    BY Zenon, <1>10 DEF Access
  <2>. QED
    BY Zenon, <2>1, <2>2 DEF IInv
<1>11. ASSUME NEW c \in Clients, Snooper(c) PROVE IInv'
  BY Zenon, <1>11 DEF Snooper, IInv
<1>12. CASE UNCHANGED vars
  BY Zenon, <1>12 DEF vars, IInv
<1>13. ASSUME NEW c \in Clients, Step(c) PROVE IInv'
  BY Zenon, <1>2, <1>3, <1>4, <1>5, <1>6, <1>7, <1>8, <1>9, <1>10, <1>11, <1>13 DEF Step
<1>. QED
  BY Zenon, <1>12, <1>13 DEF Next

\* The tables are empty in the beginning.
LEMMA ShmInit == Init => IInv
<1>. SUFFICES ASSUME Init PROVE IInv
  BY Zenon
<1>1. regions = [i \in Shms |-> NoRegion] /\ pages = {}
  BY Zenon DEF Init
<1>2. TableOK(regions, pages)
  BY Zenon, <1>1, EmptyRegion DEF TableOK
<1>3. connections = [k \in Connections |-> [remote |-> -1, port |-> -1, count |-> 0]]
  BY Zenon DEF Init, connections_setup
<1>4. ConnTable(Connections, Clients, connections)
  <2>1. IsFiniteSet(Connections) /\ Connections \subseteq Nat
    BY FS_Interval, ConnectionAssumption DEF Connections
  <2>. DEFINE e == [remote |-> -1, port |-> -1, count |-> 0]
  <2>2. e \in [remote : Int, port : Int, count : Nat] /\ e.count = 0 /\ ~(e.remote >= 0)
    OBVIOUS
  <2>3. connections = [i \in Connections |-> e]
    BY Zenon, <1>3
  <2>. HIDE DEF e
  <2>. QED
    BY Zenon, <2>1, <2>2, <2>3, ShmAssumption DEF ConnTable
<1>5. Refs(regions) = Conns(connections)
  <2>0. 0 \in Nat
    OBVIOUS
  <2>1. PICK f \in [Shms -> Nat] : f = [i \in Shms |-> regions[i].refcount]
    BY Zenon, <1>2 DEF TableOK, Region
  <2>2. PICK g \in [Connections -> Nat] : g = [k \in Connections |-> connections[k].count]
    BY Zenon, <1>4 DEF ConnTable
  <2>3. \A i \in Shms : f[i] = 0
    BY Zenon, <1>1, <2>1, EmptyRegion
  <2>4. \A k \in Connections : g[k] = 0
    BY Zenon, <1>3, <2>2
  <2>5. Total(f) = 0
    BY Zenon, <2>3, TotalZero
  <2>6. Total(g) = 0
    BY Zenon, <2>4, TotalZero
  <2>. QED
    BY Zenon, <2>1, <2>2, <2>5, <2>6 DEF Refs, Conns
<1>6. oregions \in [Clients -> [Oshms -> OEntry]]
  <2>1. NoEntry \in OEntry
    <3>1. 0 \in 0 .. MaxOpen /\ 0 \in Shms
      BY ShmAssumption DEF Shms
    <3>. QED
      BY Zenon, <3>1 DEF NoEntry, OEntry, MaybePage
  <2>. QED
    BY Zenon, <2>1 DEF Init
<1>7. response \in Response
  BY Zenon DEF Init, Response, MaybePage
<1>. QED
  BY Zenon, <1>2, <1>4, <1>5, <1>6, <1>7 DEF Init, IInv

\* For any processes, names, flags and table sizes: a name has one region, a
\* region marked for removal lives exactly as long as it has references, and
\* all variables keep their types.
THEOREM RegionsCorrect == Spec => []RegionsCoherent
<1>1. IInv => RegionsCoherent
  <2>. SUFFICES ASSUME IInv PROVE RegionsCoherent
    BY Zenon
  <2>1. pages \subseteq Pages
    <3>1. \A p : p \in pages => p # RMEM_NULL /\ \E i \in Shms : regions[i].page = p
      BY Zenon DEF IInv, TableOK
    <3>2. \A i \in Shms : regions[i].page \in MaybePage
      BY Zenon DEF IInv, TableOK, Region
    <3>. QED
      BY Zenon, <3>1, <3>2 DEF MaybePage
  <2>2. TypeOK
    BY Zenon, <2>1 DEF IInv, TableOK, Region, ConnTable, Response, OEntry, MaybePage, TypeOK
  <2>3. ASSUME NEW i \in Shms
        PROVE  /\ regions[i].used => \A j \in Find(regions[i].name) : j = i
               /\ regions[i].used /\ regions[i].remove => regions[i].refcount > 0
               /\ ~ regions[i].used => regions[i].page = RMEM_NULL /\ regions[i].refcount = 0
    BY Zenon DEF IInv, TableOK, Find
  <2>. QED
    BY Zenon, <2>2, <2>3 DEF RegionsCoherent
<1>2. IInv /\ [Next]_vars => IInv'
  BY Zenon, ShmStep
<1>. QED
  BY <1>1, <1>2, ShmInit, PTL DEF Spec

\* The server neither leaks a remote page nor gives one to two regions.
THEOREM PagesCorrect == Spec => []PagesTracked
<1>1. IInv => PagesTracked
  <2>. SUFFICES ASSUME IInv PROVE PagesTracked
    BY Zenon
  <2>1. TableOK(regions, pages)
    BY Zenon DEF IInv
  <2>2. \A p : p \in pages <=> p # RMEM_NULL /\ \E i \in Shms : regions[i].page = p
    BY Zenon, <2>1 DEF TableOK
  <2>3. pages = {regions[i].page : i \in Shms} \ {RMEM_NULL}
    BY Zenon, <2>2
  <2>. QED
    BY Zenon, <2>1, <2>3 DEF TableOK, PagesTracked
<1>2. IInv /\ [Next]_vars => IInv'
  BY Zenon, ShmStep
<1>. QED
  BY <1>1, <1>2, ShmInit, PTL DEF Spec

\* As long as the server runs, regions have as many references as clients have
\* connections, on every path through the handlers, and however small the
\* table of connections is.
THEOREM ConnectedCorrect == Spec => []ReferencesConnected
<1>1. IInv => ReferencesConnected
  BY Zenon DEF IInv, ReferencesConnected, Refs, Conns
<1>2. IInv /\ [Next]_vars => IInv'
  BY Zenon, ShmStep
<1>. QED
  BY <1>1, <1>2, ShmInit, PTL DEF Spec

=============================================================================

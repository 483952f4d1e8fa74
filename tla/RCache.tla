------------------------------- MODULE RCache -------------------------------
(***************************************************************************)
(* The page cache of libruntime/mm/cache.c, which a process keeps in front *)
(* of the remote memory.  Its functions run inside larger operations, so   *)
(* they are operators here: from a cache c to the cache after the call.    *)
(*                                                                         *)
(* c.lines   the lines of the cache                                        *)
(* c.age     the ages of the lines: when each was last loaded              *)
(* c.policy  the replacement policy                                        *)
(* c.mem     the remote memory, through the stub: the contents of every    *)
(*           allocated page (module RMem)                                  *)
(***************************************************************************)
EXTENDS TableScan, RemotePages

CONSTANTS RCACHE_LENGTH,  \* number of lines
          MaxRefs         \* bound on the reference count of a line

ASSUME RCacheAssumption == RCACHE_LENGTH \in Nat \ {0} /\ MaxRefs \in Nat \ {0}

Lines == 0 .. RCACHE_LENGTH - 1

\* No line: the null pointer, or a negative index.
None == -1

Policies == {"RCACHE_BYPASS", "RCACHE_FIFO"}

\* nanvix_rmem_read() and nanvix_rmem_write() fail on a page that is not
\* allocated.
Allocated(mem, pgnum) == pgnum \in DOMAIN mem
Store(mem, pgnum, v) == [mem EXCEPT ![pgnum] = v]

\* The cache with line x changed to l.
WithLine(c, x, l) == [c EXCEPT !.lines[x] = l]

\* CACHE_ENTRY_INITIALIZER(): contents and age stay.
Initialized(c, x) ==
  WithLine(c, x, [pgnum |-> RMEM_NULL, refcount |-> 0, page |-> c.lines[x].page])

\* nanvix_rcache_flush(); none of its callers looks at the result.
FlushMutant(c, x) == c
Flush(c, x) ==
  LET l == c.lines[x] IN
  IF Allocated(c.mem, l.pgnum) THEN [c EXCEPT !.mem = Store(@, l.pgnum, l.page)] ELSE c

\* nanvix_rcache_page_search()
Search(c, pgnum) ==
  LET found == {x \in Lines : c.lines[x].refcount > 0 /\ c.lines[x].pgnum = pgnum} IN
  IF found = {} THEN None ELSE First(found)

\* nanvix_rcache_empty()
Empty(c) ==
  LET found == {x \in Lines : c.lines[x].pgnum = RMEM_NULL} IN
  IF found = {} THEN None ELSE First(found)

\* The ages after line x was loaded.  Only their order matters, so they are
\* kept between 0, for a line that was never loaded, and RCACHE_LENGTH.
Aged(age, x) ==
  [y \in Lines |-> CASE y = x -> RCACHE_LENGTH
                     [] y # x /\ age[y] > age[x] -> age[y] - 1
                     [] OTHER -> age[y]]
Oldest(c) == CHOOSE x \in Lines : \A y \in Lines : c.age[x] <= c.age[y]

\* nanvix_rcache_bypass(): always the first line, be it in use or not.
Bypass(c) == [cache |-> Initialized(Flush(c, 0), 0), line |-> 0]

\* nanvix_rcache_fifo().  With a full cache, the search for the oldest line
\* starts from the memory in front of the table.  What it reads there as an
\* age is not defined: if it is "older" than every line, no line is written
\* back here (the memory in front of the table holds no page number that the
\* stub accepts), otherwise the oldest one is.  The line returned is the
\* first one in either case.
Fifo(c, older) ==
  CASE Empty(c) # None -> [cache |-> c, line |-> Empty(c)]
    [] Empty(c) = None /\ older -> Bypass(c)
    [] OTHER -> Bypass(Initialized(Flush(c, Oldest(c)), Oldest(c)))

Evict(c, older) == IF c.policy = "RCACHE_FIFO" THEN Fifo(c, older) ELSE Bypass(c)

\* One more reference to a line.  The count stops at MaxRefs; that makes no
\* difference to a process that puts every page back, and none to one that
\* never does, as long as MaxRefs is above the pages it has in use at once.
Referenced(refcount) == IF refcount < MaxRefs THEN refcount + 1 ELSE refcount

\* nanvix_rcache_get(): "line" is None if the result is a null pointer.
Get(c, pgnum, older) ==
  LET hit == Search(c, pgnum)
      e == Evict(c, older)
      x == e.line
      l == [pgnum |-> pgnum, refcount |-> Referenced(e.cache.lines[x].refcount),
            page |-> e.cache.mem[pgnum]] IN
  IF hit # None
  THEN [cache |-> WithLine(c, hit, [c.lines[hit] EXCEPT !.refcount = Referenced(@)]), line |-> hit]
  ELSE IF ~ Allocated(e.cache.mem, pgnum) THEN [cache |-> e.cache, line |-> None]
  ELSE [cache |-> [WithLine(e.cache, x, l) EXCEPT !.age = Aged(@, x)], line |-> x]

\* nanvix_rcache_put() on a page that is in the cache.
Put(c, pgnum) ==
  LET x == Search(c, pgnum)
      d == WithLine(c, x, [c.lines[x] EXCEPT !.refcount = @ - 1]) IN
  IF c.lines[x].refcount = 1 THEN Flush(d, x) ELSE d

\* nanvix_rcache_select_replacement_policy(): anything else falls back to
\* bypass mode.
Select(c, num) ==
  [c EXCEPT !.policy = IF num \in Policies THEN num ELSE "RCACHE_BYPASS"]

\* __nanvix_rcache_setup()
Setup(contents) ==
  [lines |-> [x \in Lines |-> [pgnum |-> RMEM_NULL, refcount |-> 0, page |-> contents]],
   age |-> [x \in Lines |-> 0],
   policy |-> "RCACHE_FIFO"]

\* The type of a cache in front of a memory of the given pages and contents.
IsCache(c, pages, contents) ==
  /\ c = [lines |-> c.lines, age |-> c.age, policy |-> c.policy, mem |-> c.mem]
  /\ c.lines \in [Lines -> [pgnum : pages \cup {RMEM_NULL}, refcount : 0 .. MaxRefs,
                            page : contents]]
  /\ c.age \in [Lines -> 0 .. RCACHE_LENGTH]
  /\ c.policy \in Policies
  /\ DOMAIN c.mem \subseteq pages /\ c.mem \in [DOMAIN c.mem -> contents]

=============================================================================

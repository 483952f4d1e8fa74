-------------------------------- MODULE Shm ---------------------------------
(***************************************************************************)
(* Shared memory regions: the table of regions of the System V server      *)
(* (sys/pm/sysv/shm/shm.c and the handlers in sys/pm/sysv/main.c), and the *)
(* stub with its table of opened regions (libruntime/pm/sysv/shm.c).       *)
(*                                                                         *)
(* A region has one remote page, or none while its size is zero.  A client *)
(* is the main thread <<process, port>> of a process.  A call is one step: *)
(* the process blocks from the request to the reply, the server takes one  *)
(* request at a time, and nobody else sees the table of opened regions.    *)
(***************************************************************************)
EXTENDS Connection, FiniteSets, RemotePages

CONSTANTS Clients, Names, NoName,
          NANVIX_SHM_MAX,       \* regions of the server
          NANVIX_SHM_OPEN_MAX,  \* opened regions of a process
          OpenFlags,            \* opening flags that processes use
          Writable,             \* is S_IWUSR in the access permissions?
          MaxOpen               \* bound on the opens of an opened region

ASSUME ShmAssumption ==
  /\ Clients \subseteq Nat \X Nat /\ MaxOpen \in Nat \ {0}
  /\ NANVIX_SHM_MAX \in Nat \ {0} /\ NANVIX_SHM_OPEN_MAX \in Nat \ {0}
  /\ NoName \notin Names /\ RMEM_NULL \notin Pages /\ Writable \subseteq BOOLEAN

Shms == 0 .. NANVIX_SHM_MAX - 1
Oshms == 0 .. NANVIX_SHM_OPEN_MAX - 1

VARIABLES
  regions,      \* regions[i]: region i of the server
  pages,        \* remote pages that the server has allocated
  connections,  \* the table of connections of the server
  response,     \* the response on the stack of the server's loop, which
                \*   keeps its fields from one request to the next
  srv,          \* "loop", or "panic" after a failed assertion
  oregions,     \* oregions[c][o]: entry o of the table of opened regions
  snoop,        \* processes with an invalidation in the snooper's mailbox
  panicked      \* clients that failed an assertion

vars == <<regions, pages, connections, response, srv, oregions, snoop, panicked>>

NoRegion == [used |-> FALSE, name |-> NoName, owner |-> 0, refcount |-> 0,
             writable |-> FALSE, remove |-> TRUE, page |-> RMEM_NULL]
NoEntry == [used |-> FALSE, name |-> NoName, shmid |-> 0, refcount |-> 0,
            creat |-> FALSE, page |-> RMEM_NULL]

\* The types of the replies that the server sends, and the one that the stub
\* takes for a failure.
SYSV_SUCCESS == 0
SYSV_FAIL == 2
SYSV_SHM_FAIL == 18

Init ==
  /\ regions = [i \in Shms |-> NoRegion]
  /\ pages = {}
  /\ connections = connections_setup
  /\ response \in [ipcid : Shms, page : {RMEM_NULL}]
  /\ srv = "loop"
  /\ oregions = [c \in Clients |-> [o \in Oshms |-> NoEntry]]
  /\ snoop = {}
  /\ panicked = {}

-----------------------------------------------------------------------------
(***************************************************************************)
(* The server's table: operators from the regions and the set of pages, t, *)
(* to the ones after the call.                                             *)
(***************************************************************************)

Table == [regions |-> regions, pages |-> pages]

\* shm_get(): the region with a name, and the reference that the caller gets.
Find(name) == {i \in Shms : regions[i].used /\ regions[i].name = name}
shm_get(t, i) == [t EXCEPT !.regions[i].refcount = @ + 1]

\* shm_put(), of a region with references: a region marked for removal goes
\* with its last reference, and its page with it.  The mutants forget the
\* page, and the mark.
shm_put_leak(t, i) ==
  IF t.regions[i].refcount = 1 /\ t.regions[i].remove
  THEN [t EXCEPT !.regions[i] = NoRegion]
  ELSE [t EXCEPT !.regions[i].refcount = @ - 1]
shm_put_keep(t, i) == [t EXCEPT !.regions[i].refcount = @ - 1]
shm_put(t, i) ==
  IF t.regions[i].refcount = 1 /\ t.regions[i].remove
  THEN [regions |-> [t.regions EXCEPT ![i] = NoRegion],
        pages |-> t.pages \ {t.regions[i].page}]
  ELSE [t EXCEPT !.regions[i].refcount = @ - 1]

\* shm_set_size(), to zero and to a size that takes page p.
Emptied(t, i) ==
  [regions |-> [t.regions EXCEPT ![i].page = RMEM_NULL],
   pages |-> t.pages \ {t.regions[i].page}]
Sized(t, i, p) ==
  [regions |-> [t.regions EXCEPT ![i].page = p], pages |-> t.pages \cup {p}]

-----------------------------------------------------------------------------
(***************************************************************************)
(* The handlers of the server.  A handler ends with a table, a table of    *)
(* connections, the response and the type of the reply; "ok" tells that no *)
(* assertion failed on the way.                                            *)
(***************************************************************************)

Outcome(t, conns, resp, opcode, ok) ==
  [table |-> t, conns |-> conns, resp |-> resp, opcode |-> opcode, ok |-> ok]

Refused(t) == Outcome(t, connections, response, SYSV_FAIL, TRUE)
Done(t, resp) == Outcome(t, connections, resp, SYSV_SUCCESS, TRUE)

\* The end of do_shm_open() and do_shm_create(): region i was got.
Served(c, t, i) ==
  Outcome(t, connect(connections, c), [ipcid |-> i, page |-> t.regions[i].page],
          SYSV_SUCCESS, connect_ret(connections, c) = 0)

\* The search got region i, and the caller gives it back and fails.  The
\* mutant keeps the reference.
GiveBackMutant(i) == Refused(shm_get(Table, i))
GiveBack(i) == Refused(shm_put(shm_get(Table, i), i))

\* An open of the existing region i, with or without truncation.
Attach(c, i, flags) ==
  LET t == shm_get(Table, i) IN
  CASE "O_TRUNC" \notin flags -> Served(c, t, i)
    [] "O_TRUNC" \in flags /\ regions[i].writable -> Served(c, Emptied(t, i), i)
    [] OTHER -> GiveBack(i)

\* do_shm_open() and __do_shm_open()
do_shm_open(c, name, flags) ==
  LET i == First(Find(name)) IN
  CASE "O_EXCL" \in flags \/ Find(name) = {} -> Refused(Table)
    [] "O_EXCL" \notin flags /\ Find(name) # {} /\ regions[i].remove -> GiveBack(i)
    [] OTHER -> Attach(c, i, flags)

\* do_shm_create() and __do_shm_create(): entry "new" is the one that
\* resource_alloc() picks.  A region marked for removal can still be opened
\* this way.
do_shm_create(c, name, flags, writable, new) ==
  LET region == [used |-> TRUE, name |-> name, owner |-> c[1], refcount |-> 1,
                 writable |-> writable, remove |-> FALSE, page |-> RMEM_NULL] IN
  CASE Find(name) # {} /\ "O_EXCL" \in flags -> GiveBack(First(Find(name)))
    [] Find(name) # {} /\ "O_EXCL" \notin flags -> Attach(c, First(Find(name)), flags)
    [] Find(name) = {} /\ regions[new].used -> Refused(Table)
    [] OTHER -> Served(c, [Table EXCEPT !.regions[new] = region], new)

\* The end of do_shm_close(): the client is disconnected.
GivenUp(c, t) ==
  Outcome(t, disconnect(connections, c), response, SYSV_SUCCESS, lookup(connections, c) # {})

\* __do_shm_close(): anybody may close a region.  The assertion that the client
\* is connected comes after the reference is gone.
do_shm_close(c, i) ==
  IF ~ regions[i].used \/ regions[i].refcount = 0 THEN Refused(Table)
  ELSE GivenUp(c, shm_put(Table, i))

\* do_shm_unlink() and __do_shm_unlink(): the owner marks the region for
\* removal; the reference of the search is given back in any case.
Marked(t, i) == [t EXCEPT !.regions[i].remove = TRUE]
do_shm_unlink(c, name) ==
  LET i == First(Find(name)) IN
  CASE Find(name) = {} -> Refused(Table)
    [] Find(name) # {} /\ regions[i].owner # c[1] -> GiveBack(i)
    [] OTHER -> Done(shm_put(Marked(shm_get(Table, i), i), i), response)

\* The end of do_shm_ftruncate(): the response has the page of the region.
Truncated(t, i) == Done(t, [response EXCEPT !.page = t.regions[i].page])

\* __do_shm_ftruncate(): the server asserts that the remote memory has a page
\* for it.
do_shm_ftruncate(i, size, p) ==
  CASE ~ (regions[i].used /\ regions[i].writable) -> Refused(Table)
    [] regions[i].used /\ regions[i].writable /\ size = 0 -> Truncated(Emptied(Table, i), i)
    [] regions[i].used /\ regions[i].writable /\ size > 0 /\ regions[i].page # RMEM_NULL ->
         Truncated(Table, i)
    [] OTHER -> IF p = RMEM_NULL THEN [Refused(Table) EXCEPT !.ok = FALSE]
                                 ELSE Truncated(Sized(Table, i, p), i)

\* The pages that nanvix_rmem_alloc() may return.
NewPages == IF Pages \ pages = {} THEN {RMEM_NULL} ELSE Pages \ pages

\* The entries that resource_alloc() may pick, any one if none is free.
NewRegions ==
  IF \A i \in Shms : regions[i].used THEN {0} ELSE {i \in Shms : ~ regions[i].used}

-----------------------------------------------------------------------------
(***************************************************************************)
(* The stub.                                                               *)
(***************************************************************************)

\* shm_lookup_name() and shm_lookup_shmid()
lookup_name(c, name) == {o \in Oshms : oregions[c][o].used /\ oregions[c][o].name = name}
lookup_shmid(c, shmid) == {o \in Oshms : oregions[c][o].used /\ oregions[c][o].shmid = shmid}

\* The entry of a region that is opened and has references, if any.
Opened(c, shmid) ==
  {o \in lookup_shmid(c, shmid) : /\ o = First(lookup_shmid(c, shmid))
                                  /\ oregions[c][o].refcount > 0}

CanWrite(flags) == "O_RDWR" \in flags

Running(c) == srv = "loop" /\ c \notin panicked

\* The call of client c ends with outcome x, and its entry o becomes e if
\* the reply is not a SYSV_SHM_FAIL, and f if it is.
Call(c, x, o, e, f) ==
  /\ Running(c)
  /\ regions' = x.table.regions /\ pages' = x.table.pages
  /\ connections' = x.conns
  /\ response' = x.resp
  /\ srv' = IF x.ok THEN "loop" ELSE "panic"
  /\ oregions' = IF x.ok
                 THEN [oregions EXCEPT ![c][o] = IF x.opcode = SYSV_SHM_FAIL THEN f ELSE e]
                 ELSE oregions
  /\ UNCHANGED <<snoop, panicked>>

\* A step of client c that asks nobody.
Local(c, o, e) ==
  /\ Running(c)
  /\ oregions' = [oregions EXCEPT ![c][o] = e]
  /\ UNCHANGED <<regions, pages, connections, response, srv, snoop, panicked>>

\* __nanvix_shm_open() of a region that is in the table of opened regions,
\* be it closed meanwhile or not.
OpenAgain(c, name, flags) ==
  LET o == First(lookup_name(c, name)) IN
  /\ lookup_name(c, name) # {} /\ flags \cap {"O_EXCL", "O_TRUNC"} = {}
  /\ oregions[c][o].refcount < MaxOpen
  /\ Local(c, o, [oregions[c][o] EXCEPT !.refcount = @ + 1])

\* __do_nanvix_shm_ftruncate() stores the page of the reply in the entry
\* that a search for the identifier finds.  On O_TRUNC the region in entry o
\* gets one more reference afterwards.
Resized(e, x) == [e EXCEPT !.page = x.resp.page]
OpenTruncate(c, name, flags) ==
  LET o == First(lookup_name(c, name))
      e == oregions[c][o] IN
  /\ lookup_name(c, name) # {} /\ "O_TRUNC" \in flags /\ "O_EXCL" \notin flags
  /\ CanWrite(flags)
  /\ e.refcount < MaxOpen
  /\ o \in Opened(c, e.shmid)
  /\ \E p \in NewPages :
       LET x == do_shm_ftruncate(e.shmid, 0, p) IN
       Call(c, x, o, [Resized(e, x) EXCEPT !.refcount = @ + 1], NoEntry)

\* __nanvix_shm_ftruncate()
nanvix_shm_ftruncate(c, shmid, size) ==
  \E o \in Opened(c, shmid), p \in NewPages :
    LET x == do_shm_ftruncate(shmid, size, p) IN
    Call(c, x, o, Resized(oregions[c][o], x), NoEntry)

\* The entry of a region that the server opened or created, as the reply
\* has it.
Entry(name, flags, x) ==
  [used |-> TRUE, name |-> name, shmid |-> x.resp.ipcid, refcount |-> 1,
   creat |-> "O_CREAT" \in flags, page |-> x.resp.page]

\* __nanvix_shm_open() of a region that is not in the table: an entry is
\* allocated, and the server is asked to open or to create the region.
OpenFirst(c, name, flags) ==
  /\ lookup_name(c, name) = {} /\ "O_CREAT" \notin flags
  /\ "O_TRUNC" \in flags => CanWrite(flags)
  /\ \E o \in {o \in Oshms : ~ oregions[c][o].used} :
       LET x == do_shm_open(c, name, flags) IN
       Call(c, x, o, Entry(name, flags, x), NoEntry)
nanvix_shm_create(c, name, flags, writable) ==
  /\ lookup_name(c, name) = {} /\ "O_CREAT" \in flags
  /\ CanWrite(flags)
  /\ \E o \in {o \in Oshms : ~ oregions[c][o].used}, new \in NewRegions :
       LET x == do_shm_create(c, name, flags, writable, new) IN
       Call(c, x, o, Entry(name, flags, x), NoEntry)

\* __nanvix_shm_close(): an entry that was created stays in the table, to be
\* unlinked.
ClosedEntry(e) ==
  IF e.refcount = 1 /\ ~ e.creat THEN NoEntry ELSE [e EXCEPT !.refcount = @ - 1]
nanvix_shm_close(c, shmid) ==
  \E o \in Opened(c, shmid) :
    LET e == oregions[c][o] IN
    \/ e.refcount = 1 /\ Call(c, do_shm_close(c, shmid), o, ClosedEntry(e), e)
    \/ e.refcount > 1 /\ Local(c, o, ClosedEntry(e))

\* __nanvix_shm_unlink()
nanvix_shm_unlink(c, name) ==
  LET o == First(lookup_name(c, name)) IN
  /\ lookup_name(c, name) # {}
  /\ oregions[c][o].refcount = 0
  /\ Call(c, do_shm_unlink(c, name), o, NoEntry, oregions[c][o])

\* __nanvix_shm_inval() and do_shm_inval(): an invalidation is sent to every
\* process that is connected.
nanvix_shm_inval(c, shmid) ==
  /\ Running(c)
  /\ Opened(c, shmid) # {}
  /\ snoop' = snoop \cup {connections[k].remote : k \in Connections \ EmptySlots(connections)}
  /\ UNCHANGED <<regions, pages, connections, response, srv, oregions, panicked>>

\* nanvix_shm_snooper(): an invalidation is logged, and that is all.
Snooper(c) ==
  /\ c[1] \in snoop
  /\ snoop' = snoop \ {c[1]}
  /\ UNCHANGED <<regions, pages, connections, response, srv, oregions, panicked>>

\* __nanvix_shm_read() and __nanvix_shm_write() of a region with a page: get
\* it from the cache, copy, put it back.  The process fails an assertion if
\* the remote memory does not have the page any more.
Access(c, shmid) ==
  /\ Running(c)
  /\ \E o \in Opened(c, shmid) :
       /\ oregions[c][o].page # RMEM_NULL
       /\ panicked' = IF oregions[c][o].page \in pages THEN panicked ELSE panicked \cup {c}
  /\ UNCHANGED <<regions, pages, connections, response, srv, oregions, snoop>>

-----------------------------------------------------------------------------
Step(c) ==
  \/ \E name \in Names :
       \/ \E flags \in OpenFlags :
            \/ OpenAgain(c, name, flags)
            \/ OpenTruncate(c, name, flags)
            \/ OpenFirst(c, name, flags)
            \/ \E w \in Writable : nanvix_shm_create(c, name, flags, w)
       \/ nanvix_shm_unlink(c, name)
  \/ \E shmid \in Shms :
       \/ \E size \in {0, 1} : nanvix_shm_ftruncate(c, shmid, size)
       \/ nanvix_shm_close(c, shmid)
       \/ nanvix_shm_inval(c, shmid)
       \/ Access(c, shmid)
  \/ Snooper(c)

Next == \E c \in Clients : Step(c)

Spec == Init /\ [][Next]_vars

-----------------------------------------------------------------------------
(***************************************************************************)
(* Properties.                                                             *)
(***************************************************************************)

\* The tables of the server and of the processes are well typed.
TypeOK ==
  /\ regions \in [Shms -> [used : BOOLEAN, name : Names \cup {NoName},
                           owner : Nat, refcount : Nat, writable : BOOLEAN,
                           remove : BOOLEAN, page : Pages \cup {RMEM_NULL}]]
  /\ pages \subseteq Pages
  /\ connections \in [Connections -> [remote : Int, port : Int, count : Nat]]
  /\ response \in [ipcid : Shms, page : Pages \cup {RMEM_NULL}]
  /\ srv \in {"loop", "panic"}
  /\ oregions \in [Clients -> [Oshms -> [used : BOOLEAN, name : Names \cup {NoName},
                     shmid : Shms, refcount : 0 .. MaxOpen, creat : BOOLEAN,
                     page : Pages \cup {RMEM_NULL}]]]
  /\ snoop \subseteq {c[1] : c \in Clients} /\ panicked \subseteq Clients

\* Whatever the processes open, close and unlink, in any order: the variables
\* have their types; a name has one region; a region marked for removal lives
\* exactly as long as it has references; and an entry without a region has no
\* page.
RegionsCoherent ==
  /\ TypeOK
  /\ \A i \in Shms :
       /\ regions[i].used => \A j \in Find(regions[i].name) : j = i
       /\ regions[i].used /\ regions[i].remove => regions[i].refcount > 0
       /\ ~ regions[i].used => regions[i].page = RMEM_NULL /\ regions[i].refcount = 0

\* The server neither leaks a remote page nor gives one to two regions: the
\* pages it has allocated are the pages of its regions, over truncations,
\* removals and reuses of the entries.  So the assertions that it can free
\* the pages hold.
PagesTracked ==
  /\ pages = {regions[i].page : i \in Shms} \ {RMEM_NULL}
  /\ \A i, j \in Shms : regions[i].page = regions[j].page /\ i # j => regions[i].page = RMEM_NULL

\* References and connections stay in step, on each error path too: regions
\* have as many references as clients have connections, so that a client is
\* connected as long as any region is opened.
ReferencesConnected ==
  srv = "loop" =>
    Total([i \in Shms |-> regions[i].refcount])
      = Total([k \in Connections |-> connections[k].count])

\* The assertions of the server hold for any calls of the processes: it can
\* connect a process that opens a region, and one that closes a region is
\* connected.
ServerNeverPanics == srv = "loop"

=============================================================================

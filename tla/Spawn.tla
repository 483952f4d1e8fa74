-------------------------------- MODULE Spawn --------------------------------
(***************************************************************************)
(* The life of the system: the spawners start the servers ring by ring,    *)
(* the programs connect to the services, run, and shut the servers down.   *)
(* From sbin/spawn/main.c, sbin/spawn/barrier.c, libruntime/init.c,        *)
(* libruntime/crt1.c, libruntime/shutdown.c, the startup and exit of the   *)
(* servers, and the programs of ubin/.                                     *)
(*                                                                         *)
(* The code of a thread is a sequence of instructions; an instruction is   *)
(* one call that blocks or changes shared state, or the head of a loop,    *)
(* and there are one or two actions for each kind.                         *)
(***************************************************************************)
EXTENDS Integers, FiniteSets, Sequences

CONSTANTS
  Spawners,  \* the processes that run the servers
  Leader,    \* the spawner of the master cluster
  Table,     \* Table[p]: the servers of spawner p (SERVERS), in order
  Ring,      \* Ring[s]: the ring of server s
  Port,      \* Port[s]: the port that clients of server s write to
  Services,  \* the servers, in the order in which the runtime connects to them
  OpensIn,   \* OpensIn[s]: the ring whose setup connects to s
  Exits,     \* the servers, in the order in which they are told to exit
  Name,      \* the name server
  Programs,  \* the processes that run programs
  Boss,      \* the one of the leading compute cluster
  Test       \* the one that runs the test program, or none of them

SPAWN_RING_FIRST == 0
SPAWN_RING_LAST == 5
Rings == SPAWN_RING_FIRST .. SPAWN_RING_LAST

Servers == {Services[i] : i \in DOMAIN Services}
Nodes == Spawners \cup Programs
Threads == Nodes \cup Servers
Followers == Spawners \ {Leader}

\* The servers of spawner p, and the spawner and the place in its table of
\* server s.
ServersOf(p) == {Table[p][i] : i \in DOMAIN Table[p]}
Home == [s \in Servers |-> CHOOSE p \in Spawners : s \in ServersOf(p)]
Place == [s \in Servers |-> CHOOSE i \in DOMAIN Table[Home[s]] : Table[Home[s]][i] = s]
Process == [t \in Threads |-> IF t \in Servers THEN Home[t] ELSE t]

\* The servers that the spawner of s starts before s.
Before(s) ==
  {r \in ServersOf(Home[s]) : \/ Ring[r] < Ring[s]
                              \/ Ring[r] = Ring[s] /\ Place[r] < Place[s]}

\* Every server is in one table, once.  A server is connected to in a ring
\* above its own, never in ring 0.  The port that clients use is the number of
\* the thread: the main thread has number 1, the servers follow in the order
\* in which they are started.
ASSUME SpawnAssumption ==
  /\ Leader \in Spawners /\ Name \in Servers /\ Boss \in Programs
  /\ Spawners \cap Programs = {} /\ Nodes \cap Servers = {}
  /\ Services \in Seq(Servers)
  /\ Table \in [Spawners -> Seq(Servers)]
  /\ Servers = UNION {ServersOf(p) : p \in Spawners}
  /\ \A p, q \in Spawners : \A i \in DOMAIN Table[p], j \in DOMAIN Table[q] :
       Table[p][i] = Table[q][j] => p = q /\ i = j
  /\ Ring \in [Servers -> Rings]
  /\ OpensIn \in [Servers -> 1 .. SPAWN_RING_LAST] /\ \A s \in Servers : Ring[s] < OpensIn[s]
  /\ Port \in [Servers -> Nat \ {0}] /\ \A s \in Servers : Port[s] = 2 + Cardinality(Before(s))
  /\ Exits \in Seq(Servers)

VARIABLES
  pc,       \* pc[t]: the next instruction of thread t; 0 for no thread yet
  next,     \* next[p]: the index of the loop over a table that p is in
  round,    \* round[p]: the barriers that spawner p has passed; the ring in the loop
  level,    \* level[t]: the ring up to which t has set the runtime up
  tid,      \* tid[s]: the number of the thread of server s
  conn,     \* conn[p]: the services that process p has connections with
  names,    \* the servers and programs whose names are linked
  lock,     \* lock[p]: the semaphore that spawner p waits on
  synced,   \* the spawners whose end of the barrier exists
  arrived,  \* the followers whose signal the leader has not consumed
  released, \* the followers that have not consumed the leader's signal
  fence,    \* fence[p]: the fences that process p has arrived at
  told,     \* the servers with an exit message in their mailbox
  panicked  \* the threads that an assertion stopped

spawnvars == <<pc, next, round, level, tid, conn, names, lock, synced, arrived, released,
               fence, told, panicked>>

-----------------------------------------------------------------------------
(***************************************************************************)
(* The programs.  A call of stdsync_fence(), which all processes take part *)
(* in, is an "arrive" and a "leave".                                       *)
(***************************************************************************)

\* spawn_barrier_wait()
spawn_barrier_wait(p) ==
  IF p = Leader THEN <<"wait0", "signal1">> ELSE <<"signal0", "wait1">>

\* __main2() of a spawner: "create" is the head of the loop over the table, in
\* the loop over the rings that ends with the barrier; "join" is a loop too.
SpawnerMain(p) ==
  LET b == spawn_barrier_wait(p) IN
  <<"setup", "bsetup", "arrive", "leave", "create", "down", b[1], b[2],
    "arrive", "leave", "arrive", "leave", "arrive", "leave",
    "join", b[1], b[2], "bcleanup", "cleanup">>

\* server(), which calls the main function of the server: its startup, its
\* loop and its shutdown.  The mutant unblocks the spawner before it links the
\* name.
ServerMainEarly == <<"setup", "up", "link", "serve", "cleanup">>
ServerMain == <<"setup", "link", "up", "serve", "cleanup">>

\* __main2() of a program linked with the C runtime.  The instructions from
\* "shutdown" to "exit" are nanvix_shutdown().
crt1 ==
  <<"setup", "arrive", "leave", "arrive", "leave", "setup_last", "link", "arrive", "leave",
    "main", "unlink", "arrive", "leave", "shutdown", "setup_last", "exit", "cleanup">>

\* __main2() of the test program.  The mutant shuts the servers down before
\* the last fence.
testEarly ==
  <<"setup", "arrive", "leave", "arrive", "leave", "arrive", "leave", "setup_last",
    "main", "shutdown", "setup_last", "exit", "arrive", "leave", "cleanup">>
test ==
  <<"setup", "arrive", "leave", "arrive", "leave", "arrive", "leave", "setup_last",
    "main", "arrive", "leave", "shutdown", "setup_last", "exit", "cleanup">>

Code == [t \in Threads |-> CASE t \in Spawners -> SpawnerMain(t)
                              [] t \in Servers  -> ServerMain
                              [] OTHER -> IF t = Test THEN test ELSE crt1]

-----------------------------------------------------------------------------
\* The index in S, if there is any, at which a loop over a table stops first.
Foremost(S) == {i \in S : \A j \in S : i <= j}

At(t, op) == pc[t] \in DOMAIN Code[t] /\ Code[t][pc[t]] = op /\ t \notin panicked
Done(t) == pc[t] > Len(Code[t])
Serving(s) == At(s, "serve")
Jump(t, n) == pc' = [pc EXCEPT ![t] = @ + n]
Advance(t) == Jump(t, 1)

SpawnInit ==
  /\ pc = [t \in Threads |-> IF t \in Servers THEN 0 ELSE 1]
  /\ next = [p \in Nodes |-> 1]
  /\ round = [p \in Spawners |-> SPAWN_RING_FIRST]
  /\ level = [t \in Threads |-> -1]
  /\ tid = [s \in Servers |-> 0]
  /\ conn = [p \in Nodes |-> {}]
  /\ names = {}
  /\ lock = [p \in Spawners |-> 0]
  /\ synced = {} /\ arrived = {} /\ released = {}
  /\ fence = [p \in Nodes |-> 0]
  /\ told = {} /\ panicked = {}

-----------------------------------------------------------------------------
(***************************************************************************)
(* The runtime: __runtime_setup() and __runtime_cleanup().                 *)
(***************************************************************************)
InSetup(t) == At(t, "setup") \/ At(t, "setup_last")
Wanted(t) ==
  IF At(t, "setup_last") THEN SPAWN_RING_LAST
  ELSE IF t \in Servers THEN Ring[t] ELSE SPAWN_RING_FIRST

\* The connections that are still missing, as indexes of Services.
Missing(t) ==
  {i \in DOMAIN Services : /\ level[t] < OpensIn[Services[i]] /\ OpensIn[Services[i]] <= Wanted(t)
                           /\ Services[i] \notin conn[Process[t]]}

\* One connection: __nanvix_name_setup() opens the mailbox of the name
\* server; the setup of the others looks the name of the server up first, and
\* an assertion fails if it is not linked.
Connect(t) ==
  /\ InSetup(t)
  /\ \E s \in {Services[i] : i \in Foremost(Missing(t))} :
     /\ s # Name => Serving(Name)
     /\ IF s = Name \/ s \in names
        THEN conn' = [conn EXCEPT ![Process[t]] = @ \cup {s}] /\ UNCHANGED panicked
        ELSE panicked' = panicked \cup {t} /\ UNCHANGED conn
  /\ UNCHANGED <<pc, next, round, level, tid, names, lock, synced, arrived, released, fence, told>>

SetupDone(t) ==
  /\ InSetup(t) /\ Missing(t) = {}
  /\ level' = [level EXCEPT ![t] = IF @ > Wanted(t) THEN @ ELSE Wanted(t)]
  /\ Advance(t)
  /\ UNCHANGED <<next, round, tid, conn, names, lock, synced, arrived, released, fence, told,
                 panicked>>

\* The connections are per process, the ring is per thread.
Cleanup(t) ==
  /\ At(t, "cleanup")
  /\ conn' = [conn EXCEPT ![Process[t]] = {s \in @ : OpensIn[s] > level[t]}]
  /\ level' = [level EXCEPT ![t] = -1]
  /\ Advance(t)
  /\ UNCHANGED <<next, round, tid, names, lock, synced, arrived, released, fence, told, panicked>>

-----------------------------------------------------------------------------
(***************************************************************************)
(* Calls to the name server, and the exit of the servers.                  *)
(***************************************************************************)

\* nanvix_name_link(), which the name server does not call, and
\* nanvix_name_unlink()
LinkName(t) ==
  /\ At(t, "link")
  /\ IF t = Name THEN UNCHANGED names ELSE Serving(Name) /\ names' = names \cup {t}
  /\ Advance(t)
  /\ UNCHANGED <<next, round, level, tid, conn, lock, synced, arrived, released, fence, told,
                 panicked>>

UnlinkName(t) ==
  /\ At(t, "unlink") /\ Serving(Name)
  /\ names' = names \ {t}
  /\ Advance(t)
  /\ UNCHANGED <<next, round, level, tid, conn, lock, synced, arrived, released, fence, told,
                 panicked>>

\* The end of __main3(): it calls services, and returns only if they answer.
Main(t) ==
  /\ At(t, "main") /\ \A s \in conn[t] : Serving(s)
  /\ Advance(t)
  /\ UNCHANGED <<next, round, level, tid, conn, names, lock, synced, arrived, released, fence,
                 told, panicked>>

\* nanvix_shutdown(): only one process goes on with it.
nanvix_shutdown(t) ==
  /\ At(t, "shutdown")
  /\ Jump(t, IF t = Boss THEN 1 ELSE 3)
  /\ UNCHANGED <<next, round, level, tid, conn, names, lock, synced, arrived, released, fence,
                 told, panicked>>

\* The shutdown function of one service: without a connection it fails, and so
\* does the assertion of nanvix_shutdown().  The mutant leaves one server out.
ExitsLeftMutant(t) == next[t] < Len(Exits)
ExitsLeft(t) == next[t] <= Len(Exits)

Exit(t) ==
  LET s == Exits[next[t]] IN
  /\ At(t, "exit") /\ ExitsLeft(t)
  /\ IF s \in conn[t]
     THEN told' = told \cup {s} /\ next' = [next EXCEPT ![t] = @ + 1] /\ UNCHANGED panicked
     ELSE panicked' = panicked \cup {t} /\ UNCHANGED <<told, next>>
  /\ UNCHANGED <<pc, round, level, tid, conn, names, lock, synced, arrived, released, fence>>

ExitsDone(t) ==
  /\ At(t, "exit") /\ ~ExitsLeft(t)
  /\ Advance(t)
  /\ UNCHANGED <<next, round, level, tid, conn, names, lock, synced, arrived, released, fence,
                 told, panicked>>

\* The loop of server s takes the exit message and ends.
Leave(s) ==
  /\ At(s, "serve") /\ s \in told
  /\ told' = told \ {s}
  /\ Advance(s)
  /\ UNCHANGED <<next, round, level, tid, conn, names, lock, synced, arrived, released, fence,
                 panicked>>

-----------------------------------------------------------------------------
(***************************************************************************)
(* The spawners: threads, the semaphore, and the barrier of spawners.      *)
(***************************************************************************)

\* The servers of the ring that the loop over the table still comes to.  The
\* mutant begins with the ring after the first.
PendingMutant(p) == {i \in DOMAIN Table[p] : i >= next[p] /\ Ring[Table[p][i]] = round[p] + 1}
Pending(p) == {i \in DOMAIN Table[p] : i >= next[p] /\ Ring[Table[p][i]] = round[p]}

\* kthread_create(): the main thread has number 1.
CreateServer(p) ==
  /\ At(p, "create")
  /\ \E i \in Foremost(Pending(p)) :
     /\ pc' = [pc EXCEPT ![p] = @ + 1, ![Table[p][i]] = 1]
     /\ tid' = [tid EXCEPT ![Table[p][i]] = 2 + Cardinality({s \in ServersOf(p) : tid[s] > 0})]
     /\ next' = [next EXCEPT ![p] = i + 1]
  /\ UNCHANGED <<round, level, conn, names, lock, synced, arrived, released, fence, told, panicked>>

\* The loop over the table ends at the barrier.
RingDone(p) ==
  /\ At(p, "create") /\ Pending(p) = {}
  /\ Jump(p, 2)
  /\ next' = [next EXCEPT ![p] = Len(Table[p]) + 1]
  /\ UNCHANGED <<round, level, tid, conn, names, lock, synced, arrived, released, fence, told,
                 panicked>>

\* nanvix_semaphore_down() by the spawner, which goes on with the loop, and
\* nanvix_semaphore_up() by a server.
Down(p) ==
  /\ At(p, "down") /\ lock[p] > 0
  /\ lock' = [lock EXCEPT ![p] = @ - 1]
  /\ Jump(p, -1)
  /\ UNCHANGED <<next, round, level, tid, conn, names, synced, arrived, released, fence, told,
                 panicked>>

Up(s) ==
  /\ At(s, "up")
  /\ lock' = [lock EXCEPT ![Home[s]] = @ + 1]
  /\ Advance(s)
  /\ UNCHANGED <<next, round, level, tid, conn, names, synced, arrived, released, fence, told,
                 panicked>>

\* kthread_join() of the servers of the table
Join(p) ==
  /\ At(p, "join")
  /\ IF next[p] \in DOMAIN Table[p]
     THEN Done(Table[p][next[p]]) /\ next' = [next EXCEPT ![p] = @ + 1] /\ UNCHANGED pc
     ELSE Advance(p) /\ UNCHANGED next
  /\ UNCHANGED <<round, level, tid, conn, names, lock, synced, arrived, released, fence, told,
                 panicked>>

\* spawn_barrier_setup() and spawn_barrier_cleanup()
BarrierSetup(p) ==
  /\ At(p, "bsetup")
  /\ synced' = synced \cup {p}
  /\ Advance(p)
  /\ UNCHANGED <<next, round, level, tid, conn, names, lock, arrived, released, fence, told,
                 panicked>>

BarrierCleanup(p) ==
  /\ At(p, "bcleanup")
  /\ synced' = synced \ {p}
  /\ Advance(p)
  /\ UNCHANGED <<next, round, level, tid, conn, names, lock, arrived, released, fence, told,
                 panicked>>

\* spawn_barrier_wait(): a signal to a node that has not created its end, or
\* that has a signal pending, is lost.  The mutant goes on with the first signal.
WaitAny(p) ==
  /\ At(p, "wait0") /\ arrived # {}
  /\ arrived' = {}
  /\ Advance(p)
  /\ UNCHANGED <<next, round, level, tid, conn, names, lock, synced, released, fence, told,
                 panicked>>
WaitAll(p) ==
  /\ At(p, "wait0") /\ arrived = Followers
  /\ arrived' = {}
  /\ Advance(p)
  /\ UNCHANGED <<next, round, level, tid, conn, names, lock, synced, released, fence, told,
                 panicked>>

SignalLeader(p) ==
  /\ At(p, "signal0")
  /\ arrived' = IF Leader \in synced THEN arrived \cup {p} ELSE arrived
  /\ Advance(p)
  /\ UNCHANGED <<next, round, level, tid, conn, names, lock, synced, released, fence, told,
                 panicked>>

\* After the barrier the loop over the rings goes on, or ends.
Passed(p) ==
  /\ Jump(p, IF round[p] < SPAWN_RING_LAST THEN -3 ELSE 1)
  /\ round' = [round EXCEPT ![p] = @ + 1]
  /\ next' = [next EXCEPT ![p] = 1]

SignalAll(p) ==
  /\ At(p, "signal1")
  /\ released' = released \cup (Followers \cap synced)
  /\ Passed(p)
  /\ UNCHANGED <<level, tid, conn, names, lock, synced, arrived, fence, told, panicked>>

WaitLeader(p) ==
  /\ At(p, "wait1") /\ p \in released
  /\ released' = released \ {p}
  /\ Passed(p)
  /\ UNCHANGED <<level, tid, conn, names, lock, synced, arrived, fence, told, panicked>>

\* stdsync_fence()
Arrive(p) ==
  /\ At(p, "arrive")
  /\ fence' = [fence EXCEPT ![p] = @ + 1]
  /\ Advance(p)
  /\ UNCHANGED <<next, round, level, tid, conn, names, lock, synced, arrived, released, told,
                 panicked>>

Depart(p) ==
  /\ At(p, "leave") /\ \A q \in Nodes : fence[q] >= fence[p]
  /\ Advance(p)
  /\ UNCHANGED <<next, round, level, tid, conn, names, lock, synced, arrived, released, fence,
                 told, panicked>>

-----------------------------------------------------------------------------
RuntimeStep(t) == Connect(t) \/ SetupDone(t) \/ Cleanup(t) \/ LinkName(t)
ProgramStep(p) ==
  UnlinkName(p) \/ Main(p) \/ nanvix_shutdown(p) \/ Exit(p) \/ ExitsDone(p)
ServerStep(s) == Up(s) \/ Leave(s)
SpawnerStep(p) ==
  \/ CreateServer(p) \/ RingDone(p) \/ Down(p) \/ Join(p)
  \/ BarrierSetup(p) \/ BarrierCleanup(p)
  \/ WaitAll(p) \/ SignalAll(p) \/ SignalLeader(p) \/ WaitLeader(p)
FenceStep(p) == Arrive(p) \/ Depart(p)

ThreadStep(t) ==
  \/ RuntimeStep(t)
  \/ t \in Programs /\ ProgramStep(t)
  \/ t \in Servers /\ ServerStep(t)
  \/ t \in Spawners /\ SpawnerStep(t)
  \/ t \in Nodes /\ FenceStep(t)

\* The machine after every process has returned.
Halted == (\A t \in Threads : Done(t)) /\ UNCHANGED spawnvars

SpawnNext == (\E t \in Threads : ThreadStep(t)) \/ Halted

SpawnSpec == SpawnInit /\ [][SpawnNext]_spawnvars
\* The machine does not idle while a thread can go on.
FairSpec == SpawnSpec /\ WF_spawnvars(SpawnNext)

-----------------------------------------------------------------------------
SpawnTypeOK ==
  /\ pc \in [Threads -> Nat] /\ \A t \in Threads : pc[t] <= Len(Code[t]) + 1
  /\ next \in [Nodes -> Nat] /\ round \in [Spawners -> 0 .. SPAWN_RING_LAST + 2]
  /\ level \in [Threads -> -1 .. SPAWN_RING_LAST]
  /\ tid \in [Servers -> Nat]
  /\ conn \in [Nodes -> SUBSET Servers]
  /\ names \subseteq Servers \cup Programs
  /\ lock \in [Spawners -> 0 .. 1]
  /\ synced \subseteq Spawners /\ arrived \subseteq Followers /\ released \subseteq Followers
  /\ fence \in [Nodes -> 0 .. 4]
  /\ told \subseteq Servers /\ panicked \subseteq Threads

\* The variables have their types, and a server starts after all servers of
\* lower rings, on any spawner, were in their loops: the barrier of the
\* spawners and the semaphore of each keep the rings apart.
RingsInOrder ==
  /\ SpawnTypeOK
  /\ \A s, r \in Servers :
       pc[s] > 0 /\ Ring[r] < Ring[s] => Serving(r) \/ At(r, "cleanup") \/ Done(r)

\* A server listens on the port that its clients are built to write to: the
\* port is the number of its thread, so it depends on the order in which the
\* spawner creates the threads.
PortsMatch == \A s \in Servers : tid[s] \in {0, Port[s]}

\* No assertion of the setup and of the shutdown fails: every name that is
\* looked up is linked, and every service told to exit has a connection.
NobodyPanics == panicked = {}

\* A service runs for as long as a process that is connected to it may still
\* call it, that is until all processes have arrived at the fourth fence.
ServersOutliveClients ==
  \A p \in Programs : \A s \in conn[p] :
    (\E q \in Nodes : fence[q] < 4) => Serving(s)

\* The system stops: every spawner, server and program comes to its end.
Halts == <>(\A t \in Threads : Done(t))

=============================================================================

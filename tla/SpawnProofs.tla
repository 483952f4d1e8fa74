----------------------------- MODULE SpawnProofs -----------------------------
(***************************************************************************)
(* Proofs about Spawn, for any number of spawners, tables, rings and       *)
(* programs: servers start ring by ring and under their ports, no          *)
(* assertion of a setup or of the shutdown fails, and no server stops      *)
(* while a program may call it.                                            *)
(*                                                                         *)
(* The inductive invariant SpawnInv counts the fences and the barriers     *)
(* that each thread has passed: both follow from its instruction, and a    *)
(* thread that has left the n-th has seen every other one arrive at it.    *)
(***************************************************************************)
EXTENDS Spawn, TLAPS

\* The number of fences that the code of t has arrived at, and that it has
\* left, before instruction n.
Arrivals(t, n) ==
  IF t \in Spawners
  THEN IF n <= 3 THEN 0 ELSE IF n <= 9 THEN 1 ELSE IF n <= 11 THEN 2 ELSE IF n <= 13 THEN 3 ELSE 4
  ELSE IF t = Test
  THEN IF n <= 2 THEN 0 ELSE IF n <= 4 THEN 1 ELSE IF n <= 6 THEN 2 ELSE IF n <= 10 THEN 3 ELSE 4
  ELSE IF n <= 2 THEN 0 ELSE IF n <= 4 THEN 1 ELSE IF n <= 8 THEN 2 ELSE IF n <= 12 THEN 3 ELSE 4
Departures(t, n) ==
  IF t \in Spawners
  THEN IF n <= 4 THEN 0 ELSE IF n <= 10 THEN 1 ELSE IF n <= 12 THEN 2 ELSE IF n <= 14 THEN 3 ELSE 4
  ELSE IF t = Test
  THEN IF n <= 3 THEN 0 ELSE IF n <= 5 THEN 1 ELSE IF n <= 7 THEN 2 ELSE IF n <= 11 THEN 3 ELSE 4
  ELSE IF n <= 3 THEN 0 ELSE IF n <= 5 THEN 1 ELSE IF n <= 9 THEN 2 ELSE IF n <= 13 THEN 3 ELSE 4

\* A process leaves a fence after all have arrived at it.
FencesOK ==
  \A p \in Nodes :
    /\ fence[p] = Arrivals(p, pc[p])
    /\ \A q \in Nodes : fence[q] >= Departures(p, pc[p])

\* Where a spawner is: at instruction n, in round r, at index x of a table of
\* length l.
Stage(n, r, x, l) ==
  /\ n \in 1 .. 20 /\ r \in 0 .. 7 /\ x \in 1 .. l + 1
  /\ n <= 4 => r = 0 /\ x = 1
  /\ n \in 5 .. 8 => r <= 5
  /\ n \in 9 .. 17 => r = 6
  /\ n >= 18 => r = 7
  /\ n = 6 => x > 1
  /\ n \in {7, 8} => x = l + 1
SpawnerOK(p) ==
  /\ Stage(pc[p], round[p], next[p], Len(Table[p]))
  /\ p \in synced <=> pc[p] \in 3 .. 18
  /\ lock[p] \in {0, 1} /\ (lock[p] = 1 => pc[p] = 6)
  /\ pc[p] = 6 => Ring[Table[p][next[p] - 1]] = round[p]

\* The half rounds of the barrier that p has gone through: a follower has
\* signalled, or the leader has waited, this many times.
HalfOf(n, r) == IF n \in {8, 17} THEN r + 1 ELSE r
Half(p) == HalfOf(pc[p], round[p])
BarrierOK(f) ==
  /\ Half(f) = IF f \in arrived THEN Half(Leader) + 1 ELSE Half(Leader)
  /\ round[f] = IF f \in released THEN round[Leader] - 1 ELSE round[Leader]

\* A spawner in round r at index x has created the server of ring g at place k.
Made(g, k, r, x) == g < r \/ (g = r /\ k < x)
Created(s) == Made(Ring[s], Place[s], round[Home[s]], next[Home[s]])

\* The spawner waits for server s.
Awaited(s) ==
  /\ pc[Home[s]] = 6 /\ lock[Home[s]] = 0
  /\ Ring[s] = round[Home[s]] /\ Place[s] = next[Home[s]] - 1
ServerOK(s) ==
  /\ pc[s] \in 0 .. 6
  /\ pc[s] = 0 <=> ~Created(s)
  /\ pc[s] \in 1 .. 3 <=> Awaited(s)
  /\ tid[s] = IF Created(s) THEN Port[s] ELSE 0
  /\ pc[s] >= 3 /\ s # Name => s \in names
  /\ pc[s] >= 5 \/ s \in told => \A p \in Nodes : fence[p] >= 4

\* The connections of a program: it has all of them from the end of its second
\* setup to its cleanup, and none before or after.
SetupAt(p) == IF p = Test THEN 8 ELSE 6
CleanupAt(p) == IF p = Test THEN 15 ELSE 17
ProgramOK(p) ==
  /\ pc[p] \in 1 .. CleanupAt(p) + 1
  /\ pc[p] <= SetupAt(p) => level[p] < 1
  /\ pc[p] < SetupAt(p) => conn[p] = {}
  /\ pc[p] > SetupAt(p) /\ pc[p] <= CleanupAt(p) => conn[p] = Servers /\ level[p] = SPAWN_RING_LAST
  /\ pc[p] > CleanupAt(p) => conn[p] = {}

\* The variables have their types, up to the bounds, which the others give.
SpawnTypes ==
  /\ pc \in [Threads -> Nat] /\ next \in [Nodes -> Nat \ {0}] /\ round \in [Spawners -> Nat]
  /\ level \in [Threads -> -1 .. SPAWN_RING_LAST] /\ tid \in [Servers -> Nat]
  /\ conn \in [Nodes -> SUBSET Servers] /\ names \in SUBSET (Servers \cup Programs)
  /\ lock \in [Spawners -> Nat] /\ synced \in SUBSET Spawners
  /\ arrived \in SUBSET Followers /\ released \in SUBSET Followers
  /\ fence \in [Nodes -> Nat] /\ told \in SUBSET Servers

\* The inductive invariant.
SpawnInv ==
  /\ SpawnTypes /\ panicked = {} /\ FencesOK
  /\ \A p \in Spawners : SpawnerOK(p)
  /\ \A f \in Followers : BarrierOK(f)
  /\ \A s \in Servers : ServerOK(s)
  /\ \A p \in Programs : ProgramOK(p)

-----------------------------------------------------------------------------
\* The kinds of threads are disjoint.
LEMMA ThreadKinds ==
  /\ \A p \in Spawners : p \in Nodes /\ p \in Threads /\ p \notin Servers /\ p \notin Programs
  /\ \A p \in Programs : p \in Nodes /\ p \in Threads /\ p \notin Servers /\ p \notin Spawners
  /\ \A s \in Servers : s \in Threads /\ s \notin Nodes /\ s \notin Programs /\ s \notin Spawners
  /\ \A p \in Nodes : p \in Spawners \/ p \in Programs
  /\ \A t \in Threads : t \in Spawners \/ t \in Programs \/ t \in Servers
  /\ \A f \in Followers : f \in Spawners /\ f # Leader
  /\ Leader \in Spawners /\ Name \in Servers /\ Boss \in Programs
BY SpawnAssumption DEF Nodes, Threads, Followers

\* The codes.
LEMMA SpawnerCode ==
  ASSUME NEW p \in Spawners
  PROVE  /\ DOMAIN Code[p] = 1 .. 19 /\ Len(Code[p]) = 19
         /\ Code[p][1] = "setup" /\ Code[p][2] = "bsetup" /\ Code[p][3] = "arrive"
         /\ Code[p][4] = "leave" /\ Code[p][5] = "create" /\ Code[p][6] = "down"
         /\ Code[p][7] = IF p = Leader THEN "wait0" ELSE "signal0"
         /\ Code[p][8] = IF p = Leader THEN "signal1" ELSE "wait1"
         /\ Code[p][9] = "arrive" /\ Code[p][10] = "leave" /\ Code[p][11] = "arrive"
         /\ Code[p][12] = "leave" /\ Code[p][13] = "arrive" /\ Code[p][14] = "leave"
         /\ Code[p][15] = "join"
         /\ Code[p][16] = IF p = Leader THEN "wait0" ELSE "signal0"
         /\ Code[p][17] = IF p = Leader THEN "signal1" ELSE "wait1"
         /\ Code[p][18] = "bcleanup" /\ Code[p][19] = "cleanup"
<1>1. p \in Threads /\ p \notin Servers
  BY Zenon, ThreadKinds
<1>2. Code[p] = SpawnerMain(p)
  BY Zenon, <1>1 DEF Code
<1>. QED
  BY <1>2 DEF SpawnerMain, spawn_barrier_wait

\* The code of servers.
LEMMA ServerCode ==
  ASSUME NEW s \in Servers
  PROVE  /\ DOMAIN Code[s] = 1 .. 5 /\ Len(Code[s]) = 5
         /\ Code[s][1] = "setup" /\ Code[s][2] = "link" /\ Code[s][3] = "up"
         /\ Code[s][4] = "serve" /\ Code[s][5] = "cleanup"
<1>1. s \in Threads /\ s \notin Spawners
  BY Zenon, ThreadKinds
<1>2. Code[s] = ServerMain
  BY Zenon, <1>1 DEF Code
<1>. QED
  BY <1>2 DEF ServerMain

\* The code of the test program.
LEMMA TestCode ==
  ASSUME NEW p \in Programs, p = Test
  PROVE  /\ DOMAIN Code[p] = 1 .. 15 /\ Len(Code[p]) = 15
         /\ Code[p][1] = "setup" /\ Code[p][2] = "arrive" /\ Code[p][3] = "leave"
         /\ Code[p][4] = "arrive" /\ Code[p][5] = "leave" /\ Code[p][6] = "arrive"
         /\ Code[p][7] = "leave" /\ Code[p][8] = "setup_last" /\ Code[p][9] = "main"
         /\ Code[p][10] = "arrive" /\ Code[p][11] = "leave" /\ Code[p][12] = "shutdown"
         /\ Code[p][13] = "setup_last" /\ Code[p][14] = "exit" /\ Code[p][15] = "cleanup"
<1>1. p \in Threads /\ p \notin Spawners /\ p \notin Servers
  BY Zenon, ThreadKinds
<1>2. Code[p] = test
  BY Zenon, <1>1 DEF Code
<1>. QED
  BY <1>2 DEF test

\* The code of the other programs.
LEMMA CrtCode ==
  ASSUME NEW p \in Programs, p # Test
  PROVE  /\ DOMAIN Code[p] = 1 .. 17 /\ Len(Code[p]) = 17
         /\ Code[p][1] = "setup" /\ Code[p][2] = "arrive" /\ Code[p][3] = "leave"
         /\ Code[p][4] = "arrive" /\ Code[p][5] = "leave" /\ Code[p][6] = "setup_last"
         /\ Code[p][7] = "link" /\ Code[p][8] = "arrive" /\ Code[p][9] = "leave"
         /\ Code[p][10] = "main" /\ Code[p][11] = "unlink" /\ Code[p][12] = "arrive"
         /\ Code[p][13] = "leave" /\ Code[p][14] = "shutdown"
         /\ Code[p][15] = "setup_last" /\ Code[p][16] = "exit" /\ Code[p][17] = "cleanup"
<1>1. p \in Threads /\ p \notin Spawners /\ p \notin Servers
  BY Zenon, ThreadKinds
<1>2. Code[p] = crt1
  BY Zenon, <1>1 DEF Code
<1>. QED
  BY <1>2 DEF crt1

\* Where a spawner is when it is at an instruction.
LEMMA SpawnerAt ==
  ASSUME NEW p \in Spawners, pc[p] \in Nat
  PROVE  /\ At(p, "setup") => pc[p] = 1
         /\ At(p, "bsetup") => pc[p] = 2
         /\ At(p, "arrive") => pc[p] \in {3, 9, 11, 13}
         /\ At(p, "leave") => pc[p] \in {4, 10, 12, 14}
         /\ At(p, "create") => pc[p] = 5
         /\ At(p, "down") => pc[p] = 6
         /\ At(p, "wait0") => pc[p] \in {7, 16} /\ p = Leader
         /\ At(p, "signal0") => pc[p] \in {7, 16} /\ p # Leader
         /\ At(p, "signal1") => pc[p] \in {8, 17} /\ p = Leader
         /\ At(p, "wait1") => pc[p] \in {8, 17} /\ p # Leader
         /\ At(p, "join") => pc[p] = 15
         /\ At(p, "bcleanup") => pc[p] = 18
         /\ At(p, "cleanup") => pc[p] = 19
         /\ ~At(p, "setup_last") /\ ~At(p, "link")
<1>1. ASSUME pc[p] \in DOMAIN Code[p]
      PROVE  \/ pc[p] = 1 \/ pc[p] = 2 \/ pc[p] = 3 \/ pc[p] = 4 \/ pc[p] = 5 \/ pc[p] = 6 \/ pc[p] = 7
             \/ pc[p] = 8 \/ pc[p] = 9 \/ pc[p] = 10 \/ pc[p] = 11 \/ pc[p] = 12 \/ pc[p] = 13
             \/ pc[p] = 14 \/ pc[p] = 15 \/ pc[p] = 16 \/ pc[p] = 17 \/ pc[p] = 18 \/ pc[p] = 19
  BY <1>1, SpawnerCode
<1>. QED
  BY <1>1, SpawnerCode, SMTT(60) DEF At

\* Where a server is when it is at an instruction.
LEMMA ServerAt ==
  ASSUME NEW s \in Servers, pc[s] \in Nat
  PROVE  /\ At(s, "setup") => pc[s] = 1
         /\ At(s, "link") => pc[s] = 2
         /\ At(s, "up") => pc[s] = 3
         /\ At(s, "serve") => pc[s] = 4
         /\ At(s, "cleanup") => pc[s] = 5
         /\ ~At(s, "setup_last")
         /\ pc[s] = 4 /\ panicked = {} => At(s, "serve")
         /\ pc[s] = 5 /\ panicked = {} => At(s, "cleanup")
<1>1. ASSUME pc[s] \in DOMAIN Code[s]
      PROVE  \/ pc[s] = 1 \/ pc[s] = 2 \/ pc[s] = 3 \/ pc[s] = 4 \/ pc[s] = 5
  BY <1>1, ServerCode
<1>. QED
  BY <1>1, ServerCode, SMTT(60) DEF At

\* Where a program is when it is at an instruction.
LEMMA ProgramAt ==
  ASSUME NEW p \in Programs, pc[p] \in Nat
  PROVE  /\ At(p, "setup") => pc[p] = 1
         /\ At(p, "arrive") => pc[p] \in (IF p = Test THEN {2, 4, 6, 10} ELSE {2, 4, 8, 12})
         /\ At(p, "leave") => pc[p] \in (IF p = Test THEN {3, 5, 7, 11} ELSE {3, 5, 9, 13})
         /\ At(p, "setup_last") => pc[p] \in (IF p = Test THEN {8, 13} ELSE {6, 15})
         /\ At(p, "link") => p # Test /\ pc[p] = 7
         /\ At(p, "main") => pc[p] = (IF p = Test THEN 9 ELSE 10)
         /\ At(p, "unlink") => p # Test /\ pc[p] = 11
         /\ At(p, "shutdown") => pc[p] = (IF p = Test THEN 12 ELSE 14)
         /\ At(p, "exit") => pc[p] = (IF p = Test THEN 14 ELSE 16)
         /\ At(p, "cleanup") => pc[p] = (IF p = Test THEN 15 ELSE 17)
<1>1. CASE p = Test
  <2>1. ASSUME pc[p] \in DOMAIN Code[p]
        PROVE  \/ pc[p] = 1 \/ pc[p] = 2 \/ pc[p] = 3 \/ pc[p] = 4 \/ pc[p] = 5 \/ pc[p] = 6
               \/ pc[p] = 7 \/ pc[p] = 8 \/ pc[p] = 9 \/ pc[p] = 10 \/ pc[p] = 11 \/ pc[p] = 12
               \/ pc[p] = 13 \/ pc[p] = 14 \/ pc[p] = 15
    BY <1>1, <2>1, TestCode
  <2>. QED
    BY <1>1, <2>1, TestCode, SMTT(60) DEF At
<1>2. CASE p # Test
  <2>1. ASSUME pc[p] \in DOMAIN Code[p]
        PROVE  \/ pc[p] = 1 \/ pc[p] = 2 \/ pc[p] = 3 \/ pc[p] = 4 \/ pc[p] = 5 \/ pc[p] = 6
               \/ pc[p] = 7 \/ pc[p] = 8 \/ pc[p] = 9 \/ pc[p] = 10 \/ pc[p] = 11 \/ pc[p] = 12
               \/ pc[p] = 13 \/ pc[p] = 14 \/ pc[p] = 15 \/ pc[p] = 16 \/ pc[p] = 17
    BY <1>2, <2>1, CrtCode
  <2>. QED
    BY <1>2, <2>1, CrtCode, SMTT(60) DEF At
<1>. QED
  BY <1>1, <1>2

\* Every server has its place in the table of one spawner.
LEMMA PlaceOf ==
  ASSUME NEW p \in Spawners, NEW i \in DOMAIN Table[p]
  PROVE  Table[p][i] \in Servers /\ Home[Table[p][i]] = p /\ Place[Table[p][i]] = i
<1>. DEFINE s == Table[p][i]
<1>1. s \in ServersOf(p) /\ s \in Servers
  <2>1. Table[p] \in Seq(Servers)
    BY Zenon, SpawnAssumption
  <2>2. s \in Servers
    BY <2>1
  <2>. QED
    BY Zenon, <2>2 DEF ServersOf
<1>2. \A q \in Spawners : s \in ServersOf(q) => q = p
  BY Zenon, SpawnAssumption DEF ServersOf
<1>3. Home[s] = p
  BY Zenon, <1>1, <1>2 DEF Home
<1>4. \A j \in DOMAIN Table[p] : Table[p][j] = s => j = i
  BY Zenon, SpawnAssumption
<1>5. Place[s] = i
  BY Zenon, <1>1, <1>3, <1>4 DEF Place
<1>. QED
  BY Zenon, <1>1, <1>3, <1>5

\* The place of a server.
LEMMA HomeOf ==
  ASSUME NEW s \in Servers
  PROVE  /\ Home[s] \in Spawners /\ Place[s] \in DOMAIN Table[Home[s]]
         /\ Table[Home[s]][Place[s]] = s
<1>1. PICK p \in Spawners : \E i \in DOMAIN Table[p] : s = Table[p][i]
  <2>1. s \in UNION {ServersOf(p) : p \in Spawners}
    BY Zenon, SpawnAssumption
  <2>. QED
    BY Zenon, <2>1 DEF ServersOf
<1>2. PICK i \in DOMAIN Table[p] : s = Table[p][i]
  BY Zenon, <1>1
<1>3. Home[s] = p /\ Place[s] = i
  BY <1>2, PlaceOf
<1>. QED
  BY Zenon, <1>2, <1>3

\* Tables are sequences.
LEMMA TableDomain ==
  ASSUME NEW p \in Spawners
  PROVE  Len(Table[p]) \in Nat /\ DOMAIN Table[p] = 1 .. Len(Table[p])
<1>1. Table[p] \in Seq(Servers)
  BY Zenon, SpawnAssumption
<1>. QED
  BY <1>1

\* The rings of servers, and of the setup that connects to them.
LEMMA RingOf ==
  ASSUME NEW s \in Servers
  PROVE  Ring[s] \in 0 .. 5 /\ OpensIn[s] \in 1 .. 5 /\ Ring[s] < OpensIn[s]
BY Zenon, SpawnAssumption DEF Rings, SPAWN_RING_FIRST, SPAWN_RING_LAST

\* The fences that a process has arrived at and has left.
LEMMA FenceNumbers ==
  ASSUME NEW t, NEW n \in Nat
  PROVE  Arrivals(t, n) \in 0 .. 4 /\ Departures(t, n) \in 0 .. 4
BY DEF Arrivals, Departures

-----------------------------------------------------------------------------
\* A follower that has passed the barrier waited for the leader, and the leader
\* for all followers: everybody has at least gone through the half of it.
LEMMA HalfAhead ==
  ASSUME SpawnInv, NEW p \in Spawners, NEW q \in Spawners
  PROVE  Half(q) >= round[p]
<1>1. \A r \in Spawners : round[r] \in Nat
  BY Zenon DEF SpawnInv, SpawnTypes
<1>2. \A r \in Spawners : Half(r) \in Nat /\ Half(r) >= round[r]
  BY <1>1 DEF Half, HalfOf
<1>3. Leader \in Spawners
  BY Zenon, ThreadKinds
<1>4. \A f \in Spawners : f = Leader \/ f \in Followers
  BY Zenon DEF Followers
<1>5. round[p] <= round[Leader]
  BY <1>1, <1>3, <1>4 DEF SpawnInv, BarrierOK
<1>6. Half(q) >= Half(Leader)
  BY <1>2, <1>3, <1>4 DEF SpawnInv, BarrierOK
<1>. QED
  BY <1>1, <1>2, <1>3, <1>5, <1>6

\* A server that is created and that nobody waits for is in its loop, or past it.
LEMMA PastUp ==
  ASSUME SpawnInv, NEW s \in Servers, Created(s), ~Awaited(s)
  PROVE  pc[s] \in 4 .. 6
BY DEF SpawnInv, ServerOK

\* The arithmetic of the rings: the spawner at n, r, x has created the server
\* of ring g at place k and does not wait for it, if g is a ring below one that
\* somebody else has come to ...
LEMMA LowerMade ==
  ASSUME NEW n, NEW r, NEW x, NEW l \in Nat, NEW g \in 0 .. 5, NEW k \in 1 .. l,
         NEW h \in 0 .. 5, NEW o \in Nat,
         Stage(n, r, x, l), g < h, h <= o, HalfOf(n, r) >= o
  PROVE  Made(g, k, r, x) /\ ~(n = 6 /\ g = r)
BY DEF Stage, HalfOf, Made

\* ... and if it has come to the second fence.
LEMMA FencedMade ==
  ASSUME NEW n, NEW r, NEW x, NEW l \in Nat, NEW g \in 0 .. 5, NEW k \in 1 .. l,
         NEW p \in Spawners, Stage(n, r, x, l), Arrivals(p, n) >= 2
  PROVE  Made(g, k, r, x) /\ n # 6
BY DEF Stage, Arrivals, Made

\* A server is created in the round of its ring at the earliest.
LEMMA MadeRing ==
  ASSUME NEW g \in 0 .. 5, NEW k, NEW r \in Nat, NEW x, Made(g, k, r, x)
  PROVE  g <= r
BY DEF Made

\* What the invariant says of the place of server s.
LEMMA ServerPlace ==
  ASSUME SpawnInv, NEW s \in Servers
  PROVE  /\ Home[s] \in Spawners /\ SpawnerOK(Home[s]) /\ ServerOK(s)
         /\ Len(Table[Home[s]]) \in Nat /\ Place[s] \in 1 .. Len(Table[Home[s]])
         /\ Ring[s] \in 0 .. 5 /\ round[Home[s]] \in Nat
         /\ Stage(pc[Home[s]], round[Home[s]], next[Home[s]], Len(Table[Home[s]]))
<1>1. Home[s] \in Spawners /\ Place[s] \in DOMAIN Table[Home[s]]
  BY Zenon, HomeOf
<1>2. Len(Table[Home[s]]) \in Nat /\ DOMAIN Table[Home[s]] = 1 .. Len(Table[Home[s]])
  BY Zenon, <1>1, TableDomain
<1>3. Ring[s] \in 0 .. 5
  BY Zenon, RingOf
<1>. QED
  BY Zenon, <1>1, <1>2, <1>3 DEF SpawnInv, SpawnerOK, SpawnTypes

\* When a server is created, those of lower rings are in their loops.
LEMMA LowerRings ==
  ASSUME SpawnInv, NEW s \in Servers, NEW r \in Servers, pc[s] # 0, Ring[r] < Ring[s]
  PROVE  pc[r] \in 4 .. 6
<1>. DEFINE p == Home[s]
            q == Home[r]
<1>1. /\ p \in Spawners /\ round[p] \in Nat /\ Ring[s] \in 0 .. 5 /\ ServerOK(s)
  BY Zenon, ServerPlace
<1>2. /\ q \in Spawners /\ Len(Table[q]) \in Nat /\ Place[r] \in 1 .. Len(Table[q])
      /\ Ring[r] \in 0 .. 5 /\ Stage(pc[q], round[q], next[q], Len(Table[q]))
  BY Zenon, ServerPlace
<1>3. Made(Ring[s], Place[s], round[p], next[p])
  BY Zenon, <1>1 DEF ServerOK, Created
<1>. HIDE DEF p, q
<1>4. Ring[s] <= round[p]
  BY Zenon, <1>1, <1>3, MadeRing
<1>5. HalfOf(pc[q], round[q]) >= round[p]
  BY <1>1, <1>2, HalfAhead DEF Half
<1>6. Made(Ring[r], Place[r], round[q], next[q]) /\ ~(pc[q] = 6 /\ Ring[r] = round[q])
  BY Zenon, <1>1, <1>2, <1>4, <1>5, LowerMade
<1>7. Created(r) /\ ~Awaited(r)
  BY Zenon, <1>6 DEF Created, Awaited, q
<1>. QED
  BY <1>7, PastUp

\* When all processes have arrived at the second fence, all servers are in
\* their loops.
LEMMA AllUp ==
  ASSUME SpawnInv, \A p \in Nodes : fence[p] >= 2, NEW s \in Servers
  PROVE  pc[s] \in 4 .. 6
<1>. DEFINE p == Home[s]
<1>1. /\ p \in Spawners /\ Len(Table[p]) \in Nat /\ Place[s] \in 1 .. Len(Table[p])
      /\ Ring[s] \in 0 .. 5 /\ Stage(pc[p], round[p], next[p], Len(Table[p]))
  BY Zenon, ServerPlace
<1>2. Arrivals(p, pc[p]) >= 2
  <2>1. p \in Nodes
    BY Zenon, <1>1, ThreadKinds
  <2>2. fence[p] = Arrivals(p, pc[p]) /\ fence[p] >= 2
    BY Zenon, <2>1 DEF SpawnInv, FencesOK
  <2>. QED
    BY Zenon, <2>2
<1>. HIDE DEF p
<1>3. Made(Ring[s], Place[s], round[p], next[p]) /\ pc[p] # 6
  BY Zenon, <1>1, <1>2, FencedMade
<1>4. Created(s) /\ ~Awaited(s)
  BY Zenon, <1>3 DEF Created, Awaited, p
<1>. QED
  BY <1>4, PastUp

-----------------------------------------------------------------------------
\* The parts of the invariant that a step does not concern.
LEMMA FencesKeep ==
  ASSUME FencesOK, fence' = fence,
         \A p \in Nodes : /\ Arrivals(p, pc'[p]) = Arrivals(p, pc[p])
                          /\ Departures(p, pc'[p]) = Departures(p, pc[p])
  PROVE  FencesOK'
BY Zenon DEF FencesOK

\* A spawner that takes no step.
LEMMA SpawnerKeeps ==
  ASSUME NEW q \in Spawners, SpawnerOK(q), pc'[q] = pc[q], next'[q] = next[q], round'[q] = round[q],
         lock'[q] = lock[q], q \in synced' <=> q \in synced
  PROVE  SpawnerOK(q)'
BY Zenon DEF SpawnerOK

\* A step that is no half of the barrier.
LEMMA BarrierKeeps ==
  ASSUME \A f \in Followers : BarrierOK(f),
         \A q \in Spawners : Half(q)' = Half(q) /\ round'[q] = round[q],
         arrived' = arrived, released' = released
  PROVE  \A f \in Followers : BarrierOK(f)'
<1>. SUFFICES ASSUME NEW f \in Followers PROVE BarrierOK(f)'
  OBVIOUS
<1>1. f \in Spawners /\ Leader \in Spawners /\ BarrierOK(f)
  BY Zenon, ThreadKinds
<1>2. /\ Half(f)' = Half(f) /\ Half(Leader)' = Half(Leader)
      /\ round'[f] = round[f] /\ round'[Leader] = round[Leader]
  BY Zenon, <1>1
<1>. QED
  BY Zenon, <1>1, <1>2 DEF BarrierOK

\* A server that neither it nor its spawner takes a step for.
LEMMA ServerKeeps ==
  ASSUME NEW s \in Servers, ServerOK(s), pc'[s] = pc[s], Created(s)' <=> Created(s),
         Awaited(s)' <=> Awaited(s), tid'[s] = tid[s], s \in names => s \in names',
         s \in told' => s \in told \/ \A p \in Nodes : fence[p] >= 4,
         \A p \in Nodes : fence[p] >= 4 => fence'[p] >= 4
  PROVE  ServerOK(s)'
<1>1. pc'[s] >= 5 \/ s \in told' => \A p \in Nodes : fence'[p] >= 4
  BY Zenon DEF ServerOK
<1>2. tid'[s] = IF Created(s)' THEN Port[s] ELSE 0
  BY Zenon DEF ServerOK
<1>. QED
  BY Zenon, <1>1, <1>2 DEF ServerOK

\* A program that takes no step.
LEMMA ProgramKeeps ==
  ASSUME NEW p \in Programs, ProgramOK(p), pc'[p] = pc[p], level'[p] = level[p], conn'[p] = conn[p]
  PROVE  ProgramOK(p)'
BY Zenon DEF ProgramOK

\* A step of a thread changes its program counter only.
LEMMA MoveEffect ==
  ASSUME SpawnInv, NEW t \in Threads, NEW n \in Nat, pc' = [pc EXCEPT ![t] = n]
  PROVE  pc' \in [Threads -> Nat] /\ pc'[t] = n /\ \A u \in Threads \ {t} : pc'[u] = pc[u]
<1>1. pc \in [Threads -> Nat]
  BY Zenon DEF SpawnInv, SpawnTypes
<1>. QED
  BY Zenon, <1>1

\* The parts of the invariant.
LEMMA SpawnParts ==
  ASSUME SpawnInv
  PROVE  /\ pc \in [Threads -> Nat] /\ next \in [Nodes -> Nat \ {0}] /\ round \in [Spawners -> Nat]
         /\ level \in [Threads -> -1 .. 5] /\ tid \in [Servers -> Nat]
         /\ conn \in [Nodes -> SUBSET Servers] /\ lock \in [Spawners -> Nat]
         /\ fence \in [Nodes -> Nat] /\ panicked = {}
         /\ \A t \in Threads : pc[t] \in Nat
         /\ \A p \in Spawners : SpawnerOK(p)
         /\ \A s \in Servers : ServerOK(s)
         /\ \A p \in Programs : ProgramOK(p)
         /\ \A t \in Threads : Process[t] \in Nodes
         /\ \A p \in Nodes : Process[p] = p
         /\ \A s \in Servers : Process[s] = Home[s]
<1>1. \A s \in Servers : Home[s] \in Spawners
  BY HomeOf
<1>2. \A p \in Nodes : Process[p] = p
  BY Zenon, ThreadKinds DEF Process
<1>3. \A s \in Servers : Process[s] = Home[s]
  BY Zenon, ThreadKinds DEF Process
<1>4. \A t \in Threads : Process[t] \in Nodes
  BY Zenon, <1>1, <1>2, <1>3, ThreadKinds
<1>5. level \in [Threads -> -1 .. 5]
  BY DEF SpawnInv, SpawnTypes, SPAWN_RING_LAST
<1>. QED
  BY Zenon, <1>2, <1>3, <1>4, <1>5 DEF SpawnInv, SpawnTypes

\* The ring that a setup is for.
LEMMA WantedRing ==
  ASSUME SpawnInv, NEW t \in Threads, InSetup(t)
  PROVE  /\ Wanted(t) \in 0 .. 5
         /\ t \in Servers => pc[t] = 1 /\ Wanted(t) = Ring[t]
         /\ t \in Spawners => pc[t] = 1 /\ Wanted(t) = 0
         /\ t \in Programs => \/ pc[t] = 1 /\ Wanted(t) = 0
                              \/ At(t, "setup_last") /\ Wanted(t) = 5
<1>1. pc[t] \in Nat
  BY Zenon, SpawnParts
<1>2. CASE t \in Servers
  <2>1. pc[t] = 1 /\ ~At(t, "setup_last") /\ t \notin Spawners /\ t \notin Programs
    BY <1>1, <1>2, ServerAt, ThreadKinds DEF InSetup
  <2>2. Ring[t] \in 0 .. 5
    BY <1>2, RingOf
  <2>. QED
    BY Zenon, <1>2, <2>1, <2>2 DEF Wanted
<1>3. CASE t \in Spawners
  <2>1. pc[t] = 1 /\ ~At(t, "setup_last") /\ t \notin Servers /\ t \notin Programs
    BY <1>1, <1>3, SpawnerAt, ThreadKinds DEF InSetup
  <2>. QED
    BY <1>3, <2>1 DEF Wanted, SPAWN_RING_FIRST
<1>4. CASE t \in Programs
  <2>1. t \notin Servers /\ t \notin Spawners /\ (At(t, "setup") => pc[t] = 1)
    BY <1>1, <1>4, ProgramAt, ThreadKinds
  <2>. QED
    BY <1>4, <2>1 DEF Wanted, InSetup, SPAWN_RING_FIRST, SPAWN_RING_LAST
<1>. QED
  BY Zenon, <1>2, <1>3, <1>4, ThreadKinds

\* The connections that are missing are those of servers.
LEMMA MissingServer ==
  ASSUME NEW t, NEW i \in Missing(t)
  PROVE  Services[i] \in Servers /\ OpensIn[Services[i]] <= Wanted(t)
BY Zenon DEF Missing, Servers

\* When a program sets the runtime up, all servers are in their loops.
LEMMA ProgramFenced ==
  ASSUME SpawnInv, NEW p \in Programs, pc[p] >= SetupAt(p), NEW s \in Servers
  PROVE  pc[s] \in 4 .. 6
<1>1. p \in Nodes /\ p \notin Spawners /\ pc[p] \in Nat
  BY Zenon, SpawnParts, ThreadKinds
<1>2. \A n \in Nat : n >= SetupAt(p) => Departures(p, n) >= 2 /\ Departures(p, n) \in Nat
  BY <1>1 DEF SetupAt, Departures
<1>3. Departures(p, pc[p]) >= 2 /\ Departures(p, pc[p]) \in Nat
  BY Zenon, <1>1, <1>2
<1>4. ASSUME NEW q \in Nodes PROVE fence[q] >= 2
  <2>1. fence[q] >= Departures(p, pc[p])
    BY Zenon, <1>1 DEF SpawnInv, FencesOK
  <2>2. fence[q] \in Nat
    BY Zenon, SpawnParts
  <2>. QED
    BY <1>3, <2>1, <2>2
<1>. QED
  BY <1>4, AllUp

\* Every service that a setup connects to is running and has its name.
LEMMA ServiceUp ==
  ASSUME SpawnInv, NEW t \in Threads, InSetup(t), NEW i \in Missing(t)
  PROVE  /\ Services[i] \in Servers /\ pc[Services[i]] \in 4 .. 6
         /\ Services[i] = Name \/ Services[i] \in names
         /\ t \notin Spawners /\ (t \in Programs => At(t, "setup_last"))
<1>. DEFINE s == Services[i]
<1>1. s \in Servers /\ OpensIn[s] <= Wanted(t)
  BY Zenon, MissingServer
<1>. HIDE DEF s
<1>2. OpensIn[s] \in 1 .. 5 /\ Ring[s] < OpensIn[s] /\ Ring[s] \in 0 .. 5
  BY <1>1, RingOf
<1>3. Wanted(t) # 0
  BY <1>1, <1>2
<1>4. t \notin Spawners /\ (t \in Programs => At(t, "setup_last"))
  BY Zenon, <1>3, WantedRing
<1>5. pc[s] \in 4 .. 6
  <2>1. CASE t \in Servers
    <3>1. pc[t] = 1 /\ Wanted(t) = Ring[t] /\ Ring[t] \in 0 .. 5
      BY <2>1, WantedRing, RingOf
    <3>2. Ring[s] < Ring[t] /\ pc[t] # 0
      BY <1>1, <1>2, <3>1
    <3>. QED
      BY <1>1, <2>1, <3>2, LowerRings
  <2>2. CASE t \in Programs
    <3>1. pc[t] >= SetupAt(t)
      <4>1. pc[t] \in Nat
        BY Zenon, SpawnParts
      <4>2. pc[t] \in (IF t = Test THEN {8, 13} ELSE {6, 15})
        BY <1>4, <2>2, <4>1, ProgramAt
      <4>. QED
        BY <4>1, <4>2 DEF SetupAt
    <3>. QED
      BY <1>1, <2>2, <3>1, ProgramFenced
  <2>. QED
    BY Zenon, <1>4, <2>1, <2>2, ThreadKinds
<1>6. s = Name \/ s \in names
  BY <1>1, <1>5 DEF SpawnInv, ServerOK
<1>. QED
  BY Zenon, <1>1, <1>4, <1>5, <1>6 DEF s

\* So a setup connects, and no assertion of it fails.
LEMMA ConnectEffect ==
  ASSUME SpawnInv, NEW t \in Threads, Connect(t)
  PROVE  /\ \E s \in Servers : conn' = [conn EXCEPT ![Process[t]] = @ \cup {s}]
         /\ UNCHANGED <<pc, next, round, level, tid, names, lock, synced, arrived, released, fence,
                        told, panicked>>
         /\ t \notin Spawners /\ (t \in Programs => At(t, "setup_last"))
<1>1. InSetup(t)
  BY Zenon DEF Connect
<1>2. PICK i \in Missing(t) :
        LET s == Services[i] IN
        IF s = Name \/ s \in names
        THEN conn' = [conn EXCEPT ![Process[t]] = @ \cup {s}] /\ UNCHANGED panicked
        ELSE panicked' = panicked \cup {t} /\ UNCHANGED conn
  BY Zenon DEF Connect, Foremost
<1>. DEFINE s == Services[i]
<1>3. /\ s \in Servers /\ (s = Name \/ s \in names)
      /\ t \notin Spawners /\ (t \in Programs => At(t, "setup_last"))
  BY Zenon, <1>1, <1>2, ServiceUp
<1>4. conn' = [conn EXCEPT ![Process[t]] = @ \cup {s}] /\ UNCHANGED panicked
  BY Zenon, <1>2, <1>3
<1>. QED
  BY Zenon, <1>3, <1>4 DEF Connect

-----------------------------------------------------------------------------
(***************************************************************************)
(* The steps of servers.                                                   *)
(***************************************************************************)

\* A step of server s does not concern the processes or the other servers.
LEMMA ServerFrame ==
  ASSUME SpawnInv, NEW s \in Servers, NEW n \in Nat, pc' = [pc EXCEPT ![s] = n],
         UNCHANGED <<next, round, tid, synced, arrived, released, fence, panicked>>,
         lock' \in [Spawners -> Nat], \A p \in Spawners : SpawnerOK(p)',
         \A r \in Servers \ {s} : Awaited(r)' <=> Awaited(r),
         level' \in [Threads -> -1 .. SPAWN_RING_LAST], conn' \in [Nodes -> SUBSET Servers],
         \A p \in Programs : level'[p] = level[p] /\ conn'[p] = conn[p],
         names' \in {names, names \cup {s}}, told' \in {told, told \ {s}},
         ServerOK(s)'
  PROVE  SpawnInv'
<1>1. s \in Threads /\ \A p \in Nodes : p \in Threads /\ p # s
  BY Zenon, ThreadKinds
<1>2. pc' \in [Threads -> Nat] /\ \A u \in Threads \ {s} : pc'[u] = pc[u]
  BY Zenon, <1>1, MoveEffect
<1>3. \A p \in Nodes : pc'[p] = pc[p]
  BY Zenon, <1>1, <1>2
<1>4. FencesOK'
  BY Zenon, <1>3, FencesKeep DEF SpawnInv
<1>5. \A f \in Followers : BarrierOK(f)'
  <2>1. \A q \in Spawners : Half(q)' = Half(q) /\ round'[q] = round[q]
    BY Zenon, <1>3, ThreadKinds DEF Half
  <2>. QED
    BY Zenon, <2>1, BarrierKeeps DEF SpawnInv
<1>6. \A p \in Programs : ProgramOK(p)'
  BY Zenon, <1>3, ThreadKinds, ProgramKeeps DEF SpawnInv
<1>7. ASSUME NEW r \in Servers \ {s} PROVE ServerOK(r)'
  <2>1. pc'[r] = pc[r] /\ tid'[r] = tid[r] /\ ServerOK(r)
    BY Zenon, <1>2, ThreadKinds DEF SpawnInv
  <2>2. Created(r)' <=> Created(r)
    BY Zenon DEF Created
  <2>3. (r \in names => r \in names') /\ (r \in told' => r \in told)
    BY Zenon
  <2>4. \A p \in Nodes : fence[p] >= 4 => fence'[p] >= 4
    BY Zenon
  <2>. QED
    BY Zenon, <2>1, <2>2, <2>3, <2>4, ServerKeeps
<1>8. SpawnTypes'
  <2>1. names' \in SUBSET (Servers \cup Programs) /\ told' \in SUBSET Servers
    BY Zenon DEF SpawnInv, SpawnTypes
  <2>. QED
    BY Zenon, <1>2, <2>1 DEF SpawnInv, SpawnTypes
<1>9. panicked' = {}
  BY Zenon DEF SpawnInv
<1>. QED
  BY Zenon, <1>4, <1>5, <1>6, <1>7, <1>8, <1>9 DEF SpawnInv

\* A server that is past its startup, from instruction n to m, keeps what the
\* invariant says of it.
LEMMA ServerMoves ==
  ASSUME SpawnInv, NEW s \in Servers, NEW m \in 1 .. 6, pc'[s] = m, pc[s] \in 1 .. 5,
         (pc[s] \in 1 .. 3 /\ m \in 1 .. 3) \/ (pc[s] >= 4 /\ m >= 4),
         UNCHANGED <<next, round, tid, lock, fence>>, pc'[Home[s]] = pc[Home[s]],
         s \in names => s \in names', m >= 3 /\ s # Name => s \in names',
         m >= 5 => \A p \in Nodes : fence[p] >= 4,
         s \in told' => s \in told
  PROVE  ServerOK(s)'
<1>1. ServerOK(s)
  BY Zenon, SpawnParts
<1>2. (Created(s)' <=> Created(s)) /\ (Awaited(s)' <=> Awaited(s))
  BY Zenon DEF Created, Awaited
<1>3. Created(s)
  BY <1>1 DEF ServerOK
<1>4. m \in 1 .. 3 <=> Awaited(s)
  BY <1>1 DEF ServerOK
<1>5. m \in 0 .. 6 /\ m # 0
  OBVIOUS
<1>6. tid'[s] = IF Created(s)' THEN Port[s] ELSE 0
  BY Zenon, <1>1, <1>2 DEF ServerOK
<1>7. pc'[s] >= 5 \/ s \in told' => \A p \in Nodes : fence'[p] >= 4
  BY Zenon, <1>1 DEF ServerOK
<1>. QED
  BY Zenon, <1>2, <1>3, <1>4, <1>5, <1>6, <1>7 DEF ServerOK

\* The connections and the ring of server s are not those of a program.
LEMMA ServerConn ==
  ASSUME SpawnInv, NEW s \in Servers, NEW X \in SUBSET Servers,
         conn' = [conn EXCEPT ![Process[s]] = X]
  PROVE  conn' \in [Nodes -> SUBSET Servers] /\ \A p \in Programs : conn'[p] = conn[p]
<1>1. conn \in [Nodes -> SUBSET Servers] /\ Process[s] \in Spawners /\ Process[s] \in Nodes
  BY Zenon, SpawnParts, HomeOf, ThreadKinds
<1>2. \A p \in Programs : p \in Nodes /\ p # Process[s]
  BY Zenon, <1>1, ThreadKinds
<1>. QED
  BY Zenon, <1>1, <1>2

\* The ring of server s.
LEMMA ServerLevel ==
  ASSUME SpawnInv, NEW s \in Servers, NEW l \in -1 .. SPAWN_RING_LAST, level' = [level EXCEPT ![s] = l]
  PROVE  /\ level' \in [Threads -> -1 .. SPAWN_RING_LAST]
         /\ \A p \in Programs : level'[p] = level[p]
<1>1. level \in [Threads -> -1 .. SPAWN_RING_LAST] /\ s \in Threads
  BY Zenon, ThreadKinds DEF SpawnInv, SpawnTypes
<1>2. \A p \in Programs : p \in Threads /\ p # s
  BY Zenon, ThreadKinds
<1>. QED
  BY Zenon, <1>1, <1>2

\* What a step of server s leaves alone.
LEMMA ServerCalm ==
  ASSUME SpawnInv, NEW s \in Servers, NEW n \in Nat, pc' = [pc EXCEPT ![s] = n],
         UNCHANGED <<next, round, lock, synced>>
  PROVE  /\ pc'[s] = n /\ pc'[Home[s]] = pc[Home[s]]
         /\ lock' \in [Spawners -> Nat] /\ \A p \in Spawners : SpawnerOK(p)'
         /\ \A r \in Servers : Awaited(r)' <=> Awaited(r)
<1>1. pc'[s] = n /\ \A u \in Threads \ {s} : pc'[u] = pc[u]
  BY Zenon, MoveEffect, ThreadKinds
<1>2. \A p \in Spawners : pc'[p] = pc[p]
  BY Zenon, <1>1, ThreadKinds
<1>3. ASSUME NEW p \in Spawners PROVE SpawnerOK(p)'
  BY Zenon, <1>2, SpawnerKeeps, SpawnParts
<1>4. ASSUME NEW r \in Servers PROVE Awaited(r)' <=> Awaited(r)
  <2>1. pc'[Home[r]] = pc[Home[r]]
    BY Zenon, <1>2, HomeOf
  <2>. QED
    BY Zenon, <2>1 DEF Awaited
<1>. QED
  BY Zenon, <1>1, <1>2, <1>3, <1>4, HomeOf, SpawnParts

\* A server connects to the services.
LEMMA ServerConnect ==
  ASSUME SpawnInv, NEW s \in Servers, Connect(s)
  PROVE  SpawnInv'
<1>1. s \in Threads /\ pc \in [Threads -> Nat]
  BY Zenon, ThreadKinds, SpawnParts
<1>2. PICK r \in Servers : conn' = [conn EXCEPT ![Process[s]] = @ \cup {r}]
  BY Zenon, <1>1, ConnectEffect
<1>3. UNCHANGED <<pc, next, round, level, tid, names, lock, synced, arrived, released, fence, told,
                  panicked>>
  BY Zenon, <1>1, ConnectEffect
<1>4. pc[s] \in Nat /\ pc' = [pc EXCEPT ![s] = pc[s]]
  BY <1>1, <1>3
<1>5. conn[Process[s]] \cup {r} \in SUBSET Servers
  BY Zenon, <1>1, SpawnParts
<1>6. conn' \in [Nodes -> SUBSET Servers] /\ \A p \in Programs : conn'[p] = conn[p]
  BY Zenon, <1>2, <1>5, ServerConn
<1>7. /\ lock' \in [Spawners -> Nat] /\ \A p \in Spawners : SpawnerOK(p)'
      /\ \A u \in Servers : Awaited(u)' <=> Awaited(u)
  BY Zenon, <1>3, <1>4, ServerCalm
<1>8. ServerOK(s)'
  <2>1. (Created(s)' <=> Created(s)) /\ pc'[s] = pc[s] /\ tid'[s] = tid[s]
    BY Zenon, <1>3 DEF Created
  <2>2. /\ s \in names => s \in names'
        /\ s \in told' => s \in told
        /\ \A p \in Nodes : fence[p] >= 4 => fence'[p] >= 4
    BY Zenon, <1>3
  <2>. QED
    BY Zenon, <1>7, <2>1, <2>2, ServerKeeps, SpawnParts
<1>9. /\ level' \in [Threads -> -1 .. SPAWN_RING_LAST] /\ \A p \in Programs : level'[p] = level[p]
      /\ names' \in {names, names \cup {s}} /\ told' \in {told, told \ {s}}
  BY Zenon, <1>3 DEF SpawnInv, SpawnTypes
<1>. QED
  BY Zenon, <1>3, <1>4, <1>6, <1>7, <1>8, <1>9, ServerFrame

\* A server ends its setup.
LEMMA ServerSetup ==
  ASSUME SpawnInv, NEW s \in Servers, SetupDone(s)
  PROVE  SpawnInv'
<1>1. s \in Threads /\ InSetup(s)
  BY Zenon, ThreadKinds DEF SetupDone
<1>2. pc[s] = 1 /\ Wanted(s) \in 0 .. 5
  BY Zenon, <1>1, WantedRing
<1>3. /\ pc' = [pc EXCEPT ![s] = pc[s] + 1]
      /\ level' = [level EXCEPT ![s] = IF level[s] > Wanted(s) THEN level[s] ELSE Wanted(s)]
      /\ UNCHANGED <<next, round, tid, conn, names, lock, synced, arrived, released, fence, told,
                     panicked>>
  BY Zenon DEF SetupDone, Advance, Jump
<1>4. pc' = [pc EXCEPT ![s] = 2] /\ 2 \in Nat
  BY <1>2, <1>3
<1>5. (IF level[s] > Wanted(s) THEN level[s] ELSE Wanted(s)) \in -1 .. SPAWN_RING_LAST
  <2>1. level[s] \in -1 .. 5
    BY Zenon, <1>1, SpawnParts
  <2>. QED
    BY <1>2, <2>1 DEF SPAWN_RING_LAST
<1>6. /\ level' \in [Threads -> -1 .. SPAWN_RING_LAST]
      /\ \A p \in Programs : level'[p] = level[p]
  BY Zenon, <1>3, <1>5, ServerLevel
<1>7. /\ pc'[s] = 2 /\ pc'[Home[s]] = pc[Home[s]]
      /\ lock' \in [Spawners -> Nat] /\ \A p \in Spawners : SpawnerOK(p)'
      /\ \A r \in Servers : Awaited(r)' <=> Awaited(r)
  BY Zenon, <1>3, <1>4, ServerCalm
<1>8. ServerOK(s)'
  <2>1. /\ UNCHANGED <<next, round, tid, lock, fence>> /\ 2 \in 1 .. 6 /\ pc[s] \in 1 .. 5
        /\ (pc[s] \in 1 .. 3 /\ 2 \in 1 .. 3) \/ (pc[s] >= 4 /\ 2 >= 4)
        /\ (s \in names => s \in names') /\ (2 >= 3 /\ s # Name => s \in names')
        /\ (2 >= 5 => \A p \in Nodes : fence[p] >= 4)
        /\ (s \in told' => s \in told)
    BY <1>2, <1>3
  <2>. QED
    BY Zenon, <1>7, <2>1, ServerMoves
<1>9. /\ conn' \in [Nodes -> SUBSET Servers] /\ \A p \in Programs : conn'[p] = conn[p]
      /\ names' \in {names, names \cup {s}} /\ told' \in {told, told \ {s}}
  BY Zenon, <1>3, SpawnParts
<1>. QED
  BY Zenon, <1>3, <1>4, <1>6, <1>7, <1>8, <1>9, ServerFrame

\* A server links its name.
LEMMA ServerLink ==
  ASSUME SpawnInv, NEW s \in Servers, LinkName(s)
  PROVE  SpawnInv'
<1>1. pc[s] \in Nat /\ At(s, "link")
  BY Zenon, ThreadKinds, SpawnParts DEF LinkName
<1>2. pc[s] = 2
  BY <1>1, ServerAt
<1>3. /\ pc' = [pc EXCEPT ![s] = pc[s] + 1] /\ names' = IF s = Name THEN names ELSE names \cup {s}
      /\ UNCHANGED <<next, round, level, tid, conn, lock, synced, arrived, released, fence, told,
                     panicked>>
  BY Zenon DEF LinkName, Advance, Jump
<1>4. pc' = [pc EXCEPT ![s] = 3] /\ 3 \in Nat
  BY <1>2, <1>3
<1>7. /\ pc'[s] = 3 /\ pc'[Home[s]] = pc[Home[s]]
      /\ lock' \in [Spawners -> Nat] /\ \A p \in Spawners : SpawnerOK(p)'
      /\ \A r \in Servers : Awaited(r)' <=> Awaited(r)
  BY Zenon, <1>3, <1>4, ServerCalm
<1>8. ServerOK(s)'
  <2>1. /\ UNCHANGED <<next, round, tid, lock, fence>> /\ 3 \in 1 .. 6 /\ pc[s] \in 1 .. 5
        /\ (pc[s] \in 1 .. 3 /\ 3 \in 1 .. 3) \/ (pc[s] >= 4 /\ 3 >= 4)
        /\ (s \in names => s \in names') /\ (3 >= 3 /\ s # Name => s \in names')
        /\ (3 >= 5 => \A p \in Nodes : fence[p] >= 4)
        /\ (s \in told' => s \in told)
    BY <1>2, <1>3
  <2>. QED
    BY Zenon, <1>7, <2>1, ServerMoves
<1>9. /\ conn' \in [Nodes -> SUBSET Servers] /\ \A p \in Programs : conn'[p] = conn[p]
      /\ names' \in {names, names \cup {s}} /\ told' \in {told, told \ {s}}
      /\ level' \in [Threads -> -1 .. SPAWN_RING_LAST] /\ \A p \in Programs : level'[p] = level[p]
  BY Zenon, <1>3 DEF SpawnInv, SpawnTypes
<1>. QED
  BY Zenon, <1>3, <1>4, <1>7, <1>8, <1>9, ServerFrame

\* A server takes its exit message.
LEMMA ServerLeave ==
  ASSUME SpawnInv, NEW s \in Servers, Leave(s)
  PROVE  SpawnInv'
<1>1. pc[s] \in Nat /\ At(s, "serve") /\ s \in told
  BY Zenon, ThreadKinds, SpawnParts DEF Leave
<1>2. pc[s] = 4
  BY <1>1, ServerAt
<1>3. /\ pc' = [pc EXCEPT ![s] = pc[s] + 1] /\ told' = told \ {s}
      /\ UNCHANGED <<next, round, level, tid, conn, names, lock, synced, arrived, released, fence,
                     panicked>>
  BY Zenon DEF Leave, Advance, Jump
<1>4. pc' = [pc EXCEPT ![s] = 5] /\ 5 \in Nat
  BY <1>2, <1>3
<1>5. \A p \in Nodes : fence[p] >= 4
  BY Zenon, <1>1, SpawnParts DEF ServerOK
<1>6. s # Name => s \in names
  BY <1>2, SpawnParts DEF ServerOK
<1>7. /\ pc'[s] = 5 /\ pc'[Home[s]] = pc[Home[s]]
      /\ lock' \in [Spawners -> Nat] /\ \A p \in Spawners : SpawnerOK(p)'
      /\ \A r \in Servers : Awaited(r)' <=> Awaited(r)
  BY Zenon, <1>3, <1>4, ServerCalm
<1>8. ServerOK(s)'
  <2>1. /\ UNCHANGED <<next, round, tid, lock, fence>> /\ 5 \in 1 .. 6 /\ pc[s] \in 1 .. 5
        /\ (pc[s] \in 1 .. 3 /\ 5 \in 1 .. 3) \/ (pc[s] >= 4 /\ 5 >= 4)
        /\ (s \in names => s \in names') /\ (5 >= 3 /\ s # Name => s \in names')
        /\ (s \in told' => s \in told)
    BY <1>2, <1>3, <1>6
  <2>. QED
    BY Zenon, <1>5, <1>7, <2>1, ServerMoves
<1>9. /\ conn' \in [Nodes -> SUBSET Servers] /\ \A p \in Programs : conn'[p] = conn[p]
      /\ names' \in {names, names \cup {s}} /\ told' \in {told, told \ {s}}
      /\ level' \in [Threads -> -1 .. SPAWN_RING_LAST] /\ \A p \in Programs : level'[p] = level[p]
  BY Zenon, <1>3 DEF SpawnInv, SpawnTypes
<1>. QED
  BY Zenon, <1>3, <1>4, <1>7, <1>8, <1>9, ServerFrame

\* A server cleans the runtime up.
LEMMA ServerCleanup ==
  ASSUME SpawnInv, NEW s \in Servers, Cleanup(s)
  PROVE  SpawnInv'
<1>1. pc[s] \in Nat /\ At(s, "cleanup") /\ s \in Threads
  BY Zenon, ThreadKinds, SpawnParts DEF Cleanup
<1>2. pc[s] = 5
  BY <1>1, ServerAt
<1>3. /\ pc' = [pc EXCEPT ![s] = pc[s] + 1] /\ level' = [level EXCEPT ![s] = -1]
      /\ conn' = [conn EXCEPT ![Process[s]] = {r \in conn[Process[s]] : OpensIn[r] > level[s]}]
      /\ UNCHANGED <<next, round, tid, names, lock, synced, arrived, released, fence, told, panicked>>
  BY Zenon DEF Cleanup, Advance, Jump
<1>4. pc' = [pc EXCEPT ![s] = 6] /\ 6 \in Nat
  BY <1>2, <1>3
<1>5. {r \in conn[Process[s]] : OpensIn[r] > level[s]} \in SUBSET Servers
  BY Zenon, <1>1, SpawnParts
<1>6. conn' \in [Nodes -> SUBSET Servers] /\ \A p \in Programs : conn'[p] = conn[p]
  BY Zenon, <1>3, <1>5, ServerConn
<1>a. -1 \in -1 .. SPAWN_RING_LAST
  BY DEF SPAWN_RING_LAST
<1>b. /\ level' \in [Threads -> -1 .. SPAWN_RING_LAST]
      /\ \A p \in Programs : level'[p] = level[p]
  BY Zenon, <1>3, <1>a, ServerLevel
<1>7. /\ pc'[s] = 6 /\ pc'[Home[s]] = pc[Home[s]]
      /\ lock' \in [Spawners -> Nat] /\ \A p \in Spawners : SpawnerOK(p)'
      /\ \A r \in Servers : Awaited(r)' <=> Awaited(r)
  BY Zenon, <1>3, <1>4, ServerCalm
<1>c. (s # Name => s \in names) /\ \A p \in Nodes : fence[p] >= 4
  BY <1>2, SpawnParts DEF ServerOK
<1>8. ServerOK(s)'
  <2>1. /\ UNCHANGED <<next, round, tid, lock, fence>> /\ 6 \in 1 .. 6 /\ pc[s] \in 1 .. 5
        /\ (pc[s] \in 1 .. 3 /\ 6 \in 1 .. 3) \/ (pc[s] >= 4 /\ 6 >= 4)
        /\ (s \in names => s \in names') /\ (6 >= 3 /\ s # Name => s \in names')
        /\ (s \in told' => s \in told)
    BY <1>2, <1>3, <1>c
  <2>. QED
    BY Zenon, <1>7, <1>c, <2>1, ServerMoves
<1>9. names' \in {names, names \cup {s}} /\ told' \in {told, told \ {s}}
  BY Zenon, <1>3
<1>. QED
  BY Zenon, <1>3, <1>4, <1>6, <1>7, <1>8, <1>9, <1>b, ServerFrame

\* A spawner waits for one server at a time.
LEMMA AwaitedOne ==
  ASSUME NEW s \in Servers, NEW r \in Servers, Awaited(s), Awaited(r), Home[r] = Home[s]
  PROVE  r = s
<1>1. Place[r] = Place[s]
  BY Zenon DEF Awaited
<1>. QED
  BY Zenon, <1>1, HomeOf

\* A server unblocks its spawner.
LEMMA ServerUp ==
  ASSUME SpawnInv, NEW s \in Servers, Up(s)
  PROVE  SpawnInv'
<1>. DEFINE p == Home[s]
<1>0. p \in Spawners /\ p # s
  BY HomeOf, ThreadKinds
<1>1. pc[s] \in Nat /\ At(s, "up") /\ s \in Threads /\ p \in Spawners /\ p \in Threads /\ p # s
  BY Zenon, <1>0, ThreadKinds, SpawnParts DEF Up
<1>2. pc[s] = 3
  BY <1>1, ServerAt
<1>3. /\ pc' = [pc EXCEPT ![s] = pc[s] + 1] /\ lock' = [lock EXCEPT ![p] = lock[p] + 1]
      /\ UNCHANGED <<next, round, level, tid, conn, names, synced, arrived, released, fence, told,
                     panicked>>
  BY Zenon DEF Up, Advance, Jump
<1>4. pc' = [pc EXCEPT ![s] = 4] /\ 4 \in Nat
  BY <1>2, <1>3
<1>5. Awaited(s) /\ Created(s) /\ (s # Name => s \in names)
  BY <1>2, SpawnParts DEF ServerOK
<1>6. pc[p] = 6 /\ lock[p] = 0
  BY Zenon, <1>5 DEF Awaited
<1>7. lock \in [Spawners -> Nat] /\ lock' = [lock EXCEPT ![p] = 1]
  <2>1. lock[p] + 1 = 1
    BY <1>6
  <2>. QED
    BY Zenon, <1>3, <2>1, SpawnParts
<1>8. lock' \in [Spawners -> Nat] /\ lock'[p] = 1 /\ \A q \in Spawners \ {p} : lock'[q] = lock[q]
  BY <1>1, <1>7
<1>9. pc'[s] = 4 /\ \A u \in Threads \ {s} : pc'[u] = pc[u]
  BY Zenon, <1>1, <1>4, MoveEffect
<1>a. \A q \in Spawners : pc'[q] = pc[q]
  BY Zenon, <1>9, ThreadKinds
<1>b. SpawnerOK(p)'
  BY Zenon, <1>1, <1>3, <1>6, <1>8, <1>a, SpawnParts DEF SpawnerOK
<1>c. ASSUME NEW q \in Spawners \ {p} PROVE SpawnerOK(q)'
  <2>1. /\ SpawnerOK(q) /\ pc'[q] = pc[q] /\ next'[q] = next[q] /\ round'[q] = round[q]
        /\ lock'[q] = lock[q] /\ (q \in synced' <=> q \in synced)
    BY Zenon, <1>3, <1>8, <1>a, SpawnParts
  <2>. QED
    BY Zenon, <2>1, SpawnerKeeps
<1>d. ASSUME NEW r \in Servers \ {s} PROVE Awaited(r)' <=> Awaited(r)
  <2>1. CASE Home[r] = p
    <3>1. ~Awaited(r)
      BY Zenon, <1>5, <2>1, AwaitedOne
    <3>2. ~Awaited(r)'
      BY <1>8, <2>1 DEF Awaited
    <3>. QED
      BY Zenon, <3>1, <3>2
  <2>2. CASE Home[r] # p
    <3>1. lock'[Home[r]] = lock[Home[r]] /\ pc'[Home[r]] = pc[Home[r]]
      BY Zenon, <1>8, <1>a, <2>2, HomeOf
    <3>. QED
      BY Zenon, <1>3, <3>1 DEF Awaited
  <2>. QED
    BY Zenon, <2>1, <2>2
<1>e. ServerOK(s)'
  <2>1. Created(s)'
    BY Zenon, <1>3, <1>5 DEF Created
  <2>2. ~Awaited(s)'
    BY <1>8 DEF Awaited
  <2>3. pc'[s] \in 0 .. 6 /\ pc'[s] # 0 /\ ~(pc'[s] \in 1 .. 3) /\ ~(pc'[s] >= 5)
    BY <1>9
  <2>4. tid'[s] = Port[s]
    BY Zenon, <1>3, <1>5, SpawnParts DEF ServerOK
  <2>5. s \in told' => \A q \in Nodes : fence'[q] >= 4
    BY Zenon, <1>3, SpawnParts DEF ServerOK
  <2>6. s # Name => s \in names'
    BY Zenon, <1>3, <1>5
  <2>. QED
    BY Zenon, <2>1, <2>2, <2>3, <2>4, <2>5, <2>6 DEF ServerOK
<1>f. /\ conn' \in [Nodes -> SUBSET Servers] /\ \A q \in Programs : conn'[q] = conn[q]
      /\ names' \in {names, names \cup {s}} /\ told' \in {told, told \ {s}}
      /\ level' \in [Threads -> -1 .. SPAWN_RING_LAST] /\ \A q \in Programs : level'[q] = level[q]
  BY Zenon, <1>3 DEF SpawnInv, SpawnTypes
<1>g. \A q \in Spawners : SpawnerOK(q)'
  BY Zenon, <1>b, <1>c
<1>. QED
  BY Zenon, <1>3, <1>4, <1>8, <1>d, <1>e, <1>f, <1>g, ServerFrame

-----------------------------------------------------------------------------
(***************************************************************************)
(* The steps of programs.                                                  *)
(***************************************************************************)

\* A step of program p does not concern the spawners, and the servers only
\* by an exit message.
LEMMA ProgramFrame ==
  ASSUME SpawnInv, NEW p \in Programs, NEW n \in Nat, pc' = [pc EXCEPT ![p] = n],
         UNCHANGED <<round, tid, lock, synced, arrived, released, panicked>>,
         next' \in [Nodes -> Nat \ {0}], \A q \in Spawners : next'[q] = next[q],
         NEW l \in -1 .. SPAWN_RING_LAST, level' = [level EXCEPT ![p] = l],
         NEW X \in SUBSET Servers, conn' = [conn EXCEPT ![p] = X],
         names' \in {names, names \cup {p}, names \ {p}}, told' \in SUBSET Servers,
         \A s \in Servers : s \in told' => s \in told \/ \A q \in Nodes : fence[q] >= 4,
         fence' \in [Nodes -> Nat], \A q \in Nodes : fence[q] >= 4 => fence'[q] >= 4,
         FencesOK', ProgramOK(p)'
  PROVE  SpawnInv'
<1>1. p \in Threads /\ p \in Nodes
  BY Zenon, ThreadKinds
<1>2. pc' \in [Threads -> Nat] /\ \A u \in Threads \ {p} : pc'[u] = pc[u]
  BY Zenon, <1>1, MoveEffect
<1>3. \A q \in Spawners : pc'[q] = pc[q]
  BY Zenon, <1>2, ThreadKinds
<1>4. \A f \in Followers : BarrierOK(f)'
  <2>1. \A q \in Spawners : Half(q)' = Half(q) /\ round'[q] = round[q]
    BY Zenon, <1>3 DEF Half
  <2>. QED
    BY Zenon, <2>1, BarrierKeeps DEF SpawnInv
<1>5. ASSUME NEW q \in Spawners PROVE SpawnerOK(q)'
  BY Zenon, <1>3, SpawnerKeeps, SpawnParts
<1>6. ASSUME NEW q \in Programs \ {p} PROVE ProgramOK(q)'
  <2>1. q \in Nodes /\ q \in Threads
    BY Zenon, ThreadKinds
  <2>2. pc'[q] = pc[q] /\ level'[q] = level[q] /\ conn'[q] = conn[q]
    BY Zenon, <1>2, <2>1, SpawnParts
  <2>. QED
    BY Zenon, <2>2, ProgramKeeps, SpawnParts
<1>7. ASSUME NEW s \in Servers PROVE ServerOK(s)'
  <2>0. s \in Threads /\ s # p /\ Home[s] \in Spawners
    <3>1. Home[s] \in Spawners
      BY HomeOf
    <3>. QED
      BY Zenon, <3>1, ThreadKinds
  <2>1. pc'[s] = pc[s] /\ tid'[s] = tid[s] /\ ServerOK(s) /\ (s \in names => s \in names')
    BY Zenon, <1>2, <2>0, SpawnParts
  <2>2. (Created(s)' <=> Created(s)) /\ (Awaited(s)' <=> Awaited(s))
    <3>1. next'[Home[s]] = next[Home[s]] /\ pc'[Home[s]] = pc[Home[s]]
      BY Zenon, <1>3, <2>0
    <3>. QED
      BY Zenon, <3>1 DEF Created, Awaited
  <2>. QED
    BY Zenon, <2>1, <2>2, ServerKeeps
<1>8. SpawnTypes'
  <2>1. names' \in SUBSET (Servers \cup Programs)
    BY Zenon DEF SpawnInv, SpawnTypes
  <2>2. level \in [Threads -> -1 .. SPAWN_RING_LAST] /\ conn \in [Nodes -> SUBSET Servers]
    BY Zenon DEF SpawnInv, SpawnTypes
  <2>3. level' \in [Threads -> -1 .. SPAWN_RING_LAST]
    BY Zenon, <1>1, <2>2
  <2>4. conn' \in [Nodes -> SUBSET Servers]
    BY Zenon, <1>1, <2>2
  <2>. QED
    BY Zenon, <1>2, <2>1, <2>3, <2>4 DEF SpawnInv, SpawnTypes
<1>9. panicked' = {}
  BY Zenon DEF SpawnInv
<1>. QED
  BY Zenon, <1>4, <1>5, <1>6, <1>7, <1>8, <1>9 DEF SpawnInv

\* Instructions n and m of program p are in a stretch without a fence in
\* between.
Calm(p, n, m) ==
  IF p = Test
  THEN (n <= 2 /\ m <= 2) \/ (n \in 8 .. 10 /\ m \in 8 .. 10) \/ (n >= 12 /\ m >= 12)
  ELSE \/ (n <= 2 /\ m <= 2) \/ (n \in 6 .. 8 /\ m \in 6 .. 8)
       \/ (n \in 10 .. 12 /\ m \in 10 .. 12) \/ (n >= 14 /\ m >= 14)

\* In it the numbers of fences stay the same.
LEMMA ProgramFences ==
  ASSUME NEW p \in Programs, NEW n \in 1 .. 18, NEW m \in 1 .. 18,
         Calm(p, n, m)
  PROVE  Arrivals(p, m) = Arrivals(p, n) /\ Departures(p, m) = Departures(p, n)
<1>1. p \notin Spawners
  BY Zenon, ThreadKinds
<1>. QED
  BY <1>1 DEF Arrivals, Departures, Calm

\* The fences after a step of process p from n to m between two fences.
LEMMA NodeFences ==
  ASSUME SpawnInv, NEW p \in Nodes, NEW m \in Nat, pc' = [pc EXCEPT ![p] = m], fence' = fence,
         Arrivals(p, m) = Arrivals(p, pc[p]) /\ Departures(p, m) = Departures(p, pc[p])
  PROVE  FencesOK'
<1>1. p \in Threads /\ \A q \in Nodes : q \in Threads
  BY Zenon, ThreadKinds
<1>2. pc'[p] = m /\ \A u \in Threads \ {p} : pc'[u] = pc[u]
  BY Zenon, <1>1, MoveEffect
<1>3. ASSUME NEW q \in Nodes
      PROVE  /\ Arrivals(q, pc'[q]) = Arrivals(q, pc[q])
             /\ Departures(q, pc'[q]) = Departures(q, pc[q])
  BY Zenon, <1>1, <1>2
<1>. QED
  BY Zenon, <1>3, FencesKeep DEF SpawnInv

\* The instructions of a program.
LEMMA ProgramRange ==
  ASSUME NEW p, NEW n \in 1 .. CleanupAt(p) + 1
  PROVE  n \in 1 .. 18 /\ n \in Nat
BY DEF CleanupAt

\* A step of program p between two fences.
LEMMA ProgramCalm ==
  ASSUME SpawnInv, NEW p \in Programs, NEW m \in 1 .. 18, pc' = [pc EXCEPT ![p] = m],
         Calm(p, pc[p], m),
         UNCHANGED <<next, round, tid, lock, synced, arrived, released, fence, told, panicked>>,
         NEW l \in -1 .. SPAWN_RING_LAST, level' = [level EXCEPT ![p] = l],
         NEW X \in SUBSET Servers, conn' = [conn EXCEPT ![p] = X],
         names' \in {names, names \cup {p}, names \ {p}}, ProgramOK(p)'
  PROVE  SpawnInv'
<1>1. pc[p] \in 1 .. 18
  BY Zenon, ProgramRange, SpawnParts DEF ProgramOK
<1>2. Arrivals(p, m) = Arrivals(p, pc[p]) /\ Departures(p, m) = Departures(p, pc[p])
  BY Zenon, <1>1, ProgramFences
<1>3. p \in Nodes /\ m \in Nat
  BY ThreadKinds
<1>4. FencesOK'
  BY Zenon, <1>2, <1>3, NodeFences
<1>5. /\ told' \in SUBSET Servers /\ fence' \in [Nodes -> Nat] /\ next' \in [Nodes -> Nat \ {0}]
      /\ \A s \in Servers : s \in told' => s \in told \/ \A q \in Nodes : fence[q] >= 4
      /\ \A q \in Nodes : fence[q] >= 4 => fence'[q] >= 4
      /\ \A q \in Spawners : next'[q] = next[q]
  BY Zenon DEF SpawnInv, SpawnTypes
<1>. QED
  BY Zenon, <1>3, <1>4, <1>5, ProgramFrame

\* A program that keeps its connections from n to m.
LEMMA ProgramMoves ==
  ASSUME SpawnInv, NEW p \in Programs, NEW m \in Nat, pc'[p] = m, conn'[p] = conn[p],
         level'[p] = level[p],
         \/ pc[p] < SetupAt(p) /\ 1 <= m /\ m <= SetupAt(p)
         \/ pc[p] > SetupAt(p) /\ pc[p] <= CleanupAt(p) /\ m > SetupAt(p) /\ m <= CleanupAt(p)
  PROVE  ProgramOK(p)'
<1>1. ProgramOK(p)
  BY Zenon, SpawnParts
<1>. QED
  BY <1>1 DEF ProgramOK, SetupAt, CleanupAt

\* The variables of program p.
LEMMA ProgramParts ==
  ASSUME SpawnInv, NEW p \in Programs
  PROVE  /\ p \in Nodes /\ p \in Threads /\ p \notin Spawners /\ pc[p] \in Nat /\ ProgramOK(p)
         /\ level[p] \in -1 .. SPAWN_RING_LAST /\ level = [level EXCEPT ![p] = level[p]]
         /\ conn[p] \in SUBSET Servers /\ conn = [conn EXCEPT ![p] = conn[p]]
         /\ Process[p] = p
<1>1. p \in Nodes /\ p \in Threads /\ p \notin Spawners
  BY Zenon, ThreadKinds
<1>2. level \in [Threads -> -1 .. SPAWN_RING_LAST] /\ conn \in [Nodes -> SUBSET Servers]
  BY Zenon DEF SpawnInv, SpawnTypes
<1>3. level = [level EXCEPT ![p] = level[p]] /\ conn = [conn EXCEPT ![p] = conn[p]]
  BY <1>1, <1>2
<1>4. level[p] \in -1 .. SPAWN_RING_LAST /\ conn[p] \in SUBSET Servers
  BY Zenon, <1>1, <1>2
<1>. QED
  BY Zenon, <1>1, <1>3, <1>4, SpawnParts

\* A step of p that changes only its program counter, and its name.
LEMMA ProgramGoes ==
  ASSUME SpawnInv, NEW p \in Programs, NEW m \in 1 .. 18, pc' = [pc EXCEPT ![p] = m],
         Calm(p, pc[p], m),
         pc[p] > SetupAt(p) /\ pc[p] <= CleanupAt(p) /\ m > SetupAt(p) /\ m <= CleanupAt(p),
         UNCHANGED <<next, round, level, tid, conn, lock, synced, arrived, released, fence, told,
                     panicked>>,
         names' \in {names, names \cup {p}, names \ {p}}
  PROVE  SpawnInv'
<1>1. /\ level[p] \in -1 .. SPAWN_RING_LAST /\ level' = [level EXCEPT ![p] = level[p]]
      /\ conn[p] \in SUBSET Servers /\ conn' = [conn EXCEPT ![p] = conn[p]]
  BY Zenon, ProgramParts
<1>2. m \in Nat /\ p \in Threads
  BY ThreadKinds
<1>3. pc'[p] = m
  BY Zenon, <1>2, MoveEffect
<1>4. ProgramOK(p)'
  BY <1>2, <1>3, ProgramMoves
<1>. QED
  BY Zenon, <1>1, <1>4, ProgramCalm

\* A program links its name ...
LEMMA ProgramLink ==
  ASSUME SpawnInv, NEW p \in Programs, LinkName(p)
  PROVE  SpawnInv'
<1>1. p # Test /\ pc[p] = 7
  <2>1. At(p, "link") /\ pc[p] \in Nat
    BY Zenon, ProgramParts DEF LinkName
  <2>. QED
    BY Zenon, <2>1, ProgramAt
<1>2. /\ pc' = [pc EXCEPT ![p] = pc[p] + 1] /\ names' \in {names, names \cup {p}, names \ {p}}
      /\ UNCHANGED <<next, round, level, tid, conn, lock, synced, arrived, released, fence, told,
                     panicked>>
  BY Zenon DEF LinkName, Advance, Jump
<1>3. pc' = [pc EXCEPT ![p] = 8]
  BY <1>1, <1>2
<1>4. /\ Calm(p, pc[p], 8) /\ 8 \in 1 .. 18
      /\ pc[p] > SetupAt(p) /\ pc[p] <= CleanupAt(p) /\ 8 > SetupAt(p) /\ 8 <= CleanupAt(p)
  BY <1>1 DEF Calm, SetupAt, CleanupAt
<1>. QED
  BY Zenon, <1>2, <1>3, <1>4, ProgramGoes

\* ... unlinks it ...
LEMMA ProgramUnlink ==
  ASSUME SpawnInv, NEW p \in Programs, UnlinkName(p)
  PROVE  SpawnInv'
<1>1. p # Test /\ pc[p] = 11
  <2>1. At(p, "unlink") /\ pc[p] \in Nat
    BY Zenon, ProgramParts DEF UnlinkName
  <2>. QED
    BY Zenon, <2>1, ProgramAt
<1>2. /\ pc' = [pc EXCEPT ![p] = pc[p] + 1] /\ names' \in {names, names \cup {p}, names \ {p}}
      /\ UNCHANGED <<next, round, level, tid, conn, lock, synced, arrived, released, fence, told,
                     panicked>>
  BY Zenon DEF UnlinkName, Advance, Jump
<1>3. pc' = [pc EXCEPT ![p] = 12]
  BY <1>1, <1>2
<1>4. /\ Calm(p, pc[p], 12) /\ 12 \in 1 .. 18
      /\ pc[p] > SetupAt(p) /\ pc[p] <= CleanupAt(p) /\ 12 > SetupAt(p) /\ 12 <= CleanupAt(p)
  BY <1>1 DEF Calm, SetupAt, CleanupAt
<1>. QED
  BY Zenon, <1>2, <1>3, <1>4, ProgramGoes

\* ... runs its main function ...
LEMMA ProgramMain ==
  ASSUME SpawnInv, NEW p \in Programs, Main(p)
  PROVE  SpawnInv'
<1>. DEFINE m == IF p = Test THEN 10 ELSE 11
<1>1. pc[p] = IF p = Test THEN 9 ELSE 10
  <2>1. At(p, "main") /\ pc[p] \in Nat
    BY Zenon, ProgramParts DEF Main
  <2>. QED
    BY Zenon, <2>1, ProgramAt
<1>2. /\ pc' = [pc EXCEPT ![p] = pc[p] + 1] /\ names' \in {names, names \cup {p}, names \ {p}}
      /\ UNCHANGED <<next, round, level, tid, conn, lock, synced, arrived, released, fence, told,
                     panicked>>
  BY Zenon DEF Main, Advance, Jump
<1>3. pc' = [pc EXCEPT ![p] = m]
  BY <1>1, <1>2
<1>4. /\ Calm(p, pc[p], m) /\ m \in 1 .. 18
      /\ pc[p] > SetupAt(p) /\ pc[p] <= CleanupAt(p) /\ m > SetupAt(p) /\ m <= CleanupAt(p)
  BY <1>1 DEF Calm, SetupAt, CleanupAt
<1>. QED
  BY Zenon, <1>2, <1>3, <1>4, ProgramGoes

\* ... and comes to the shutdown, which one program goes on with.
LEMMA ProgramShutdown ==
  ASSUME SpawnInv, NEW p \in Programs, nanvix_shutdown(p) \/ ExitsDone(p)
  PROVE  SpawnInv'
<1>1. /\ pc' = [pc EXCEPT ![p] = pc[p] + 1] \/ pc' = [pc EXCEPT ![p] = pc[p] + 3]
      /\ At(p, "exit") => pc' = [pc EXCEPT ![p] = pc[p] + 1]
      /\ At(p, "shutdown") \/ At(p, "exit")
      /\ names' \in {names, names \cup {p}, names \ {p}}
      /\ UNCHANGED <<next, round, level, tid, conn, lock, synced, arrived, released, fence, told,
                     panicked>>
  <2>0. ~(At(p, "shutdown") /\ At(p, "exit"))
    BY DEF At
  <2>. QED
    BY Zenon, <2>0 DEF nanvix_shutdown, ExitsDone, Advance, Jump
<1>2. /\ At(p, "shutdown") => pc[p] = (IF p = Test THEN 12 ELSE 14)
      /\ At(p, "exit") => pc[p] = (IF p = Test THEN 14 ELSE 16)
  BY Zenon, ProgramAt, ProgramParts
<1>3. PICK m \in 1 .. 18 :
        /\ pc' = [pc EXCEPT ![p] = m]
        /\ Calm(p, pc[p], m)
        /\ pc[p] > SetupAt(p) /\ pc[p] <= CleanupAt(p) /\ m > SetupAt(p) /\ m <= CleanupAt(p)
  <2>1. CASE At(p, "shutdown") /\ pc' = [pc EXCEPT ![p] = pc[p] + 1]
    <3>1. /\ pc[p] + 1 \in 1 .. 18
          /\ Calm(p, pc[p], pc[p] + 1)
          /\ pc[p] > SetupAt(p) /\ pc[p] <= CleanupAt(p)
          /\ pc[p] + 1 > SetupAt(p) /\ pc[p] + 1 <= CleanupAt(p)
      BY <1>2, <2>1 DEF Calm, SetupAt, CleanupAt
    <3>. QED
      BY Zenon, <1>1, <2>1, <3>1
  <2>2. CASE At(p, "shutdown") /\ pc' = [pc EXCEPT ![p] = pc[p] + 3]
    <3>1. /\ pc[p] + 3 \in 1 .. 18
          /\ Calm(p, pc[p], pc[p] + 3)
          /\ pc[p] > SetupAt(p) /\ pc[p] <= CleanupAt(p)
          /\ pc[p] + 3 > SetupAt(p) /\ pc[p] + 3 <= CleanupAt(p)
      BY <1>2, <2>2 DEF Calm, SetupAt, CleanupAt
    <3>. QED
      BY Zenon, <1>1, <2>2, <3>1
  <2>3. CASE At(p, "exit")
    <3>1. /\ pc[p] + 1 \in 1 .. 18
          /\ Calm(p, pc[p], pc[p] + 1)
          /\ pc[p] > SetupAt(p) /\ pc[p] <= CleanupAt(p)
          /\ pc[p] + 1 > SetupAt(p) /\ pc[p] + 1 <= CleanupAt(p)
      BY <1>2, <2>3 DEF Calm, SetupAt, CleanupAt
    <3>. QED
      BY Zenon, <1>1, <2>3, <3>1
  <2>. QED
    BY Zenon, <1>1, <2>1, <2>2, <2>3
<1>. QED
  BY Zenon, <1>1, <1>3, ProgramGoes

\* A program connects to the services.
LEMMA ProgramConnect ==
  ASSUME SpawnInv, NEW p \in Programs, Connect(p)
  PROVE  SpawnInv'
<1>1. /\ p \in Threads /\ pc[p] \in Nat /\ ProgramOK(p) /\ Process[p] = p
      /\ conn[p] \in SUBSET Servers
      /\ level[p] \in -1 .. SPAWN_RING_LAST /\ level = [level EXCEPT ![p] = level[p]]
  BY Zenon, ProgramParts
<1>2. PICK s \in Servers : conn' = [conn EXCEPT ![p] = conn[p] \cup {s}]
  BY Zenon, <1>1, ConnectEffect
<1>3. /\ UNCHANGED <<pc, next, round, level, tid, names, lock, synced, arrived, released, fence,
                     told, panicked>>
      /\ At(p, "setup_last")
  BY Zenon, <1>1, ConnectEffect
<1>4. pc[p] \in (IF p = Test THEN {8, 13} ELSE {6, 15})
  BY Zenon, <1>1, <1>3, ProgramAt
<1>5. pc \in [Threads -> Nat] /\ conn \in [Nodes -> SUBSET Servers] /\ p \in Nodes
  BY Zenon, SpawnParts, ThreadKinds
<1>6. pc' = [pc EXCEPT ![p] = pc[p]] /\ pc[p] \in 1 .. 18
  BY <1>1, <1>3, <1>4, <1>5
<1>7. conn[p] \cup {s} \in SUBSET Servers /\ conn'[p] = conn[p] \cup {s}
  BY Zenon, <1>1, <1>2, <1>5
<1>8. ProgramOK(p)'
  <2>1. conn[p] = Servers => conn'[p] = Servers
    BY Zenon, <1>7
  <2>2. pc'[p] = pc[p] /\ level'[p] = level[p]
    BY Zenon, <1>3
  <2>3. ~(pc[p] < SetupAt(p)) /\ ~(pc[p] > CleanupAt(p))
    BY <1>4 DEF SetupAt, CleanupAt
  <2>. QED
    BY Zenon, <1>1, <2>1, <2>2, <2>3 DEF ProgramOK
<1>9. Calm(p, pc[p], pc[p])
  BY <1>4 DEF Calm
<1>. QED
  BY Zenon, <1>1, <1>2, <1>3, <1>6, <1>7, <1>8, <1>9, ProgramCalm

\* When the setup of the last ring ends, all services are connected.
LEMMA AllConnected ==
  ASSUME SpawnInv, NEW p \in Programs, At(p, "setup_last"), level[p] < 1, Missing(p) = {}
  PROVE  conn[p] = Servers
<1>1. Process[p] = p /\ conn[p] \in SUBSET Servers /\ level[p] \in -1 .. SPAWN_RING_LAST
  BY Zenon, ProgramParts
<1>2. Wanted(p) = 5
  BY Zenon DEF Wanted, SPAWN_RING_LAST
<1>3. ASSUME NEW i \in DOMAIN Services PROVE Services[i] \in conn[p]
  <2>1. Services[i] \in Servers
    BY Zenon DEF Servers
  <2>2. level[p] < OpensIn[Services[i]] /\ OpensIn[Services[i]] <= Wanted(p)
    BY <1>1, <1>2, <2>1, RingOf DEF SPAWN_RING_LAST
  <2>. QED
    BY Zenon, <1>1, <2>2 DEF Missing
<1>4. \A s \in Servers : s \in conn[p]
  BY Zenon, <1>3 DEF Servers
<1>. QED
  BY Zenon, <1>1, <1>4

\* A program ends its setup.
LEMMA ProgramSetup ==
  ASSUME SpawnInv, NEW p \in Programs, SetupDone(p)
  PROVE  SpawnInv'
<1>. DEFINE w == IF level[p] > Wanted(p) THEN level[p] ELSE Wanted(p)
<1>1. /\ p \in Nodes /\ p \in Threads /\ pc[p] \in Nat /\ ProgramOK(p)
      /\ conn[p] \in SUBSET Servers /\ conn = [conn EXCEPT ![p] = conn[p]]
      /\ level[p] \in -1 .. SPAWN_RING_LAST
  BY Zenon, ProgramParts
<1>2. /\ InSetup(p) /\ Missing(p) = {} /\ pc' = [pc EXCEPT ![p] = pc[p] + 1]
      /\ level' = [level EXCEPT ![p] = w]
      /\ UNCHANGED <<next, round, tid, conn, names, lock, synced, arrived, released, fence, told,
                     panicked>>
  BY Zenon DEF SetupDone, Advance, Jump
<1>3. \/ pc[p] = 1 /\ Wanted(p) = 0
      \/ At(p, "setup_last") /\ Wanted(p) = 5
  BY Zenon, <1>1, <1>2, WantedRing
<1>4. w \in -1 .. SPAWN_RING_LAST /\ (Wanted(p) = 5 => w = 5)
  BY <1>1, <1>3 DEF SPAWN_RING_LAST
<1>5. level'[p] = w /\ conn'[p] = conn[p]
  <2>1. level \in [Threads -> -1 .. SPAWN_RING_LAST]
    BY Zenon DEF SpawnInv, SpawnTypes
  <2>. QED
    BY Zenon, <1>1, <1>2, <2>1
<1>6. At(p, "setup_last") => pc[p] \in (IF p = Test THEN {8, 13} ELSE {6, 15})
  BY Zenon, <1>1, ProgramAt
<1>7. pc[p] + 1 \in 1 .. 18 /\ pc[p] + 1 \in Nat
  BY <1>1, <1>3, <1>6
<1>8. pc'[p] = pc[p] + 1
  BY Zenon, <1>1, <1>2, <1>7, MoveEffect
<1>9. ProgramOK(p)'
  <2>1. CASE pc[p] = 1 /\ Wanted(p) = 0
    <3>1. level[p] < 1 /\ conn[p] = {}
      BY <1>1, <2>1 DEF ProgramOK, SetupAt
    <3>2. w < 1 /\ pc'[p] = 2
      BY <1>1, <1>8, <2>1, <3>1 DEF SPAWN_RING_LAST
    <3>. HIDE DEF w
    <3>. QED
      BY <1>5, <3>1, <3>2 DEF ProgramOK, SetupAt, CleanupAt
  <2>2. CASE At(p, "setup_last") /\ Wanted(p) = 5
    <3>1. conn[p] = Servers
      <4>1. CASE pc[p] <= SetupAt(p)
        <5>1. level[p] < 1
          BY Zenon, <1>1, <4>1 DEF ProgramOK
        <5>. QED
          BY Zenon, <1>2, <2>2, <5>1, AllConnected
      <4>2. CASE ~(pc[p] <= SetupAt(p))
        <5>1. pc[p] > SetupAt(p) /\ pc[p] <= CleanupAt(p)
          BY <1>6, <2>2, <4>2 DEF SetupAt, CleanupAt
        <5>. QED
          BY Zenon, <1>1, <5>1 DEF ProgramOK
      <4>. QED
        BY Zenon, <4>1, <4>2
    <3>2. pc'[p] > SetupAt(p) /\ pc'[p] <= CleanupAt(p) /\ pc'[p] \in 1 .. CleanupAt(p) + 1
      BY <1>6, <1>8, <2>2 DEF SetupAt, CleanupAt
    <3>3. ~(pc'[p] <= SetupAt(p)) /\ ~(pc'[p] < SetupAt(p)) /\ ~(pc'[p] > CleanupAt(p))
      BY <1>6, <1>8, <2>2 DEF SetupAt, CleanupAt
    <3>4. level'[p] = SPAWN_RING_LAST /\ conn'[p] = Servers
      BY <1>4, <1>5, <2>2, <3>1 DEF SPAWN_RING_LAST
    <3>. QED
      BY Zenon, <3>2, <3>3, <3>4 DEF ProgramOK
  <2>. QED
    BY Zenon, <1>3, <2>1, <2>2
<1>a. Calm(p, pc[p], pc[p] + 1)
  BY <1>3, <1>6 DEF Calm
<1>. HIDE DEF w
<1>. QED
  BY Zenon, <1>1, <1>2, <1>4, <1>7, <1>9, <1>a, ProgramCalm

\* A program cleans the runtime up.
LEMMA ProgramCleanup ==
  ASSUME SpawnInv, NEW p \in Programs, Cleanup(p)
  PROVE  SpawnInv'
<1>. DEFINE X == {s \in conn[p] : OpensIn[s] > level[p]}
<1>1. /\ p \in Nodes /\ p \in Threads /\ pc[p] \in Nat /\ ProgramOK(p) /\ Process[p] = p
      /\ conn[p] \in SUBSET Servers
  BY Zenon, ProgramParts
<1>2. /\ At(p, "cleanup") /\ pc' = [pc EXCEPT ![p] = pc[p] + 1]
      /\ conn' = [conn EXCEPT ![p] = X] /\ level' = [level EXCEPT ![p] = -1]
      /\ UNCHANGED <<next, round, tid, names, lock, synced, arrived, released, fence, told, panicked>>
  BY Zenon, <1>1 DEF Cleanup, Advance, Jump
<1>3. pc[p] = CleanupAt(p) /\ CleanupAt(p) \in {15, 17}
  BY Zenon, <1>1, <1>2, ProgramAt DEF CleanupAt
<1>4. pc[p] + 1 \in 1 .. 18 /\ pc[p] + 1 \in Nat /\ -1 \in -1 .. SPAWN_RING_LAST
  BY <1>3 DEF SPAWN_RING_LAST
<1>5. X = {}
  <2>1. pc[p] > SetupAt(p) /\ pc[p] <= CleanupAt(p)
    BY <1>3 DEF CleanupAt, SetupAt
  <2>2. level[p] = 5
    BY Zenon, <1>1, <2>1 DEF ProgramOK, SPAWN_RING_LAST
  <2>. QED
    BY <1>1, <2>2, RingOf
<1>6. pc'[p] = pc[p] + 1 /\ conn'[p] = {} /\ X \in SUBSET Servers
  BY Zenon, <1>1, <1>2, <1>4, <1>5, MoveEffect, SpawnParts
<1>7. ProgramOK(p)'
  <2>1. /\ pc'[p] \in 1 .. CleanupAt(p) + 1 /\ ~(pc'[p] <= SetupAt(p)) /\ ~(pc'[p] < SetupAt(p))
        /\ ~(pc'[p] <= CleanupAt(p))
    BY <1>3, <1>6 DEF CleanupAt, SetupAt
  <2>. QED
    BY Zenon, <1>6, <2>1 DEF ProgramOK
<1>8. Calm(p, pc[p], pc[p] + 1)
  BY <1>3 DEF CleanupAt, Calm
<1>. HIDE DEF X
<1>. QED
  BY Zenon, <1>2, <1>4, <1>6, <1>7, <1>8, ProgramCalm

\* The instructions of stdsync_fence().
ArriveAt(p) ==
  IF p \in Spawners THEN {3, 9, 11, 13} ELSE IF p = Test THEN {2, 4, 6, 10} ELSE {2, 4, 8, 12}
LeaveAt(p) ==
  IF p \in Spawners THEN {4, 10, 12, 14} ELSE IF p = Test THEN {3, 5, 7, 11} ELSE {3, 5, 9, 13}

\* They count the fences.
LEMMA FenceCounts ==
  ASSUME NEW p \in Nodes, NEW n \in Nat
  PROVE  /\ n \in ArriveAt(p) => /\ Arrivals(p, n + 1) = Arrivals(p, n) + 1
                                 /\ Departures(p, n + 1) = Departures(p, n)
         /\ n \in LeaveAt(p) => /\ Arrivals(p, n + 1) = Arrivals(p, n)
                                /\ Departures(p, n + 1) = Arrivals(p, n)
<1>1. CASE p \in Spawners
  BY <1>1 DEF ArriveAt, LeaveAt, Arrivals, Departures
<1>2. CASE p \notin Spawners /\ p = Test
  BY <1>2 DEF ArriveAt, LeaveAt, Arrivals, Departures
<1>3. CASE p \notin Spawners /\ p # Test
  BY <1>3 DEF ArriveAt, LeaveAt, Arrivals, Departures
<1>. QED
  BY Zenon, <1>1, <1>2, <1>3

\* Where a process is when it is at a fence.
LEMMA FenceAt ==
  ASSUME SpawnInv, NEW p \in Nodes
  PROVE  /\ pc[p] \in Nat
         /\ At(p, "arrive") => pc[p] \in ArriveAt(p)
         /\ At(p, "leave") => pc[p] \in LeaveAt(p)
<1>1. pc[p] \in Nat
  BY Zenon, SpawnParts, ThreadKinds
<1>2. CASE p \in Spawners
  BY Zenon, <1>1, <1>2, SpawnerAt DEF ArriveAt, LeaveAt
<1>3. CASE p \in Programs
  <2>1. p \notin Spawners
    BY Zenon, <1>3, ThreadKinds
  <2>. QED
    BY Zenon, <1>1, <1>3, <2>1, ProgramAt DEF ArriveAt, LeaveAt
<1>. QED
  BY Zenon, <1>1, <1>2, <1>3, ThreadKinds

\* Process p arrives at a fence.
LEMMA ArriveFences ==
  ASSUME SpawnInv, NEW p \in Nodes, Arrive(p)
  PROVE  /\ FencesOK' /\ fence' \in [Nodes -> Nat]
         /\ \A q \in Nodes : fence[q] >= 4 => fence'[q] >= 4
<1>1. pc[p] \in Nat /\ pc[p] \in ArriveAt(p) /\ pc[p] + 1 \in Nat /\ p \in Threads
  <2>1. pc[p] \in Nat /\ pc[p] \in ArriveAt(p) /\ p \in Threads
    BY Zenon, FenceAt, ThreadKinds DEF Arrive
  <2>. QED
    BY <2>1
<1>2. pc' = [pc EXCEPT ![p] = pc[p] + 1] /\ fence' = [fence EXCEPT ![p] = fence[p] + 1]
  BY Zenon DEF Arrive, Advance, Jump
<1>3. pc'[p] = pc[p] + 1 /\ \A u \in Threads \ {p} : pc'[u] = pc[u]
  BY Zenon, <1>1, <1>2, MoveEffect
<1>4. /\ Arrivals(p, pc[p] + 1) = Arrivals(p, pc[p]) + 1
      /\ Departures(p, pc[p] + 1) = Departures(p, pc[p])
  BY Zenon, <1>1, FenceCounts
<1>5. fence \in [Nodes -> Nat] /\ FencesOK
  BY Zenon DEF SpawnInv, SpawnTypes
<1>6. \A q \in Nodes : fence'[q] \in Nat /\ fence[q] \in Nat /\ fence'[q] >= fence[q]
  BY <1>2, <1>5
<1>7. fence'[p] = fence[p] + 1 /\ \A q \in Nodes \ {p} : fence'[q] = fence[q]
  BY Zenon, <1>2, <1>5
<1>8. ASSUME NEW q \in Nodes
      PROVE  fence'[q] = Arrivals(q, pc'[q]) /\ Departures(q, pc'[q]) = Departures(q, pc[q])
  <2>1. CASE q = p
    BY <1>3, <1>4, <1>5, <1>7, <2>1 DEF FencesOK
  <2>2. CASE q # p
    BY Zenon, <1>3, <1>5, <1>7, <2>2, ThreadKinds DEF FencesOK
  <2>. QED
    BY Zenon, <2>1, <2>2
<1>9. ASSUME NEW q \in Nodes, NEW r \in Nodes PROVE fence'[r] >= Departures(q, pc'[q])
  <2>1. Departures(q, pc'[q]) = Departures(q, pc[q]) /\ fence[r] >= Departures(q, pc[q])
    BY Zenon, <1>5, <1>8 DEF FencesOK
  <2>2. Departures(q, pc[q]) \in Nat
    <3>1. pc[q] \in Nat
      BY Zenon, FenceAt
    <3>. QED
      BY <3>1, FenceNumbers
  <2>3. fence'[r] \in Nat /\ fence[r] \in Nat /\ fence'[r] >= fence[r]
    BY Zenon, <1>6
  <2>. QED
    BY <2>1, <2>2, <2>3
<1>a. FencesOK'
  BY Zenon, <1>8, <1>9 DEF FencesOK
<1>b. fence' \in [Nodes -> Nat]
  BY <1>2, <1>5
<1>. QED
  BY <1>6, <1>a, <1>b

\* Process p leaves a fence.
LEMMA DepartFences ==
  ASSUME SpawnInv, NEW p \in Nodes, Depart(p)
  PROVE  FencesOK'
<1>1. pc[p] \in Nat /\ pc[p] \in LeaveAt(p) /\ pc[p] + 1 \in Nat /\ p \in Threads
  <2>1. pc[p] \in Nat /\ pc[p] \in LeaveAt(p) /\ p \in Threads
    BY Zenon, FenceAt, ThreadKinds DEF Depart
  <2>. QED
    BY <2>1
<1>2. /\ pc' = [pc EXCEPT ![p] = pc[p] + 1] /\ fence' = fence
      /\ \A q \in Nodes : fence[q] >= fence[p]
  BY Zenon DEF Depart, Advance, Jump
<1>3. pc'[p] = pc[p] + 1 /\ \A u \in Threads \ {p} : pc'[u] = pc[u]
  BY Zenon, <1>1, <1>2, MoveEffect
<1>4. /\ Arrivals(p, pc[p] + 1) = Arrivals(p, pc[p])
      /\ Departures(p, pc[p] + 1) = Arrivals(p, pc[p])
  BY Zenon, <1>1, FenceCounts
<1>5. FencesOK
  BY Zenon DEF SpawnInv
<1>6. ASSUME NEW q \in Nodes
      PROVE  fence'[q] = Arrivals(q, pc'[q]) /\ \A r \in Nodes : fence'[r] >= Departures(q, pc'[q])
  <2>1. CASE q = p
    <3>1. fence[p] = Arrivals(p, pc[p])
      BY Zenon, <1>5 DEF FencesOK
    <3>2. \A r \in Nodes : fence'[r] >= Departures(p, pc'[p])
      BY Zenon, <1>2, <1>3, <1>4, <3>1
    <3>. QED
      BY Zenon, <1>2, <1>3, <1>4, <2>1, <3>1, <3>2
  <2>2. CASE q # p
    BY Zenon, <1>2, <1>3, <1>5, <2>2, ThreadKinds DEF FencesOK
  <2>. QED
    BY Zenon, <2>1, <2>2
<1>. QED
  BY Zenon, <1>6 DEF FencesOK

\* A program at a fence.
LEMMA ProgramFence ==
  ASSUME SpawnInv, NEW p \in Programs, FenceStep(p)
  PROVE  SpawnInv'
<1>1. /\ p \in Nodes /\ p \in Threads /\ p \notin Spawners /\ pc[p] \in Nat
      /\ level[p] \in -1 .. SPAWN_RING_LAST /\ level = [level EXCEPT ![p] = level[p]]
      /\ conn[p] \in SUBSET Servers /\ conn = [conn EXCEPT ![p] = conn[p]]
  BY Zenon, ProgramParts
<1>2. /\ pc' = [pc EXCEPT ![p] = pc[p] + 1]
      /\ UNCHANGED <<next, round, level, tid, conn, names, lock, synced, arrived, released, told,
                     panicked>>
  BY Zenon DEF FenceStep, Arrive, Depart, Advance, Jump
<1>3. pc[p] \in ArriveAt(p) \/ pc[p] \in LeaveAt(p)
  BY Zenon, <1>1, FenceAt DEF FenceStep, Arrive, Depart
<1>4. pc[p] + 1 \in Nat
  BY <1>1
<1>5. /\ FencesOK' /\ fence' \in [Nodes -> Nat]
      /\ \A q \in Nodes : fence[q] >= 4 => fence'[q] >= 4
  <2>1. CASE Arrive(p)
    BY Zenon, <1>1, <2>1, ArriveFences
  <2>2. CASE Depart(p)
    <3>1. FencesOK' /\ fence' = fence
      BY Zenon, <1>1, <2>2, DepartFences DEF Depart
    <3>. QED
      BY Zenon, <3>1, SpawnParts
  <2>. QED
    BY Zenon, <2>1, <2>2 DEF FenceStep
<1>6. pc'[p] = pc[p] + 1
  BY Zenon, <1>1, <1>2, <1>4, MoveEffect
<1>7. \/ pc[p] < SetupAt(p) /\ 1 <= pc[p] + 1 /\ pc[p] + 1 <= SetupAt(p)
      \/ pc[p] > SetupAt(p) /\ pc[p] <= CleanupAt(p)
         /\ pc[p] + 1 > SetupAt(p) /\ pc[p] + 1 <= CleanupAt(p)
  BY <1>1, <1>3 DEF ArriveAt, LeaveAt, SetupAt, CleanupAt
<1>8. ProgramOK(p)'
  BY Zenon, <1>2, <1>4, <1>6, <1>7, ProgramMoves
<1>9. /\ told' \in SUBSET Servers /\ next' \in [Nodes -> Nat \ {0}]
      /\ \A s \in Servers : s \in told' => s \in told \/ \A q \in Nodes : fence[q] >= 4
      /\ \A q \in Spawners : next'[q] = next[q]
      /\ names' \in {names, names \cup {p}, names \ {p}}
  BY Zenon, <1>2 DEF SpawnInv, SpawnTypes
<1>. QED
  BY Zenon, <1>1, <1>2, <1>4, <1>5, <1>8, <1>9, ProgramFrame

\* The shutdown has a connection with every server that it tells to exit.
LEMMA ProgramExit ==
  ASSUME SpawnInv, NEW p \in Programs, Exit(p)
  PROVE  SpawnInv'
<1>. DEFINE s == Exits[next[p]]
<1>1. /\ p \in Nodes /\ p \in Threads /\ p \notin Spawners /\ pc[p] \in Nat /\ ProgramOK(p)
      /\ level[p] \in -1 .. SPAWN_RING_LAST /\ level = [level EXCEPT ![p] = level[p]]
      /\ conn[p] \in SUBSET Servers /\ conn = [conn EXCEPT ![p] = conn[p]]
  BY Zenon, ProgramParts
<1>2. At(p, "exit") /\ next[p] <= Len(Exits)
  BY Zenon DEF Exit, ExitsLeft
<1>3. pc[p] = IF p = Test THEN 14 ELSE 16
  BY Zenon, <1>1, <1>2, ProgramAt
<1>4. conn[p] = Servers
  <2>1. pc[p] > SetupAt(p) /\ pc[p] <= CleanupAt(p)
    BY <1>3 DEF SetupAt, CleanupAt
  <2>. QED
    BY Zenon, <1>1, <2>1 DEF ProgramOK
<1>5. next \in [Nodes -> Nat \ {0}] /\ next[p] \in Nat \ {0}
  BY Zenon, <1>1, SpawnParts
<1>6. s \in Servers
  <2>1. Exits \in Seq(Servers)
    BY Zenon, SpawnAssumption
  <2>. QED
    BY <1>2, <1>5, <2>1
<1>. HIDE DEF s
<1>7. /\ told' = told \cup {s} /\ next' = [next EXCEPT ![p] = next[p] + 1]
      /\ UNCHANGED <<pc, round, level, tid, conn, names, lock, synced, arrived, released, fence,
                     panicked>>
  BY Zenon, <1>4, <1>6 DEF Exit, s
<1>8. next' \in [Nodes -> Nat \ {0}] /\ \A q \in Spawners : next'[q] = next[q]
  <2>1. next[p] + 1 \in Nat \ {0}
    BY <1>5
  <2>2. \A q \in Spawners : q \in Nodes /\ q # p
    BY Zenon, ThreadKinds
  <2>. QED
    BY Zenon, <1>5, <1>7, <2>1, <2>2
<1>9. ASSUME NEW q \in Nodes PROVE fence[q] >= 4
  <2>1. Departures(p, pc[p]) = 4
    BY <1>1, <1>3 DEF Departures
  <2>2. fence[q] >= Departures(p, pc[p])
    BY Zenon, <1>1 DEF SpawnInv, FencesOK
  <2>. QED
    BY Zenon, <2>1, <2>2
<1>a. FencesOK' /\ pc' = [pc EXCEPT ![p] = pc[p]]
  <2>1. FencesOK'
    BY Zenon, <1>7, FencesKeep DEF SpawnInv
  <2>2. pc \in [Threads -> Nat]
    BY Zenon, SpawnParts
  <2>. QED
    BY <1>1, <1>7, <2>1, <2>2
<1>b. ProgramOK(p)'
  BY Zenon, <1>1, <1>7, ProgramKeeps
<1>c. /\ told' \in SUBSET Servers /\ fence' \in [Nodes -> Nat]
      /\ \A r \in Servers : r \in told' => r \in told \/ \A q \in Nodes : fence[q] >= 4
      /\ \A q \in Nodes : fence[q] >= 4 => fence'[q] >= 4
      /\ names' \in {names, names \cup {p}, names \ {p}}
  BY Zenon, <1>6, <1>7, <1>9 DEF SpawnInv, SpawnTypes
<1>. QED
  BY Zenon, <1>1, <1>7, <1>8, <1>a, <1>b, <1>c, ProgramFrame

-----------------------------------------------------------------------------
(***************************************************************************)
(* The steps of spawners.                                                  *)
(***************************************************************************)

\* The arithmetic of the stages: one instruction to the next ...
LEMMA StageNext ==
  ASSUME NEW n, NEW r, NEW x, NEW l \in Nat, Stage(n, r, x, l), n \notin {5, 6, 8, 17, 20}
  PROVE  /\ Stage(n + 1, r, x, l) /\ n + 1 \in Nat /\ n + 1 # 6
         /\ n \in {7, 16} => HalfOf(n + 1, r) = r + 1
         /\ n \notin {7, 16} => HalfOf(n + 1, r) = r
BY DEF Stage, HalfOf

\* ... a server of the ring at place k, or none ...
LEMMA StageCreate ==
  ASSUME NEW r, NEW x, NEW l \in Nat, Stage(5, r, x, l)
  PROVE  /\ Stage(7, r, l + 1, l) /\ HalfOf(7, r) = HalfOf(5, r) /\ HalfOf(6, r) = HalfOf(5, r)
         /\ \A k \in 1 .. l : Stage(6, r, k + 1, l)
BY DEF Stage, HalfOf

\* ... back to the head of the loop ...
LEMMA StageDown ==
  ASSUME NEW r, NEW x, NEW l \in Nat, Stage(6, r, x, l)
  PROVE  Stage(5, r, x, l) /\ HalfOf(5, r) = HalfOf(6, r)
BY DEF Stage, HalfOf

\* ... the next ring, or the end of the loop over the rings ...
LEMMA StagePassed ==
  ASSUME NEW n \in {8, 17}, NEW r, NEW x, NEW l \in Nat, Stage(n, r, x, l)
  PROVE  LET m == n + (IF r < 5 THEN -3 ELSE 1) IN
         /\ Stage(m, r + 1, 1, l) /\ HalfOf(m, r + 1) = HalfOf(n, r) /\ m \in {5, 9, 18}
         /\ r \in Nat /\ HalfOf(n, r) = r + 1 /\ (n = 8 => m \in 5 .. 9) /\ (n = 17 => m = 18)
         /\ m \in Nat /\ m # 6 /\ n # 6 /\ m \in 3 .. 18 /\ n \in 3 .. 18 /\ n \in 1 .. 20
         /\ m \in 1 .. 20 /\ r + 1 \in Nat /\ 1 \in Nat \ {0}
BY DEF Stage, HalfOf

\* No fence is between the two instructions.
LEMMA PassedStretch ==
  ASSUME NEW n \in {8, 17}, NEW r, NEW x, NEW l \in Nat, Stage(n, r, x, l)
  PROVE  LET m == n + (IF r < 5 THEN -3 ELSE 1) IN
         (n \in 5 .. 9 /\ m \in 5 .. 9) \/ (n >= 15 /\ m >= 15)
BY DEF Stage

\* ... and the loop over the threads to join.
LEMMA StageJoin ==
  ASSUME NEW r, NEW x, NEW l \in Nat, Stage(15, r, x, l), x \in 1 .. l
  PROVE  Stage(15, r, x + 1, l)
BY DEF Stage

\* The servers that are created do not change at the barrier ...
LEMMA MadePassed ==
  ASSUME NEW n \in {8, 17}, NEW r, NEW x, NEW l \in Nat, Stage(n, r, x, l),
         NEW g \in 0 .. 5, NEW k \in 1 .. l
  PROVE  Made(g, k, r + 1, 1) <=> Made(g, k, r, x)
BY DEF Stage, Made

\* ... nor when the spawner joins them ...
LEMMA MadeJoin ==
  ASSUME NEW r, NEW x, NEW l \in Nat, Stage(15, r, x, l), NEW g \in 0 .. 5, NEW k \in 1 .. l
  PROVE  Made(g, k, r, x + 1) <=> Made(g, k, r, x)
BY DEF Stage, Made

\* ... nor when the loop over the table is done with a ring.
LEMMA MadeRingDone ==
  ASSUME NEW r, NEW x, NEW l \in Nat, Stage(5, r, x, l), NEW g \in 0 .. 5, NEW k \in 1 .. l,
         g = r => ~(k >= x)
  PROVE  Made(g, k, r, l + 1) <=> Made(g, k, r, x)
BY DEF Stage, Made

\* The half rounds of spawner p.
LEMMA HalfIs ==
  ASSUME SpawnInv, NEW p \in Spawners
  PROVE  /\ Half(p) \in Nat /\ round[p] \in Nat /\ pc[p] \in Nat /\ Half(p) = HalfOf(pc[p], round[p])
         /\ Half(p) = IF pc[p] \in {8, 17} THEN round[p] + 1 ELSE round[p]
         /\ Len(Table[p]) \in Nat /\ Stage(pc[p], round[p], next[p], Len(Table[p]))
<1>1. /\ round[p] \in Nat /\ pc[p] \in Nat /\ SpawnerOK(p) /\ Len(Table[p]) \in Nat
  BY Zenon, SpawnParts, ThreadKinds, TableDomain
<1>2. Half(p) = IF pc[p] \in {8, 17} THEN round[p] + 1 ELSE round[p]
  BY Zenon DEF Half, HalfOf
<1>3. Half(p) \in Nat
  BY <1>1, <1>2
<1>. QED
  BY Zenon, <1>1, <1>2, <1>3 DEF SpawnerOK, Half

\* A spawner that is past the first fence has a peer with its end of the
\* barrier, until the peer has passed the last round.
LEMMA SyncedPeer ==
  ASSUME SpawnInv, NEW p \in Spawners, NEW q \in Spawners, pc[p] >= 5, round[q] <= 6
  PROVE  q \in synced
<1>1. /\ p \in Nodes /\ q \in Nodes /\ pc[p] \in Nat /\ pc[q] \in Nat /\ SpawnerOK(q)
      /\ Stage(pc[q], round[q], next[q], Len(Table[q])) /\ Len(Table[q]) \in Nat
  BY Zenon, HalfIs, SpawnParts, ThreadKinds
<1>2. fence[q] = Arrivals(q, pc[q]) /\ fence[q] >= Departures(p, pc[p])
  BY Zenon, <1>1 DEF SpawnInv, FencesOK
<1>3. \A n \in Nat : n >= 5 => Departures(p, n) \in Nat /\ Departures(p, n) >= 1
  BY DEF Departures
<1>4. Departures(p, pc[p]) \in Nat /\ Departures(p, pc[p]) >= 1
  BY Zenon, <1>1, <1>3
<1>5. \A n \in Nat, d \in Nat : d >= 1 /\ Arrivals(q, n) >= d => n >= 4
  BY DEF Arrivals
<1>6. pc[q] >= 4
  BY Zenon, <1>1, <1>2, <1>4, <1>5
<1>7. \A n, r, x : \A l \in Nat : Stage(n, r, x, l) /\ r <= 6 /\ n >= 4 => n \in 3 .. 18
  BY DEF Stage
<1>8. pc[q] \in 3 .. 18
  BY Zenon, <1>1, <1>6, <1>7
<1>. QED
  BY Zenon, <1>1, <1>8 DEF SpawnerOK

\* A step of spawner p does not concern the programs or the other spawners.
LEMMA SpawnerFrame ==
  ASSUME SpawnInv, NEW p \in Spawners, NEW n \in Nat, pc' = [pc EXCEPT ![p] = n],
         UNCHANGED <<tid, names, told, panicked>>,
         next' \in [Nodes -> Nat \ {0}], \A q \in Spawners \ {p} : next'[q] = next[q],
         round' \in [Spawners -> Nat], \A q \in Spawners \ {p} : round'[q] = round[q],
         lock' \in [Spawners -> Nat], \A q \in Spawners \ {p} : lock'[q] = lock[q],
         synced' \in SUBSET Spawners, \A q \in Spawners \ {p} : q \in synced' <=> q \in synced,
         arrived' \in SUBSET Followers, released' \in SUBSET Followers,
         level' \in [Threads -> -1 .. SPAWN_RING_LAST], \A q \in Programs : level'[q] = level[q],
         conn' \in [Nodes -> SUBSET Servers], \A q \in Programs : conn'[q] = conn[q],
         fence' \in [Nodes -> Nat], \A q \in Nodes : fence[q] >= 4 => fence'[q] >= 4,
         FencesOK', SpawnerOK(p)', \A f \in Followers : BarrierOK(f)',
         \A s \in Servers : Home[s] = p => (Created(s)' <=> Created(s)) /\ (Awaited(s)' <=> Awaited(s))
  PROVE  SpawnInv'
<1>1. p \in Threads
  BY Zenon, ThreadKinds
<1>2. pc' \in [Threads -> Nat] /\ \A u \in Threads \ {p} : pc'[u] = pc[u]
  BY Zenon, <1>1, MoveEffect
<1>3. \A q \in Spawners \ {p} : pc'[q] = pc[q]
  BY Zenon, <1>2, ThreadKinds
<1>4. ASSUME NEW q \in Spawners \ {p} PROVE SpawnerOK(q)'
  <2>1. /\ SpawnerOK(q) /\ pc'[q] = pc[q] /\ next'[q] = next[q] /\ round'[q] = round[q]
        /\ lock'[q] = lock[q] /\ (q \in synced' <=> q \in synced)
    BY Zenon, <1>3, SpawnParts
  <2>. QED
    BY Zenon, <2>1, SpawnerKeeps
<1>5. ASSUME NEW q \in Programs PROVE ProgramOK(q)'
  <2>1. q \in Threads /\ q # p
    BY ThreadKinds
  <2>2. pc'[q] = pc[q]
    BY Zenon, <1>2, <2>1
  <2>. QED
    BY Zenon, <2>2, ProgramKeeps, SpawnParts
<1>6. ASSUME NEW s \in Servers PROVE ServerOK(s)'
  <2>1. s \in Threads /\ s # p
    BY ThreadKinds
  <2>2. Home[s] \in Spawners
    BY Zenon, HomeOf
  <2>3. pc'[s] = pc[s] /\ tid'[s] = tid[s] /\ ServerOK(s)
    BY Zenon, <1>2, <2>1, SpawnParts
  <2>4. (s \in names => s \in names') /\ (s \in told' => s \in told)
    BY Zenon
  <2>5. (Created(s)' <=> Created(s)) /\ (Awaited(s)' <=> Awaited(s))
    <3>1. CASE Home[s] = p
      BY Zenon, <3>1
    <3>2. CASE Home[s] # p
      <4>1. /\ next'[Home[s]] = next[Home[s]] /\ pc'[Home[s]] = pc[Home[s]]
            /\ round'[Home[s]] = round[Home[s]] /\ lock'[Home[s]] = lock[Home[s]]
        BY Zenon, <1>3, <2>2, <3>2
      <4>. QED
        BY Zenon, <4>1 DEF Created, Awaited
    <3>. QED
      BY Zenon, <3>1, <3>2
  <2>. QED
    BY Zenon, <2>3, <2>4, <2>5, ServerKeeps
<1>7. SpawnTypes' /\ panicked' = {}
  BY Zenon, <1>2 DEF SpawnInv, SpawnTypes
<1>8. \A q \in Spawners : SpawnerOK(q)'
  BY Zenon, <1>4
<1>. QED
  BY Zenon, <1>5, <1>6, <1>7, <1>8 DEF SpawnInv

\* The stretches of the code of a spawner between two fences.
LEMMA SpawnerFences ==
  ASSUME NEW p \in Spawners, NEW n \in 1 .. 20, NEW m \in 1 .. 20,
         \/ n <= 3 /\ m <= 3
         \/ n \in 5 .. 9 /\ m \in 5 .. 9
         \/ n >= 15 /\ m >= 15
  PROVE  Arrivals(p, m) = Arrivals(p, n) /\ Departures(p, m) = Departures(p, n)
BY DEF Arrivals, Departures

\* A server whose spawner is not at "down" is not awaited.
LEMMA NotAwaited ==
  ASSUME NEW s \in Servers, pc[Home[s]] # 6, pc'[Home[s]] # 6
  PROVE  Awaited(s)' <=> Awaited(s)
BY Zenon DEF Awaited

\* The program counter of spawner p.
LEMMA SpawnerMove ==
  ASSUME SpawnInv, NEW p \in Spawners, NEW n \in Nat, pc' = [pc EXCEPT ![p] = n]
  PROVE  pc'[p] = n /\ \A q \in Spawners \ {p} : pc'[q] = pc[q]
<1>1. p \in Threads
  BY Zenon, ThreadKinds
<1>. QED
  BY Zenon, <1>1, MoveEffect, ThreadKinds

\* A step of spawner p to instruction n that leaves the barrier, the semaphore
\* and the servers alone.
LEMMA SpawnerCalm ==
  ASSUME SpawnInv, NEW p \in Spawners, NEW n \in Nat, pc' = [pc EXCEPT ![p] = n],
         UNCHANGED <<round, tid, names, lock, arrived, released, told, panicked>>,
         next' \in [Nodes -> Nat \ {0}], \A q \in Spawners \ {p} : next'[q] = next[q],
         synced' \in SUBSET Spawners, \A q \in Spawners \ {p} : q \in synced' <=> q \in synced,
         level' \in [Threads -> -1 .. SPAWN_RING_LAST], \A q \in Programs : level'[q] = level[q],
         conn' \in [Nodes -> SUBSET Servers], \A q \in Programs : conn'[q] = conn[q],
         fence' \in [Nodes -> Nat], \A q \in Nodes : fence[q] >= 4 => fence'[q] >= 4,
         FencesOK', pc[p] # 6, n # 6, Stage(n, round[p], next'[p], Len(Table[p])),
         HalfOf(n, round[p]) = Half(p), p \in synced' <=> n \in 3 .. 18,
         \A s \in Servers : Home[s] = p => (Created(s)' <=> Created(s))
  PROVE  SpawnInv'
<1>1. pc'[p] = n /\ \A q \in Spawners \ {p} : pc'[q] = pc[q]
  BY Zenon, SpawnerMove
<1>2. round \in [Spawners -> Nat] /\ lock \in [Spawners -> Nat] /\ SpawnerOK(p)
  BY Zenon, SpawnParts
<1>3. SpawnerOK(p)'
  BY Zenon, <1>1, <1>2 DEF SpawnerOK
<1>4. \A f \in Followers : BarrierOK(f)'
  <2>1. \A q \in Spawners : Half(q)' = Half(q) /\ round'[q] = round[q]
    BY Zenon, <1>1 DEF Half
  <2>. QED
    BY Zenon, <2>1, BarrierKeeps DEF SpawnInv
<1>5. \A s \in Servers : Home[s] = p => (Created(s)' <=> Created(s)) /\ (Awaited(s)' <=> Awaited(s))
  BY Zenon, <1>1, NotAwaited
<1>6. /\ round' \in [Spawners -> Nat] /\ \A q \in Spawners \ {p} : round'[q] = round[q]
      /\ lock' \in [Spawners -> Nat] /\ \A q \in Spawners \ {p} : lock'[q] = lock[q]
      /\ arrived' \in SUBSET Followers /\ released' \in SUBSET Followers
  BY Zenon DEF SpawnInv, SpawnTypes
<1>. QED
  BY Zenon, <1>3, <1>4, <1>5, <1>6, SpawnerFrame

\* A step of p to the next instruction, that is none of the loops and of the
\* barrier.
LEMMA SpawnerGoes ==
  ASSUME SpawnInv, NEW p \in Spawners, pc[p] \notin {5, 6, 7, 8, 16, 17, 20},
         pc' = [pc EXCEPT ![p] = pc[p] + 1],
         UNCHANGED <<next, round, tid, names, lock, arrived, released, told, panicked>>,
         synced' \in SUBSET Spawners, \A q \in Spawners \ {p} : q \in synced' <=> q \in synced,
         level' \in [Threads -> -1 .. SPAWN_RING_LAST], \A q \in Programs : level'[q] = level[q],
         conn' \in [Nodes -> SUBSET Servers], \A q \in Programs : conn'[q] = conn[q],
         fence' \in [Nodes -> Nat], \A q \in Nodes : fence[q] >= 4 => fence'[q] >= 4,
         FencesOK', p \in synced' <=> pc[p] + 1 \in 3 .. 18
  PROVE  SpawnInv'
<1>1. /\ pc[p] \in Nat /\ Half(p) = IF pc[p] \in {8, 17} THEN round[p] + 1 ELSE round[p]
      /\ Len(Table[p]) \in Nat /\ Stage(pc[p], round[p], next[p], Len(Table[p]))
  BY Zenon, HalfIs
<1>2. pc[p] \notin {5, 6, 8, 17, 20} /\ pc[p] \notin {7, 16} /\ pc[p] \notin {8, 17} /\ pc[p] # 6
  BY Zenon
<1>3. /\ Stage(pc[p] + 1, round[p], next[p], Len(Table[p]))
      /\ HalfOf(pc[p] + 1, round[p]) = round[p] /\ pc[p] + 1 \in Nat /\ pc[p] + 1 # 6
  BY Zenon, <1>1, <1>2, StageNext
<1>4. HalfOf(pc[p] + 1, round[p]) = Half(p)
  BY Zenon, <1>1, <1>2, <1>3
<1>5. /\ next' \in [Nodes -> Nat \ {0}] /\ (\A q \in Spawners \ {p} : next'[q] = next[q])
      /\ Stage(pc[p] + 1, round[p], next'[p], Len(Table[p]))
  BY Zenon, <1>3, SpawnParts
<1>6. \A s \in Servers : Home[s] = p => (Created(s)' <=> Created(s))
  BY Zenon DEF Created
<1>. QED
  BY Zenon, <1>2, <1>3, <1>4, <1>5, <1>6, SpawnerCalm

\* The instructions with such a step.
LEMMA SimplePoints ==
  ASSUME NEW n \in {1, 2, 15, 18, 19}
  PROVE  /\ n \in 1 .. 20 /\ n + 1 \in 1 .. 20 /\ n + 1 \in Nat
         /\ n \notin {5, 6, 7, 8, 16, 17, 20}
         /\ \/ n <= 3 /\ n + 1 <= 3
            \/ n \in 5 .. 9 /\ n + 1 \in 5 .. 9
            \/ n >= 15 /\ n + 1 >= 15
OBVIOUS

\* Such a step with no fence.
LEMMA SpawnerSimple ==
  ASSUME SpawnInv, NEW p \in Spawners, pc[p] \in {1, 2, 15, 18, 19},
         pc' = [pc EXCEPT ![p] = pc[p] + 1],
         UNCHANGED <<next, round, tid, names, lock, arrived, released, fence, told, panicked>>,
         synced' \in SUBSET Spawners, \A q \in Spawners \ {p} : q \in synced' <=> q \in synced,
         level' \in [Threads -> -1 .. SPAWN_RING_LAST], \A q \in Programs : level'[q] = level[q],
         conn' \in [Nodes -> SUBSET Servers], \A q \in Programs : conn'[q] = conn[q],
         p \in synced' <=> pc[p] + 1 \in 3 .. 18
  PROVE  SpawnInv'
<1>1. /\ pc[p] \in 1 .. 20 /\ pc[p] + 1 \in 1 .. 20 /\ pc[p] + 1 \in Nat
      /\ pc[p] \notin {5, 6, 7, 8, 16, 17, 20}
      /\ \/ pc[p] <= 3 /\ pc[p] + 1 <= 3
         \/ pc[p] \in 5 .. 9 /\ pc[p] + 1 \in 5 .. 9
         \/ pc[p] >= 15 /\ pc[p] + 1 >= 15
  BY Zenon, SimplePoints
<1>2. /\ Arrivals(p, pc[p] + 1) = Arrivals(p, pc[p])
      /\ Departures(p, pc[p] + 1) = Departures(p, pc[p])
  BY Zenon, <1>1, SpawnerFences
<1>3. p \in Nodes
  BY Zenon, ThreadKinds
<1>4. FencesOK'
  BY Zenon, <1>1, <1>2, <1>3, NodeFences
<1>5. fence' \in [Nodes -> Nat] /\ \A q \in Nodes : fence[q] >= 4 => fence'[q] >= 4
  BY Zenon, SpawnParts
<1>. QED
  BY Zenon, <1>1, <1>4, <1>5, SpawnerGoes

\* A step of a spawner leaves the connections and the rings of programs alone.
LEMMA SpawnerConn ==
  ASSUME SpawnInv, NEW p \in Spawners
  PROVE  /\ \A X \in SUBSET Servers : conn' = [conn EXCEPT ![p] = X] =>
              conn' \in [Nodes -> SUBSET Servers] /\ \A q \in Programs : conn'[q] = conn[q]
         /\ conn' = conn =>
              conn' \in [Nodes -> SUBSET Servers] /\ \A q \in Programs : conn'[q] = conn[q]
         /\ \A l \in -1 .. SPAWN_RING_LAST : level' = [level EXCEPT ![p] = l] =>
              /\ level' \in [Threads -> -1 .. SPAWN_RING_LAST]
              /\ \A q \in Programs : level'[q] = level[q]
         /\ level' = level =>
              /\ level' \in [Threads -> -1 .. SPAWN_RING_LAST]
              /\ \A q \in Programs : level'[q] = level[q]
<1>1. \A q \in Programs : q \in Threads /\ q \in Nodes /\ q # p
  BY Zenon, ThreadKinds
<1>2. level \in [Threads -> -1 .. SPAWN_RING_LAST] /\ conn \in [Nodes -> SUBSET Servers]
  BY Zenon DEF SpawnInv, SpawnTypes
<1>3. p \in Threads /\ p \in Nodes
  BY Zenon, ThreadKinds
<1>. QED
  BY Zenon, <1>1, <1>2, <1>3

\* A spawner sets the runtime up, and cleans it up.
LEMMA SpawnerRuntime ==
  ASSUME SpawnInv, NEW p \in Spawners, RuntimeStep(p)
  PROVE  SpawnInv'
<1>1. p \in Threads /\ p \in Nodes /\ pc[p] \in Nat /\ Process[p] = p /\ SpawnerOK(p)
  BY Zenon, SpawnParts, ThreadKinds
<1>2. ~Connect(p)
  BY Zenon, <1>1, ConnectEffect
<1>3. ~LinkName(p)
  BY Zenon, <1>1, SpawnerAt DEF LinkName
<1>4. \A q \in Spawners \ {p} : synced' = synced => (q \in synced' <=> q \in synced)
  BY Zenon
<1>5. CASE SetupDone(p)
  <2>1. InSetup(p)
    BY Zenon, <1>5 DEF SetupDone
  <2>2. pc[p] = 1 /\ Wanted(p) = 0
    BY Zenon, <1>1, <2>1, WantedRing
  <2>. DEFINE w == IF level[p] > Wanted(p) THEN level[p] ELSE Wanted(p)
  <2>3. /\ pc' = [pc EXCEPT ![p] = pc[p] + 1] /\ level' = [level EXCEPT ![p] = w]
        /\ UNCHANGED <<next, round, tid, conn, names, lock, synced, arrived, released, fence, told,
                       panicked>>
    BY Zenon, <1>5 DEF SetupDone, Advance, Jump
  <2>4. w \in -1 .. SPAWN_RING_LAST
    <3>1. level[p] \in -1 .. 5
      BY Zenon, <1>1, SpawnParts
    <3>. QED
      BY <2>2, <3>1 DEF SPAWN_RING_LAST
  <2>. HIDE DEF w
  <2>5. /\ level' \in [Threads -> -1 .. SPAWN_RING_LAST] /\ \A q \in Programs : level'[q] = level[q]
    BY Zenon, <2>3, <2>4, SpawnerConn
  <2>6. conn' \in [Nodes -> SUBSET Servers] /\ \A q \in Programs : conn'[q] = conn[q]
    BY Zenon, <2>3, SpawnerConn
  <2>7. pc[p] \in {1, 2, 15, 18, 19} /\ ~(pc[p] + 1 \in 3 .. 18) /\ ~(pc[p] \in 3 .. 18)
    BY <2>2
  <2>8. synced' \in SUBSET Spawners /\ p \notin synced'
    BY Zenon, <1>1, <2>3, <2>7 DEF SpawnerOK, SpawnInv, SpawnTypes
  <2>. QED
    BY Zenon, <1>4, <2>3, <2>5, <2>6, <2>7, <2>8, SpawnerSimple
<1>6. CASE Cleanup(p)
  <2>1. At(p, "cleanup")
    BY Zenon, <1>6 DEF Cleanup
  <2>2. pc[p] = 19
    BY Zenon, <1>1, <2>1, SpawnerAt
  <2>. DEFINE X == {s \in conn[p] : OpensIn[s] > level[p]}
  <2>3. /\ pc' = [pc EXCEPT ![p] = pc[p] + 1] /\ level' = [level EXCEPT ![p] = -1]
        /\ conn' = [conn EXCEPT ![p] = X]
        /\ UNCHANGED <<next, round, tid, names, lock, synced, arrived, released, fence, told,
                       panicked>>
    BY Zenon, <1>1, <1>6 DEF Cleanup, Advance, Jump
  <2>4. X \in SUBSET Servers
    BY Zenon, <1>1, SpawnParts
  <2>5. -1 \in -1 .. SPAWN_RING_LAST
    BY DEF SPAWN_RING_LAST
  <2>. HIDE DEF X
  <2>6. /\ level' \in [Threads -> -1 .. SPAWN_RING_LAST] /\ \A q \in Programs : level'[q] = level[q]
        /\ conn' \in [Nodes -> SUBSET Servers] /\ \A q \in Programs : conn'[q] = conn[q]
    BY Zenon, <2>3, <2>4, <2>5, SpawnerConn
  <2>7. pc[p] \in {1, 2, 15, 18, 19} /\ ~(pc[p] + 1 \in 3 .. 18) /\ ~(pc[p] \in 3 .. 18)
    BY <2>2
  <2>8. synced' \in SUBSET Spawners /\ p \notin synced'
    BY Zenon, <1>1, <2>3, <2>7 DEF SpawnerOK, SpawnInv, SpawnTypes
  <2>. QED
    BY Zenon, <1>4, <2>3, <2>6, <2>7, <2>8, SpawnerSimple
<1>. QED
  BY Zenon, <1>2, <1>3, <1>5, <1>6 DEF RuntimeStep

\* A spawner at a fence.
LEMMA SpawnerFence ==
  ASSUME SpawnInv, NEW p \in Spawners, FenceStep(p)
  PROVE  SpawnInv'
<1>1. p \in Nodes /\ pc[p] \in Nat /\ SpawnerOK(p)
  BY Zenon, SpawnParts, ThreadKinds
<1>2. /\ pc' = [pc EXCEPT ![p] = pc[p] + 1]
      /\ UNCHANGED <<next, round, level, tid, conn, names, lock, synced, arrived, released, told,
                     panicked>>
  BY Zenon DEF FenceStep, Arrive, Depart, Advance, Jump
<1>3. pc[p] \in ArriveAt(p) \/ pc[p] \in LeaveAt(p)
  BY Zenon, <1>1, FenceAt DEF FenceStep, Arrive, Depart
<1>4. /\ pc[p] \notin {5, 6, 7, 8, 16, 17, 20} /\ pc[p] \in 3 .. 18 /\ pc[p] + 1 \in 3 .. 18
  BY <1>3 DEF ArriveAt, LeaveAt
<1>5. /\ FencesOK' /\ fence' \in [Nodes -> Nat]
      /\ \A q \in Nodes : fence[q] >= 4 => fence'[q] >= 4
  <2>1. CASE Arrive(p)
    BY Zenon, <1>1, <2>1, ArriveFences
  <2>2. CASE Depart(p)
    <3>1. FencesOK' /\ fence' = fence
      BY Zenon, <1>1, <2>2, DepartFences DEF Depart
    <3>. QED
      BY Zenon, <3>1, SpawnParts
  <2>. QED
    BY Zenon, <2>1, <2>2 DEF FenceStep
<1>6. /\ level' \in [Threads -> -1 .. SPAWN_RING_LAST] /\ \A q \in Programs : level'[q] = level[q]
      /\ conn' \in [Nodes -> SUBSET Servers] /\ \A q \in Programs : conn'[q] = conn[q]
  BY Zenon, <1>2, SpawnerConn
<1>7. /\ synced' \in SUBSET Spawners /\ p \in synced'
      /\ \A q \in Spawners \ {p} : q \in synced' <=> q \in synced
  BY Zenon, <1>1, <1>2, <1>4 DEF SpawnerOK, SpawnInv, SpawnTypes
<1>. QED
  BY Zenon, <1>2, <1>4, <1>5, <1>6, <1>7, SpawnerGoes

\* A spawner creates and removes its end of the barrier.
LEMMA SpawnerBarrier ==
  ASSUME SpawnInv, NEW p \in Spawners, BarrierSetup(p) \/ BarrierCleanup(p)
  PROVE  SpawnInv'
<1>1. p \in Nodes /\ pc[p] \in Nat
  BY Zenon, SpawnParts, ThreadKinds
<1>2. /\ pc' = [pc EXCEPT ![p] = pc[p] + 1]
      /\ UNCHANGED <<next, round, level, tid, conn, names, lock, arrived, released, fence, told,
                     panicked>>
      /\ \/ At(p, "bsetup") /\ synced' = synced \cup {p}
         \/ At(p, "bcleanup") /\ synced' = synced \ {p}
  BY Zenon DEF BarrierSetup, BarrierCleanup, Advance, Jump
<1>3. \/ pc[p] = 2 /\ synced' = synced \cup {p}
      \/ pc[p] = 18 /\ synced' = synced \ {p}
  BY Zenon, <1>1, <1>2, SpawnerAt
<1>4. pc[p] \in {1, 2, 15, 18, 19} /\ (p \in synced' <=> pc[p] + 1 \in 3 .. 18)
  BY <1>3
<1>5. /\ level' \in [Threads -> -1 .. SPAWN_RING_LAST] /\ \A q \in Programs : level'[q] = level[q]
      /\ conn' \in [Nodes -> SUBSET Servers] /\ \A q \in Programs : conn'[q] = conn[q]
  BY Zenon, <1>2, SpawnerConn
<1>6. /\ synced' \in SUBSET Spawners
      /\ \A q \in Spawners \ {p} : q \in synced' <=> q \in synced
  BY Zenon, <1>3 DEF SpawnInv, SpawnTypes
<1>. QED
  BY Zenon, <1>2, <1>4, <1>5, <1>6, SpawnerSimple

\* The barrier of followers, which the steps of the leader concern, and that
\* of the follower that takes a step.
LEMMA BarrierOf ==
  ASSUME SpawnInv, NEW f \in Followers
  PROVE  /\ f \in Spawners /\ Leader \in Spawners /\ f # Leader
         /\ Half(f) \in Nat /\ round[f] \in Nat /\ Half(Leader) \in Nat /\ round[Leader] \in Nat
         /\ f \in arrived => Half(f) = Half(Leader) + 1
         /\ f \notin arrived => Half(f) = Half(Leader)
         /\ f \in released => round[f] = round[Leader] - 1
         /\ f \notin released => round[f] = round[Leader]
<1>1. f \in Spawners /\ Leader \in Spawners /\ f # Leader
  BY Zenon, ThreadKinds
<1>2. Half(f) \in Nat /\ round[f] \in Nat /\ Half(Leader) \in Nat /\ round[Leader] \in Nat
  BY Zenon, <1>1, HalfIs
<1>. QED
  BY Zenon, <1>1, <1>2 DEF SpawnInv, BarrierOK

\* The first half of the barrier: spawner p goes from instruction 7 or 16 to
\* the next one.
LEMMA SpawnerWaits ==
  ASSUME SpawnInv, NEW p \in Spawners, pc[p] \in {7, 16}, pc' = [pc EXCEPT ![p] = pc[p] + 1],
         UNCHANGED <<next, round, level, tid, conn, names, lock, synced, released, fence, told,
                     panicked>>,
         arrived' \in SUBSET Followers,
         (\A q \in Spawners \ {p} : Half(q)' = Half(q)) /\ Half(p)' = Half(p) + 1 =>
           \A f \in Followers : BarrierOK(f)'
  PROVE  SpawnInv'
<1>1. /\ pc[p] \in Nat /\ Half(p) = IF pc[p] \in {8, 17} THEN round[p] + 1 ELSE round[p]
      /\ Len(Table[p]) \in Nat /\ Stage(pc[p], round[p], next[p], Len(Table[p]))
      /\ SpawnerOK(p) /\ p \in Nodes
  BY Zenon, HalfIs, SpawnParts, ThreadKinds
<1>2. /\ pc[p] \notin {5, 6, 8, 17, 20} /\ pc[p] \notin {8, 17} /\ pc[p] # 6
      /\ pc[p] \in 1 .. 20 /\ pc[p] + 1 \in 1 .. 20 /\ pc[p] + 1 \in 3 .. 18 /\ pc[p] \in 3 .. 18
      /\ \/ pc[p] <= 3 /\ pc[p] + 1 <= 3
         \/ pc[p] \in 5 .. 9 /\ pc[p] + 1 \in 5 .. 9
         \/ pc[p] >= 15 /\ pc[p] + 1 >= 15
  <2>1. pc[p] = 7 \/ pc[p] = 16
    BY Zenon
  <2>. QED
    BY <2>1
<1>3. /\ Stage(pc[p] + 1, round[p], next[p], Len(Table[p]))
      /\ HalfOf(pc[p] + 1, round[p]) = round[p] + 1 /\ pc[p] + 1 \in Nat /\ pc[p] + 1 # 6
  BY Zenon, <1>1, <1>2, StageNext
<1>4. pc'[p] = pc[p] + 1 /\ \A q \in Spawners \ {p} : pc'[q] = pc[q]
  BY Zenon, <1>3, SpawnerMove
<1>5. \A f \in Followers : BarrierOK(f)'
  <2>1. Half(p)' = Half(p) + 1
    BY Zenon, <1>1, <1>2, <1>3, <1>4 DEF Half
  <2>2. \A q \in Spawners \ {p} : Half(q)' = Half(q)
    BY Zenon, <1>4 DEF Half
  <2>. QED
    BY Zenon, <2>1, <2>2
<1>6. FencesOK'
  <2>1. /\ Arrivals(p, pc[p] + 1) = Arrivals(p, pc[p])
        /\ Departures(p, pc[p] + 1) = Departures(p, pc[p])
    BY Zenon, <1>2, SpawnerFences
  <2>. QED
    BY Zenon, <1>1, <1>3, <2>1, NodeFences
<1>7. SpawnerOK(p)'
  BY Zenon, <1>1, <1>2, <1>3, <1>4 DEF SpawnerOK
<1>8. \A s \in Servers : Home[s] = p => (Created(s)' <=> Created(s)) /\ (Awaited(s)' <=> Awaited(s))
  <2>1. \A s \in Servers : Created(s)' <=> Created(s)
    BY Zenon DEF Created
  <2>. QED
    BY Zenon, <1>2, <1>3, <1>4, <2>1, NotAwaited
<1>9. /\ next' \in [Nodes -> Nat \ {0}] /\ \A q \in Spawners \ {p} : next'[q] = next[q]
      /\ round' \in [Spawners -> Nat] /\ \A q \in Spawners \ {p} : round'[q] = round[q]
      /\ lock' \in [Spawners -> Nat] /\ \A q \in Spawners \ {p} : lock'[q] = lock[q]
      /\ synced' \in SUBSET Spawners /\ \A q \in Spawners \ {p} : q \in synced' <=> q \in synced
      /\ released' \in SUBSET Followers
      /\ level' \in [Threads -> -1 .. SPAWN_RING_LAST] /\ \A q \in Programs : level'[q] = level[q]
      /\ conn' \in [Nodes -> SUBSET Servers] /\ \A q \in Programs : conn'[q] = conn[q]
      /\ fence' \in [Nodes -> Nat] /\ \A q \in Nodes : fence[q] >= 4 => fence'[q] >= 4
  BY Zenon DEF SpawnInv, SpawnTypes
<1>. QED
  BY Zenon, <1>3, <1>5, <1>6, <1>7, <1>8, <1>9, SpawnerFrame

\* The leader has the signals of all followers.
LEMMA LeaderWaits ==
  ASSUME SpawnInv, NEW p \in Spawners, WaitAll(p)
  PROVE  SpawnInv'
<1>1. At(p, "wait0") /\ pc[p] \in Nat
  BY Zenon, HalfIs DEF WaitAll
<1>2. pc[p] \in {7, 16} /\ p = Leader
  BY Zenon, <1>1, SpawnerAt
<1>3. /\ pc' = [pc EXCEPT ![p] = pc[p] + 1] /\ arrived = Followers /\ arrived' = {}
      /\ UNCHANGED <<next, round, level, tid, conn, names, lock, synced, released, fence, told,
                     panicked>>
  BY Zenon DEF WaitAll, Advance, Jump
<1>4. ASSUME \A q \in Spawners \ {p} : Half(q)' = Half(q), Half(p)' = Half(p) + 1,
             NEW f \in Followers
      PROVE  BarrierOK(f)'
  <2>1. Half(f) = Half(Leader) + 1 /\ f \in Spawners \ {p} /\ BarrierOK(f)
    BY Zenon, <1>2, <1>3, BarrierOf DEF SpawnInv
  <2>2. Half(f)' = Half(f)
    BY Zenon, <1>4, <2>1
  <2>3. Half(Leader)' = Half(Leader) + 1
    BY Zenon, <1>2, <1>4
  <2>. QED
    BY Zenon, <1>3, <2>1, <2>2, <2>3 DEF BarrierOK
<1>5. arrived' \in SUBSET Followers
  BY Zenon, <1>3
<1>. QED
  BY Zenon, <1>2, <1>3, <1>4, <1>5, SpawnerWaits

\* A follower signals the leader, whose end of the barrier exists.
LEMMA FollowerSignals ==
  ASSUME SpawnInv, NEW p \in Spawners, SignalLeader(p)
  PROVE  SpawnInv'
<1>1. At(p, "signal0") /\ pc[p] \in Nat /\ Half(p) = HalfOf(pc[p], round[p])
  BY Zenon, HalfIs DEF SignalLeader
<1>2. pc[p] \in {7, 16} /\ p # Leader
  BY Zenon, <1>1, SpawnerAt
<1>3. p \in Followers
  BY Zenon, <1>2 DEF Followers
<1>4. /\ Half(p) \in Nat /\ round[p] \in Nat /\ Half(Leader) \in Nat /\ round[Leader] \in Nat
      /\ p \in arrived => Half(p) = Half(Leader) + 1
      /\ p \notin arrived => Half(p) = Half(Leader)
      /\ Leader \in Spawners
  BY Zenon, <1>3, BarrierOf
<1>5. Half(p) = round[p] /\ round[p] <= 6 /\ pc[p] >= 5
  <2>1. /\ Len(Table[p]) \in Nat /\ Stage(pc[p], round[p], next[p], Len(Table[p]))
    BY Zenon, HalfIs
  <2>2. \A n \in {7, 16} : \A r, x : \A l \in Nat :
          Stage(n, r, x, l) => r <= 6 /\ HalfOf(n, r) = r /\ n >= 5
    BY DEF Stage, HalfOf
  <2>. QED
    BY Zenon, <1>1, <1>2, <2>1, <2>2
<1>6. Half(Leader) >= round[p] /\ Half(Leader) >= round[Leader]
  BY Zenon, <1>4, HalfAhead
<1>7. p \notin arrived /\ round[Leader] <= 6
  BY <1>4, <1>5, <1>6
<1>8. Leader \in synced
  BY Zenon, <1>4, <1>5, <1>7, SyncedPeer
<1>9. /\ pc' = [pc EXCEPT ![p] = pc[p] + 1] /\ arrived' = arrived \cup {p}
      /\ UNCHANGED <<next, round, level, tid, conn, names, lock, synced, released, fence, told,
                     panicked>>
  BY Zenon, <1>8 DEF SignalLeader, Advance, Jump
<1>a. ASSUME \A q \in Spawners \ {p} : Half(q)' = Half(q), Half(p)' = Half(p) + 1,
             NEW f \in Followers
      PROVE  BarrierOK(f)'
  <2>1. BarrierOK(f) /\ f \in Spawners
    BY Zenon, BarrierOf DEF SpawnInv
  <2>2. Half(Leader)' = Half(Leader)
    BY Zenon, <1>2, <1>4, <1>a
  <2>3. CASE f = p
    <3>1. Half(f)' = Half(Leader) + 1 /\ f \in arrived'
      BY Zenon, <1>4, <1>7, <1>9, <1>a, <2>3
    <3>. QED
      BY Zenon, <1>9, <2>1, <2>2, <3>1 DEF BarrierOK
  <2>4. CASE f # p
    <3>1. Half(f)' = Half(f) /\ (f \in arrived' <=> f \in arrived)
      BY Zenon, <1>9, <1>a, <2>1, <2>4
    <3>. QED
      BY Zenon, <1>9, <2>1, <2>2, <3>1 DEF BarrierOK
  <2>. QED
    BY Zenon, <2>3, <2>4
<1>b. arrived' \in SUBSET Followers
  BY Zenon, <1>3, <1>9 DEF SpawnInv, SpawnTypes
<1>. QED
  BY Zenon, <1>2, <1>9, <1>a, <1>b, SpawnerWaits

\* The second half of the barrier: spawner p passes it.
LEMMA SpawnerPasses ==
  ASSUME SpawnInv, NEW p \in Spawners, pc[p] \in {8, 17}, Passed(p),
         UNCHANGED <<level, tid, conn, names, lock, synced, arrived, fence, told, panicked>>,
         released' \in SUBSET Followers,
         (\A q \in Spawners : Half(q)' = Half(q)) /\ (\A q \in Spawners \ {p} : round'[q] = round[q])
           /\ round'[p] = round[p] + 1 =>
           \A f \in Followers : BarrierOK(f)'
  PROVE  SpawnInv'
<1>. DEFINE m == pc[p] + (IF round[p] < 5 THEN -3 ELSE 1)
<1>1. /\ pc[p] \in Nat /\ Half(p) = HalfOf(pc[p], round[p]) /\ round[p] \in Nat
      /\ Len(Table[p]) \in Nat /\ Stage(pc[p], round[p], next[p], Len(Table[p]))
      /\ SpawnerOK(p) /\ p \in Nodes
  BY Zenon, HalfIs, SpawnParts, ThreadKinds
<1>2. /\ pc' = [pc EXCEPT ![p] = m] /\ round' = [round EXCEPT ![p] = round[p] + 1]
      /\ next' = [next EXCEPT ![p] = 1]
  BY Zenon DEF Passed, Jump, SPAWN_RING_LAST
<1>3. /\ Stage(m, round[p] + 1, 1, Len(Table[p])) /\ HalfOf(m, round[p] + 1) = HalfOf(pc[p], round[p])
      /\ m \in {5, 9, 18} /\ (pc[p] = 8 => m \in 5 .. 9) /\ (pc[p] = 17 => m = 18)
  BY Zenon, <1>1, StagePassed
<1>4. /\ m \in Nat /\ m # 6 /\ pc[p] # 6 /\ m \in 3 .. 18 /\ pc[p] \in 3 .. 18 /\ pc[p] \in 1 .. 20
      /\ m \in 1 .. 20 /\ round[p] + 1 \in Nat /\ 1 \in Nat \ {0}
  BY Zenon, <1>1, StagePassed
<1>m. (pc[p] \in 5 .. 9 /\ m \in 5 .. 9) \/ (pc[p] >= 15 /\ m >= 15)
  BY Zenon, <1>1, PassedStretch
<1>. HIDE DEF m
<1>5. pc'[p] = m /\ \A q \in Spawners \ {p} : pc'[q] = pc[q]
  BY Zenon, <1>2, <1>4, SpawnerMove
<1>6. /\ round' \in [Spawners -> Nat] /\ round'[p] = round[p] + 1
      /\ \A q \in Spawners \ {p} : round'[q] = round[q]
  BY Zenon, <1>2, <1>4, SpawnParts
<1>7. /\ next' \in [Nodes -> Nat \ {0}] /\ next'[p] = 1
      /\ \A q \in Spawners \ {p} : next'[q] = next[q]
  <2>1. next \in [Nodes -> Nat \ {0}] /\ \A q \in Spawners : q \in Nodes
    BY Zenon, SpawnParts, ThreadKinds
  <2>. QED
    BY Zenon, <1>1, <1>2, <1>4, <2>1
<1>8. \A f \in Followers : BarrierOK(f)'
  <2>1. Half(p)' = Half(p)
    BY Zenon, <1>1, <1>3, <1>5, <1>6 DEF Half
  <2>2. \A q \in Spawners : Half(q)' = Half(q)
    BY Zenon, <1>5, <1>6, <2>1 DEF Half
  <2>. QED
    BY Zenon, <1>6, <2>2
<1>9. FencesOK'
  <2>1. \/ pc[p] <= 3 /\ m <= 3
        \/ pc[p] \in 5 .. 9 /\ m \in 5 .. 9
        \/ pc[p] >= 15 /\ m >= 15
    BY Zenon, <1>m
  <2>2. Arrivals(p, m) = Arrivals(p, pc[p]) /\ Departures(p, m) = Departures(p, pc[p])
    BY Zenon, <1>4, <2>1, SpawnerFences
  <2>. QED
    BY Zenon, <1>1, <1>2, <1>4, <2>2, NodeFences
<1>a. SpawnerOK(p)'
  BY Zenon, <1>1, <1>3, <1>4, <1>5, <1>6, <1>7 DEF SpawnerOK
<1>b. ASSUME NEW s \in Servers, Home[s] = p
      PROVE  (Created(s)' <=> Created(s)) /\ (Awaited(s)' <=> Awaited(s))
  <2>1. Ring[s] \in 0 .. 5 /\ Place[s] \in 1 .. Len(Table[p])
    BY Zenon, <1>b, ServerPlace
  <2>2. Made(Ring[s], Place[s], round[p] + 1, 1) <=> Made(Ring[s], Place[s], round[p], next[p])
    BY Zenon, <1>1, <2>1, MadePassed
  <2>3. Created(s)' <=> Created(s)
    BY Zenon, <1>6, <1>7, <1>b, <2>2 DEF Created
  <2>4. Awaited(s)' <=> Awaited(s)
    BY Zenon, <1>4, <1>5, <1>b, NotAwaited
  <2>. QED
    BY Zenon, <2>3, <2>4
<1>c. /\ lock' \in [Spawners -> Nat] /\ \A q \in Spawners \ {p} : lock'[q] = lock[q]
      /\ synced' \in SUBSET Spawners /\ \A q \in Spawners \ {p} : q \in synced' <=> q \in synced
      /\ arrived' \in SUBSET Followers
      /\ level' \in [Threads -> -1 .. SPAWN_RING_LAST] /\ \A q \in Programs : level'[q] = level[q]
      /\ conn' \in [Nodes -> SUBSET Servers] /\ \A q \in Programs : conn'[q] = conn[q]
      /\ fence' \in [Nodes -> Nat] /\ \A q \in Nodes : fence[q] >= 4 => fence'[q] >= 4
  BY Zenon DEF SpawnInv, SpawnTypes
<1>d. \A s \in Servers : Home[s] = p => (Created(s)' <=> Created(s)) /\ (Awaited(s)' <=> Awaited(s))
  BY Zenon, <1>b
<1>. QED
  BY Zenon, <1>2, <1>4, <1>6, <1>7, <1>8, <1>9, <1>a, <1>c, <1>d, SpawnerFrame

\* The leader releases the followers, whose ends of the barrier all exist.
LEMMA LeaderSignals ==
  ASSUME SpawnInv, NEW p \in Spawners, SignalAll(p)
  PROVE  SpawnInv'
<1>1. At(p, "signal1") /\ pc[p] \in Nat
  BY Zenon, HalfIs DEF SignalAll
<1>2. pc[p] \in {8, 17} /\ p = Leader
  BY Zenon, <1>1, SpawnerAt
<1>3. /\ Half(p) = round[p] + 1 /\ round[p] \in Nat /\ round[p] <= 6 /\ pc[p] >= 5
  <2>1. /\ Half(p) = IF pc[p] \in {8, 17} THEN round[p] + 1 ELSE round[p]
        /\ round[p] \in Nat
        /\ Len(Table[p]) \in Nat /\ Stage(pc[p], round[p], next[p], Len(Table[p]))
    BY Zenon, HalfIs
  <2>2. \A n \in {8, 17} : \A r, x : \A l \in Nat : Stage(n, r, x, l) => r <= 6 /\ n >= 5
    BY DEF Stage
  <2>. QED
    BY Zenon, <1>2, <2>1, <2>2
<1>4. ASSUME NEW f \in Followers PROVE f \notin released /\ round[f] = round[p] /\ f \in synced
  <2>1. /\ f \in Spawners /\ Half(f) \in Nat /\ round[f] \in Nat
        /\ f \in arrived => Half(f) = Half(Leader) + 1
        /\ f \notin arrived => Half(f) = Half(Leader)
        /\ f \in released => round[f] = round[Leader] - 1
        /\ f \notin released => round[f] = round[Leader]
    BY Zenon, BarrierOf
  <2>2. Half(f) = IF pc[f] \in {8, 17} THEN round[f] + 1 ELSE round[f]
    BY Zenon, <2>1, HalfIs
  <2>3. Half(f) >= round[p] + 1
    <3>1. Half(Leader) = round[p] + 1
      BY Zenon, <1>2, <1>3
    <3>2. Half(f) = (round[p] + 1) + 1 \/ Half(f) = round[p] + 1
      BY Zenon, <2>1, <3>1
    <3>3. round[p] \in Nat
      BY Zenon, <1>3
    <3>. QED
      BY <3>2, <3>3
  <2>4. round[f] >= round[p]
    <3>1. Half(f) = round[f] + 1 \/ Half(f) = round[f]
      BY Zenon, <2>2
    <3>. QED
      BY <1>3, <2>1, <2>3, <3>1
  <2>5. f \notin released
    BY <1>2, <1>3, <2>1, <2>4
  <2>6. round[f] = round[p] /\ round[f] <= 6
    BY Zenon, <1>2, <1>3, <2>1, <2>5
  <2>7. f \in synced
    BY Zenon, <1>3, <2>1, <2>6, SyncedPeer
  <2>. QED
    BY Zenon, <2>5, <2>6, <2>7
<1>5. /\ Passed(p) /\ released' = Followers
      /\ UNCHANGED <<level, tid, conn, names, lock, synced, arrived, fence, told, panicked>>
  <2>1. released \cup (Followers \cap synced) = Followers
    <3>1. released \in SUBSET Followers
      BY Zenon DEF SpawnInv, SpawnTypes
    <3>. QED
      BY Zenon, <1>4, <3>1
  <2>. QED
    BY Zenon, <2>1 DEF SignalAll
<1>6. ASSUME \A q \in Spawners : Half(q)' = Half(q), \A q \in Spawners \ {p} : round'[q] = round[q],
             round'[p] = round[p] + 1, NEW f \in Followers
      PROVE  BarrierOK(f)'
  <2>1. f \in Spawners \ {p} /\ Leader \in Spawners /\ BarrierOK(f)
    BY Zenon, <1>2, BarrierOf DEF SpawnInv
  <2>2. Half(f)' = Half(f) /\ Half(Leader)' = Half(Leader) /\ round'[f] = round[f]
    BY Zenon, <1>6, <2>1
  <2>3. round[f] = (round[p] + 1) - 1
    BY <1>3, <1>4
  <2>4. round'[f] = round'[Leader] - 1
    BY Zenon, <1>2, <1>6, <2>2, <2>3
  <2>. QED
    BY Zenon, <1>5, <2>1, <2>2, <2>4 DEF BarrierOK
<1>7. released' \in SUBSET Followers
  BY Zenon, <1>5
<1>. QED
  BY Zenon, <1>2, <1>5, <1>6, <1>7, SpawnerPasses

\* A follower has the signal of the leader.
LEMMA FollowerWaits ==
  ASSUME SpawnInv, NEW p \in Spawners, WaitLeader(p)
  PROVE  SpawnInv'
<1>1. At(p, "wait1") /\ pc[p] \in Nat
  BY Zenon, HalfIs DEF WaitLeader
<1>2. pc[p] \in {8, 17} /\ p # Leader
  BY Zenon, <1>1, SpawnerAt
<1>3. /\ Passed(p) /\ p \in released /\ released' = released \ {p}
      /\ UNCHANGED <<level, tid, conn, names, lock, synced, arrived, fence, told, panicked>>
  BY Zenon DEF WaitLeader
<1>4. p \in Followers
  BY Zenon, <1>2 DEF Followers
<1>5. round[p] = round[Leader] - 1 /\ round[Leader] \in Nat
  BY Zenon, <1>3, <1>4, BarrierOf
<1>6. ASSUME \A q \in Spawners : Half(q)' = Half(q), \A q \in Spawners \ {p} : round'[q] = round[q],
             round'[p] = round[p] + 1, NEW f \in Followers
      PROVE  BarrierOK(f)'
  <2>1. f \in Spawners /\ Leader \in Spawners \ {p} /\ BarrierOK(f)
    BY Zenon, <1>2, BarrierOf DEF SpawnInv
  <2>2. Half(f)' = Half(f) /\ Half(Leader)' = Half(Leader) /\ round'[Leader] = round[Leader]
    BY Zenon, <1>6, <2>1
  <2>3. CASE f = p
    <3>1. round[p] + 1 = round[Leader]
      BY <1>5
    <3>2. f \notin released' /\ round'[f] = round'[Leader]
      BY Zenon, <1>3, <1>6, <2>2, <2>3, <3>1
    <3>. QED
      BY Zenon, <1>3, <2>1, <2>2, <3>2 DEF BarrierOK
  <2>4. CASE f # p
    <3>1. round'[f] = round[f] /\ (f \in released' <=> f \in released)
      BY Zenon, <1>3, <1>6, <2>1, <2>4
    <3>. QED
      BY Zenon, <1>3, <2>1, <2>2, <3>1 DEF BarrierOK
  <2>. QED
    BY Zenon, <2>3, <2>4
<1>7. released' \in SUBSET Followers
  BY Zenon, <1>3 DEF SpawnInv, SpawnTypes
<1>. QED
  BY Zenon, <1>2, <1>3, <1>6, <1>7, SpawnerPasses

\* The loop over the table is done with a ring.
LEMMA SpawnerRingDone ==
  ASSUME SpawnInv, NEW p \in Spawners, RingDone(p)
  PROVE  SpawnInv'
<1>. DEFINE l == Len(Table[p])
<1>1. /\ At(p, "create") /\ Pending(p) = {} /\ pc[p] \in Nat /\ Half(p) = HalfOf(pc[p], round[p])
      /\ l \in Nat /\ Stage(pc[p], round[p], next[p], l)
      /\ SpawnerOK(p) /\ p \in Nodes
  BY Zenon, HalfIs, SpawnParts, ThreadKinds DEF RingDone
<1>2. pc[p] = 5
  BY Zenon, <1>1, SpawnerAt
<1>3. /\ pc' = [pc EXCEPT ![p] = pc[p] + 2] /\ next' = [next EXCEPT ![p] = l + 1]
      /\ UNCHANGED <<round, level, tid, conn, names, lock, synced, arrived, released, fence, told,
                     panicked>>
  BY Zenon DEF RingDone, Jump
<1>4. pc' = [pc EXCEPT ![p] = 7] /\ 7 \in Nat /\ 7 # 6 /\ pc[p] # 6 /\ 7 \in 3 .. 18
      /\ 5 \in 3 .. 18 /\ 5 \in 1 .. 20 /\ 7 \in 1 .. 20 /\ 5 \in 5 .. 9 /\ 7 \in 5 .. 9
  BY <1>2, <1>3
<1>5. Stage(7, round[p], l + 1, l) /\ HalfOf(7, round[p]) = Half(p)
  BY Zenon, <1>1, <1>2, StageCreate
<1>6. /\ next' \in [Nodes -> Nat \ {0}] /\ next'[p] = l + 1
      /\ \A q \in Spawners \ {p} : next'[q] = next[q]
  <2>1. l + 1 \in Nat \ {0}
    BY <1>1
  <2>2. next \in [Nodes -> Nat \ {0}] /\ \A q \in Spawners : q \in Nodes
    BY Zenon, SpawnParts, ThreadKinds
  <2>. QED
    BY Zenon, <1>1, <1>3, <2>1, <2>2
<1>7. FencesOK'
  <2>1. Arrivals(p, 7) = Arrivals(p, 5) /\ Departures(p, 7) = Departures(p, 5)
    BY Zenon, <1>4, SpawnerFences
  <2>2. fence' = fence
    BY Zenon, <1>3
  <2>. QED
    BY Zenon, <1>1, <1>2, <1>4, <2>1, <2>2, NodeFences
<1>8. ASSUME NEW s \in Servers, Home[s] = p PROVE Created(s)' <=> Created(s)
  <2>1. Ring[s] \in 0 .. 5 /\ Place[s] \in 1 .. l
    BY Zenon, <1>8, ServerPlace
  <2>2. Ring[s] = round[p] => ~(Place[s] >= next[p])
    <3>1. Place[s] \in DOMAIN Table[p] /\ Table[p][Place[s]] = s
      BY Zenon, <1>8, HomeOf
    <3>. QED
      BY Zenon, <1>1, <3>1 DEF Pending
  <2>3. Made(Ring[s], Place[s], round[p], l + 1) <=> Made(Ring[s], Place[s], round[p], next[p])
    BY Zenon, <1>1, <1>2, <2>1, <2>2, MadeRingDone
  <2>. QED
    BY Zenon, <1>3, <1>6, <1>8, <2>3 DEF Created
<1>9. /\ synced' \in SUBSET Spawners /\ p \in synced'
      /\ \A q \in Spawners \ {p} : q \in synced' <=> q \in synced
  BY Zenon, <1>1, <1>2, <1>3, <1>4 DEF SpawnerOK, SpawnInv, SpawnTypes
<1>a. /\ level' \in [Threads -> -1 .. SPAWN_RING_LAST] /\ \A q \in Programs : level'[q] = level[q]
      /\ conn' \in [Nodes -> SUBSET Servers] /\ \A q \in Programs : conn'[q] = conn[q]
      /\ fence' \in [Nodes -> Nat] /\ \A q \in Nodes : fence[q] >= 4 => fence'[q] >= 4
  BY Zenon, <1>3 DEF SpawnInv, SpawnTypes
<1>b. /\ Stage(7, round[p], next'[p], Len(Table[p])) /\ (p \in synced' <=> 7 \in 3 .. 18)
      /\ \A s \in Servers : Home[s] = p => (Created(s)' <=> Created(s))
  BY Zenon, <1>4, <1>5, <1>6, <1>8, <1>9
<1>. QED
  BY Zenon, <1>3, <1>4, <1>5, <1>6, <1>7, <1>9, <1>a, <1>b, SpawnerCalm

\* A spawner joins its threads.
LEMMA SpawnerJoin ==
  ASSUME SpawnInv, NEW p \in Spawners, Join(p)
  PROVE  SpawnInv'
<1>. DEFINE l == Len(Table[p])
<1>1. /\ At(p, "join") /\ pc[p] \in Nat /\ Half(p) = HalfOf(pc[p], round[p])
      /\ l \in Nat /\ Stage(pc[p], round[p], next[p], l)
      /\ SpawnerOK(p) /\ p \in Nodes /\ p \in Threads
      /\ UNCHANGED <<round, level, tid, conn, names, lock, synced, arrived, released, fence, told,
                     panicked>>
  BY Zenon, HalfIs, SpawnParts, ThreadKinds DEF Join
<1>2. pc[p] = 15
  BY Zenon, <1>1, SpawnerAt
<1>3. /\ pc[p] # 6 /\ pc[p] \in 3 .. 18 /\ pc[p] + 1 \in 3 .. 18 /\ pc[p] \in {1, 2, 15, 18, 19}
  BY <1>2
<1>9. /\ synced' \in SUBSET Spawners /\ p \in synced'
      /\ \A q \in Spawners \ {p} : q \in synced' <=> q \in synced
  BY Zenon, <1>1, <1>3 DEF SpawnerOK, SpawnInv, SpawnTypes
<1>a. /\ level' \in [Threads -> -1 .. SPAWN_RING_LAST] /\ \A q \in Programs : level'[q] = level[q]
      /\ conn' \in [Nodes -> SUBSET Servers] /\ \A q \in Programs : conn'[q] = conn[q]
      /\ fence' \in [Nodes -> Nat] /\ \A q \in Nodes : fence[q] >= 4 => fence'[q] >= 4
  BY Zenon, <1>1 DEF SpawnInv, SpawnTypes
<1>4. CASE next[p] \in DOMAIN Table[p]
  <2>1. next' = [next EXCEPT ![p] = next[p] + 1] /\ pc' = pc
    BY Zenon, <1>4 DEF Join
  <2>2. next \in [Nodes -> Nat \ {0}] /\ next[p] \in Nat \ {0} /\ \A q \in Spawners : q \in Nodes
    BY Zenon, <1>1, SpawnParts, ThreadKinds
  <2>3. /\ next' \in [Nodes -> Nat \ {0}] /\ next'[p] = next[p] + 1
        /\ \A q \in Spawners \ {p} : next'[q] = next[q]
    <3>1. next[p] + 1 \in Nat \ {0}
      BY <2>2
    <3>. QED
      BY Zenon, <1>1, <2>1, <2>2, <3>1
  <2>4. next[p] \in 1 .. l
    BY Zenon, <1>4, TableDomain
  <2>5. Stage(pc[p], round[p], next'[p], l)
    <3>1. Stage(15, round[p], next[p], l)
      BY Zenon, <1>1, <1>2
    <3>. HIDE DEF l
    <3>2. Stage(15, round[p], next[p] + 1, l)
      BY Zenon, <1>1, <2>4, <3>1, StageJoin
    <3>. QED
      BY Zenon, <1>2, <2>3, <3>2
  <2>6. ASSUME NEW s \in Servers, Home[s] = p PROVE Created(s)' <=> Created(s)
    <3>1. Ring[s] \in 0 .. 5 /\ Place[s] \in 1 .. l
      BY Zenon, <2>6, ServerPlace
    <3>2. Made(Ring[s], Place[s], round[p], next[p] + 1) <=> Made(Ring[s], Place[s], round[p], next[p])
      BY Zenon, <1>1, <1>2, <3>1, MadeJoin
    <3>. QED
      BY Zenon, <1>1, <2>3, <2>6, <3>2 DEF Created
  <2>7. pc' = [pc EXCEPT ![p] = pc[p]]
    <3>1. pc \in [Threads -> Nat]
      BY Zenon, SpawnParts
    <3>. QED
      BY <1>1, <2>1, <3>1
  <2>8. FencesOK'
    BY Zenon, <1>1, <2>1, FencesKeep DEF SpawnInv
  <2>9. /\ (p \in synced' <=> pc[p] \in 3 .. 18) /\ HalfOf(pc[p], round[p]) = Half(p)
        /\ \A s \in Servers : Home[s] = p => (Created(s)' <=> Created(s))
    BY Zenon, <1>1, <1>3, <1>9, <2>6
  <2>. QED
    BY Zenon, <1>1, <1>3, <1>9, <1>a, <2>3, <2>5, <2>7, <2>8, <2>9, SpawnerCalm
<1>5. CASE next[p] \notin DOMAIN Table[p]
  <2>1. pc' = [pc EXCEPT ![p] = pc[p] + 1] /\ UNCHANGED next
    BY Zenon, <1>5 DEF Join, Advance, Jump
  <2>. QED
    BY Zenon, <1>1, <1>3, <1>9, <1>a, <2>1, SpawnerSimple
<1>. QED
  BY Zenon, <1>4, <1>5

\* A semaphore that has a unit, and at most one, has one.
LEMMA OneUnit ==
  ASSUME NEW n \in {0, 1}, n > 0
  PROVE  n = 1
OBVIOUS

\* A spawner goes on after the startup of a server.
LEMMA SpawnerDown ==
  ASSUME SpawnInv, NEW p \in Spawners, Down(p)
  PROVE  SpawnInv'
<1>1. /\ At(p, "down") /\ pc[p] \in Nat /\ Half(p) = HalfOf(pc[p], round[p])
      /\ Len(Table[p]) \in Nat /\ Stage(pc[p], round[p], next[p], Len(Table[p]))
      /\ SpawnerOK(p) /\ p \in Nodes /\ lock[p] > 0
  BY Zenon, HalfIs, SpawnParts, ThreadKinds DEF Down
<1>2. pc[p] = 6
  BY Zenon, <1>1, SpawnerAt
<1>3. lock[p] = 1
  BY Zenon, <1>1, OneUnit DEF SpawnerOK
<1>4. /\ pc' = [pc EXCEPT ![p] = pc[p] + (-1)] /\ lock' = [lock EXCEPT ![p] = lock[p] - 1]
      /\ UNCHANGED <<next, round, level, tid, conn, names, synced, arrived, released, fence, told,
                     panicked>>
  BY Zenon DEF Down, Jump
<1>5. /\ pc' = [pc EXCEPT ![p] = 5] /\ lock' = [lock EXCEPT ![p] = 0] /\ 5 \in Nat /\ 0 \in Nat
  BY <1>2, <1>3, <1>4
<1>6. 5 # 6 /\ 5 \in 3 .. 18 /\ 6 \in 3 .. 18 /\ 5 \in 1 .. 20 /\ 6 \in 1 .. 20 /\ 5 \in 5 .. 9
      /\ 6 \in 5 .. 9 /\ 0 # 1
  OBVIOUS
<1>7. pc'[p] = 5 /\ \A q \in Spawners \ {p} : pc'[q] = pc[q]
  BY Zenon, <1>5, SpawnerMove
<1>8. lock' \in [Spawners -> Nat] /\ lock'[p] = 0 /\ \A q \in Spawners \ {p} : lock'[q] = lock[q]
  BY Zenon, <1>5, SpawnParts
<1>9. Stage(5, round[p], next[p], Len(Table[p])) /\ HalfOf(5, round[p]) = Half(p)
  BY Zenon, <1>1, <1>2, StageDown
<1>a. SpawnerOK(p)'
  BY Zenon, <1>1, <1>2, <1>4, <1>6, <1>7, <1>8, <1>9 DEF SpawnerOK
<1>b. \A f \in Followers : BarrierOK(f)'
  <2>1. Half(p)' = Half(p)
    BY Zenon, <1>4, <1>7, <1>9 DEF Half
  <2>2. \A q \in Spawners : Half(q)' = Half(q) /\ round'[q] = round[q]
    BY Zenon, <1>4, <1>7, <2>1 DEF Half
  <2>. QED
    BY Zenon, <1>4, <2>2, BarrierKeeps DEF SpawnInv
<1>c. FencesOK'
  <2>1. Arrivals(p, 5) = Arrivals(p, 6) /\ Departures(p, 5) = Departures(p, 6)
    BY Zenon, <1>6, SpawnerFences
  <2>2. fence' = fence
    BY Zenon, <1>4
  <2>. QED
    BY Zenon, <1>1, <1>2, <1>5, <2>1, <2>2, NodeFences
<1>d. ASSUME NEW s \in Servers, Home[s] = p
      PROVE  (Created(s)' <=> Created(s)) /\ (Awaited(s)' <=> Awaited(s))
  <2>1. Created(s)' <=> Created(s)
    BY Zenon, <1>4 DEF Created
  <2>2. ~Awaited(s)
    <3>1. lock[p] # 0
      BY <1>3
    <3>. QED
      BY Zenon, <1>d, <3>1 DEF Awaited
  <2>3. ~Awaited(s)'
    BY Zenon, <1>6, <1>7, <1>d DEF Awaited
  <2>. QED
    BY Zenon, <2>1, <2>2, <2>3
<1>e. /\ next' \in [Nodes -> Nat \ {0}] /\ \A q \in Spawners \ {p} : next'[q] = next[q]
      /\ round' \in [Spawners -> Nat] /\ \A q \in Spawners \ {p} : round'[q] = round[q]
      /\ synced' \in SUBSET Spawners /\ \A q \in Spawners \ {p} : q \in synced' <=> q \in synced
      /\ arrived' \in SUBSET Followers /\ released' \in SUBSET Followers
      /\ level' \in [Threads -> -1 .. SPAWN_RING_LAST] /\ \A q \in Programs : level'[q] = level[q]
      /\ conn' \in [Nodes -> SUBSET Servers] /\ \A q \in Programs : conn'[q] = conn[q]
      /\ fence' \in [Nodes -> Nat] /\ \A q \in Nodes : fence[q] >= 4 => fence'[q] >= 4
  BY Zenon, <1>4 DEF SpawnInv, SpawnTypes
<1>f. \A s \in Servers : Home[s] = p => (Created(s)' <=> Created(s)) /\ (Awaited(s)' <=> Awaited(s))
  BY Zenon, <1>d
<1>g. UNCHANGED <<tid, names, told, panicked>>
  BY Zenon, <1>4
<1>. QED
  BY ZenonT(40), <1>5, <1>8, <1>a, <1>b, <1>c, <1>e, <1>f, <1>g, SpawnerFrame

-----------------------------------------------------------------------------
\* The arithmetic of the loop over the table: the next server that it starts,
\* in round r from index x on, is the one at place i.
LEMMA MadeNext ==
  ASSUME NEW r, NEW x, NEW l \in Nat, Stage(5, r, x, l), NEW i \in 1 .. l, i >= x,
         NEW g \in 0 .. 5, NEW k \in 1 .. l, g = r /\ k >= x => i <= k
  PROVE  /\ Made(g, k, r, x) <=> (g < r \/ (g = r /\ k < i))
         /\ k # i => (Made(g, k, r, i + 1) <=> Made(g, k, r, x))
         /\ (i + 1) - 1 = i /\ Made(r, i, r, i + 1) /\ ~Made(r, i, r, x)
BY DEF Stage, Made

\* It is the only one that is started.
LEMMA MadeSkips ==
  ASSUME NEW r, NEW x, NEW l \in Nat, Stage(5, r, x, l), NEW i \in 1 .. l, i >= x,
         NEW g \in 0 .. 5, NEW k \in 1 .. l, g = r /\ k >= x => i <= k, k # i
  PROVE  Made(g, k, r, i + 1) <=> Made(g, k, r, x)
BY DEF Stage, Made

\* The index after that of the server.
LEMMA IndexNext ==
  ASSUME NEW l \in Nat, NEW i \in 1 .. l, NEW r
  PROVE  i + 1 \in Nat \ {0} /\ (i + 1) - 1 = i /\ Made(r, i, r, i + 1)
BY DEF Made

\* The server that spawner p starts next: those that it has started are the
\* ones before it, so that the number of its thread is its port.
LEMMA NextServer ==
  ASSUME SpawnInv, NEW p \in Spawners, pc[p] = 5, NEW i \in Foremost(Pending(p))
  PROVE  /\ i \in DOMAIN Table[p] /\ i \in 1 .. Len(Table[p]) /\ i >= next[p]
         /\ Ring[Table[p][i]] = round[p]
         /\ \A s \in Servers : Home[s] = p =>
              (Ring[s] = round[p] /\ Place[s] >= next[p] => i <= Place[s])
         /\ {s \in ServersOf(p) : tid[s] > 0} = Before(Table[p][i])
<1>. DEFINE u == Table[p][i]
            l == Len(Table[p])
<1>1. /\ l \in Nat /\ DOMAIN Table[p] = 1 .. l /\ Stage(5, round[p], next[p], l)
  BY Zenon, HalfIs, TableDomain
<1>3. i \in Pending(p) /\ \A j \in Pending(p) : i <= j
  BY Zenon DEF Foremost
<1>4. i \in DOMAIN Table[p] /\ i \in 1 .. l /\ i >= next[p] /\ Ring[u] = round[p]
  BY Zenon, <1>1, <1>3 DEF Pending
<1>5. u \in Servers /\ Home[u] = p /\ Place[u] = i
  BY Zenon, <1>4, PlaceOf
<1>6. ASSUME NEW s \in Servers, Home[s] = p
      PROVE  Ring[s] = round[p] /\ Place[s] >= next[p] => i <= Place[s]
  <2>1. Place[s] \in DOMAIN Table[p] /\ Table[p][Place[s]] = s
    BY Zenon, <1>6, HomeOf
  <2>. QED
    BY Zenon, <1>3, <2>1 DEF Pending
<1>7. ASSUME NEW s \in ServersOf(p)
      PROVE  tid[s] > 0 <=> \/ Ring[s] < Ring[u]
                            \/ Ring[s] = Ring[u] /\ Place[s] < Place[u]
  <2>1. s \in Servers /\ Home[s] = p
    <3>1. PICK j \in DOMAIN Table[p] : s = Table[p][j]
      BY Zenon DEF ServersOf
    <3>. QED
      BY Zenon, <3>1, PlaceOf
  <2>2. Ring[s] \in 0 .. 5 /\ Place[s] \in 1 .. l /\ ServerOK(s)
    BY Zenon, <2>1, ServerPlace
  <2>3. Ring[s] = round[p] /\ Place[s] >= next[p] => i <= Place[s]
    BY Zenon, <1>6, <2>1
  <2>. HIDE DEF l
  <2>4. Made(Ring[s], Place[s], round[p], next[p]) <=>
          (Ring[s] < round[p] \/ (Ring[s] = round[p] /\ Place[s] < i))
    BY <1>1, <1>4, <2>2, <2>3, MadeNext
  <2>5. tid[s] > 0 <=> Created(s)
    <3>1. Port[s] \in Nat \ {0}
      BY Zenon, <2>1, SpawnAssumption
    <3>2. Port[s] > 0 /\ ~(0 > 0)
      BY <3>1
    <3>3. tid[s] = IF Created(s) THEN Port[s] ELSE 0
      BY Zenon, <2>2 DEF ServerOK
    <3>. QED
      BY Zenon, <3>2, <3>3
  <2>. QED
    BY Zenon, <1>4, <1>5, <2>1, <2>4, <2>5 DEF Created
<1>8. \A s : s \in {r \in ServersOf(p) : tid[r] > 0} <=> s \in Before(u)
  BY Zenon, <1>5, <1>7 DEF Before
<1>9. {r \in ServersOf(p) : tid[r] > 0} = Before(u)
  BY Zenon, <1>8
<1>. QED
  BY Zenon, <1>4, <1>6, <1>9

\* A spawner starts a server, with the number that is its port.
LEMMA SpawnerCreates ==
  ASSUME SpawnInv, NEW p \in Spawners, CreateServer(p)
  PROVE  SpawnInv'
<1>. DEFINE l == Len(Table[p])
<1>i. PICK i \in Foremost(Pending(p)) :
        /\ pc' = [pc EXCEPT ![p] = pc[p] + 1, ![Table[p][i]] = 1]
        /\ tid' = [tid EXCEPT ![Table[p][i]] = 2 + Cardinality({s \in ServersOf(p) : tid[s] > 0})]
        /\ next' = [next EXCEPT ![p] = i + 1]
  BY Zenon DEF CreateServer
<1>u. PICK u : u = Table[p][i]
  BY Zenon
<1>1. /\ At(p, "create") /\ pc[p] \in Nat /\ Half(p) = HalfOf(pc[p], round[p])
      /\ l \in Nat /\ Stage(pc[p], round[p], next[p], l)
      /\ SpawnerOK(p) /\ p \in Nodes /\ p \in Threads
  BY Zenon, HalfIs, SpawnParts, ThreadKinds DEF CreateServer
<1>2. pc[p] = 5
  BY Zenon, <1>1, SpawnerAt
<1>3. /\ i \in DOMAIN Table[p] /\ i \in 1 .. l /\ i >= next[p] /\ Ring[u] = round[p]
      /\ \A s \in Servers : Home[s] = p =>
           (Ring[s] = round[p] /\ Place[s] >= next[p] => i <= Place[s])
      /\ {s \in ServersOf(p) : tid[s] > 0} = Before(u)
  BY Zenon, <1>2, <1>u, NextServer
<1>4. u \in Servers /\ Home[u] = p /\ Place[u] = i
  BY Zenon, <1>3, <1>u, PlaceOf
<1>5. u \in Threads /\ u # p
  BY <1>4, ThreadKinds
<1>6. Port[u] = 2 + Cardinality(Before(u)) /\ Port[u] \in Nat
  BY Zenon, <1>4, SpawnAssumption
<1>7. /\ pc' = [pc EXCEPT ![p] = pc[p] + 1, ![u] = 1]
      /\ tid' = [tid EXCEPT ![u] = Port[u]]
      /\ next' = [next EXCEPT ![p] = i + 1]
      /\ UNCHANGED <<round, level, conn, names, lock, synced, arrived, released, fence, told, panicked>>
  BY Zenon, <1>3, <1>6, <1>i, <1>u DEF CreateServer
<1>8. /\ Stage(5, round[p], next[p], l) /\ Stage(6, round[p], i + 1, l)
      /\ HalfOf(6, round[p]) = Half(p)
  <2>1. Stage(5, round[p], next[p], l)
    BY Zenon, <1>1, <1>2
  <2>. HIDE DEF l
  <2>. QED
    BY Zenon, <1>1, <1>2, <1>3, <2>1, StageCreate
<1>. HIDE DEF l
<1>9. /\ pc' \in [Threads -> Nat] /\ pc'[p] = 6 /\ pc'[u] = 1
      /\ \A t \in Threads \ {p, u} : pc'[t] = pc[t]
  <2>1. pc \in [Threads -> Nat]
    BY Zenon, SpawnParts
  <2>2. pc[p] + 1 = 6 /\ 6 \in Nat /\ 1 \in Nat
    BY <1>2
  <2>. QED
    BY <1>1, <1>5, <1>7, <2>1, <2>2
<1>a. /\ next' \in [Nodes -> Nat \ {0}] /\ next'[p] = i + 1
      /\ \A q \in Spawners \ {p} : next'[q] = next[q]
  <2>1. i + 1 \in Nat \ {0}
    BY Zenon, <1>1, <1>3, IndexNext
  <2>2. next \in [Nodes -> Nat \ {0}] /\ \A q \in Spawners : q \in Nodes
    BY Zenon, SpawnParts, ThreadKinds
  <2>. QED
    BY Zenon, <1>1, <1>7, <2>1, <2>2
<1>b. /\ tid' \in [Servers -> Nat] /\ tid'[u] = Port[u] /\ \A s \in Servers \ {u} : tid'[s] = tid[s]
  BY Zenon, <1>4, <1>6, <1>7, SpawnParts
<1>c. \A q \in Nodes \ {p} : pc'[q] = pc[q]
  BY Zenon, <1>4, <1>9, ThreadKinds
<1>d. lock[p] = 0 /\ p \in synced
  <2>1. 5 # 6 /\ 5 \in 3 .. 18
    OBVIOUS
  <2>. QED
    BY Zenon, <1>1, <1>2, <2>1 DEF SpawnerOK
<1>e. ASSUME NEW q \in Spawners PROVE SpawnerOK(q)'
  <2>1. CASE q = p
    <3>1. 6 \in 3 .. 18 /\ 0 # 1
      OBVIOUS
    <3>2. Ring[Table[p][next'[p] - 1]] = round[p]
      <4>1. (i + 1) - 1 = i
        BY Zenon, <1>1, <1>3, IndexNext
      <4>. QED
        BY Zenon, <1>3, <1>a, <1>u, <4>1
    <3>3. Stage(6, round[p], next'[p], Len(Table[p]))
      BY Zenon, <1>8, <1>a DEF l
    <3>4. /\ pc'[q] = 6 /\ q = p /\ p \in synced' /\ lock'[p] = 0 /\ round'[p] = round[p]
      BY Zenon, <1>7, <1>9, <1>d, <2>1
    <3>. QED
      BY Zenon, <3>1, <3>2, <3>3, <3>4 DEF SpawnerOK
  <2>2. CASE q # p
    <3>1. /\ SpawnerOK(q) /\ pc'[q] = pc[q] /\ next'[q] = next[q] /\ round'[q] = round[q]
          /\ lock'[q] = lock[q] /\ (q \in synced' <=> q \in synced)
      BY Zenon, <1>7, <1>a, <1>c, <2>2, SpawnParts, ThreadKinds
    <3>. QED
      BY Zenon, <3>1, SpawnerKeeps
  <2>. QED
    BY Zenon, <2>1, <2>2
<1>f. \A f \in Followers : BarrierOK(f)'
  <2>1. Half(p)' = Half(p)
    BY Zenon, <1>7, <1>8, <1>9 DEF Half
  <2>2. \A q \in Spawners : Half(q)' = Half(q) /\ round'[q] = round[q]
    BY Zenon, <1>7, <1>c, <2>1, ThreadKinds DEF Half
  <2>. QED
    BY Zenon, <1>7, <2>2, BarrierKeeps DEF SpawnInv
<1>g. FencesOK'
  <2>1. 5 \in 1 .. 20 /\ 6 \in 1 .. 20 /\ 5 \in 5 .. 9 /\ 6 \in 5 .. 9
    OBVIOUS
  <2>2. Arrivals(p, 6) = Arrivals(p, 5) /\ Departures(p, 6) = Departures(p, 5)
    BY Zenon, <2>1, SpawnerFences
  <2>3. \A q \in Nodes : /\ Arrivals(q, pc'[q]) = Arrivals(q, pc[q])
                         /\ Departures(q, pc'[q]) = Departures(q, pc[q])
    BY Zenon, <1>2, <1>9, <1>c, <2>2
  <2>. QED
    BY Zenon, <1>7, <2>3, FencesKeep DEF SpawnInv
<1>h. ASSUME NEW q \in Programs PROVE ProgramOK(q)'
  <2>1. q \in Nodes /\ q # p
    BY ThreadKinds
  <2>2. pc'[q] = pc[q] /\ level'[q] = level[q] /\ conn'[q] = conn[q]
    BY Zenon, <1>7, <1>c, <2>1
  <2>. QED
    BY Zenon, <2>2, ProgramKeeps, SpawnParts
<1>m. ServerOK(u)'
  <2>1. Ring[u] \in 0 .. 5 /\ round'[p] = round[p] /\ lock'[p] = 0
    BY Zenon, <1>4, <1>7, <1>d, ServerPlace
  <2>2. (i + 1) - 1 = i /\ Made(round[p], i, round[p], i + 1)
    BY Zenon, <1>1, <1>3, IndexNext
  <2>3. Created(u)'
    BY Zenon, <1>3, <1>4, <1>a, <2>1, <2>2 DEF Created
  <2>4. Awaited(u)'
    BY Zenon, <1>3, <1>4, <1>9, <1>a, <2>1, <2>2 DEF Awaited
  <2>5. 1 \in 0 .. 6 /\ 1 # 0 /\ 1 \in 1 .. 3 /\ ~(1 >= 3) /\ ~(1 >= 5)
    OBVIOUS
  <2>6. u \in told' => \A q \in Nodes : fence'[q] >= 4
    BY Zenon, <1>4, <1>7, SpawnParts DEF ServerOK
  <2>. QED
    BY Zenon, <1>9, <1>b, <2>3, <2>4, <2>5, <2>6 DEF ServerOK
<1>j. ASSUME NEW s \in Servers \ {u} PROVE ServerOK(s)'
  <2>1. s \in Threads \ {p, u} /\ Home[s] \in Spawners
    <3>1. Home[s] \in Spawners
      BY HomeOf
    <3>2. s \in Threads /\ s # p
      BY ThreadKinds
    <3>. QED
      BY Zenon, <3>1, <3>2
  <2>2. /\ pc'[s] = pc[s] /\ tid'[s] = tid[s] /\ ServerOK(s) /\ (s \in names => s \in names')
        /\ (s \in told' => s \in told) /\ \A q \in Nodes : fence[q] >= 4 => fence'[q] >= 4
    BY Zenon, <1>7, <1>9, <1>b, <2>1, SpawnParts
  <2>3. (Created(s)' <=> Created(s)) /\ (Awaited(s)' <=> Awaited(s))
    <3>1. CASE Home[s] = p
      <4>1. /\ Ring[s] \in 0 .. 5 /\ Place[s] \in 1 .. l
            /\ Place[s] \in DOMAIN Table[p] /\ Table[p][Place[s]] = s
        BY Zenon, <3>1, ServerPlace, HomeOf DEF l
      <4>2. Place[s] # i
        BY Zenon, <1>u, <4>1
      <4>3. Ring[s] = round[p] /\ Place[s] >= next[p] => i <= Place[s]
        BY Zenon, <1>3, <3>1
      <4>4. /\ Made(Ring[s], Place[s], round[p], i + 1) <=> Made(Ring[s], Place[s], round[p], next[p])
            /\ (i + 1) - 1 = i
        <5>1. /\ l \in Nat /\ i \in 1 .. l /\ i >= next[p]
              /\ Stage(5, round[p], next[p], l)
          BY Zenon, <1>1, <1>3, <1>8
        <5>2. (i + 1) - 1 = i
          BY Zenon, <5>1, IndexNext
        <5>. QED
          BY Zenon, <4>1, <4>2, <4>3, <5>1, <5>2, MadeSkips
      <4>5. Created(s)' <=> Created(s)
        BY Zenon, <1>7, <1>a, <3>1, <4>4 DEF Created
      <4>6. ~Awaited(s)'
        BY Zenon, <1>a, <3>1, <4>2, <4>4 DEF Awaited
      <4>7. ~Awaited(s)
        <5>1. pc[p] # 6
          BY <1>2
        <5>. QED
          BY Zenon, <3>1, <5>1 DEF Awaited
      <4>. QED
        BY Zenon, <4>5, <4>6, <4>7
    <3>2. CASE Home[s] # p
      <4>1. Home[s] \in Nodes \ {p}
        BY Zenon, <2>1, <3>2, ThreadKinds
      <4>2. next'[Home[s]] = next[Home[s]] /\ pc'[Home[s]] = pc[Home[s]]
        BY Zenon, <1>a, <1>c, <2>1, <3>2, <4>1
      <4>. QED
        BY Zenon, <1>7, <4>2 DEF Created, Awaited
    <3>. QED
      BY Zenon, <3>1, <3>2
  <2>. QED
    BY Zenon, <2>2, <2>3, ServerKeeps
<1>k. SpawnTypes' /\ panicked' = {}
  BY Zenon, <1>7, <1>9, <1>a, <1>b DEF SpawnInv, SpawnTypes
<1>l. \A s \in Servers : ServerOK(s)'
  BY Zenon, <1>j, <1>m
<1>. QED
  BY Zenon, <1>e, <1>f, <1>g, <1>h, <1>k, <1>l DEF SpawnInv

-----------------------------------------------------------------------------
(***************************************************************************)
(* The theorems.                                                           *)
(***************************************************************************)

\* The machine starts with the invariant.
LEMMA SpawnInitOK == SpawnInit => SpawnInv
<1>. SUFFICES ASSUME SpawnInit PROVE SpawnInv
  OBVIOUS
<1>1. /\ \A p \in Nodes : p \in Threads /\ p \notin Servers
      /\ \A s \in Servers : s \in Threads
      /\ \A p \in Spawners : p \in Nodes
      /\ \A p \in Programs : p \in Nodes
  BY Zenon, ThreadKinds
<1>2. /\ \A p \in Nodes : pc[p] = 1 /\ next[p] = 1 /\ conn[p] = {} /\ fence[p] = 0 /\ level[p] = -1
      /\ \A s \in Servers : pc[s] = 0 /\ tid[s] = 0
      /\ \A p \in Spawners : round[p] = 0 /\ lock[p] = 0
      /\ names = {} /\ synced = {} /\ arrived = {} /\ released = {} /\ told = {} /\ panicked = {}
  BY Zenon, <1>1 DEF SpawnInit, SPAWN_RING_FIRST
<1>3. SpawnTypes
  <2>1. /\ 0 \in Nat /\ 1 \in Nat /\ 1 \in Nat \ {0} /\ -1 \in -1 .. SPAWN_RING_LAST
    BY DEF SPAWN_RING_LAST
  <2>2. \A t \in Threads : (IF t \in Servers THEN 0 ELSE 1) \in Nat
    BY Zenon, <2>1
  <2>. QED
    BY Zenon, <2>1, <2>2 DEF SpawnInit, SpawnTypes, SPAWN_RING_FIRST
<1>4. FencesOK
  <2>1. \A p \in Nodes : Arrivals(p, 1) = 0 /\ Departures(p, 1) = 0
    BY DEF Arrivals, Departures
  <2>2. 0 >= 0
    OBVIOUS
  <2>. QED
    BY Zenon, <1>2, <2>1, <2>2 DEF FencesOK
<1>5. ASSUME NEW p \in Spawners PROVE SpawnerOK(p)
  <2>1. Len(Table[p]) \in Nat
    BY Zenon, TableDomain
  <2>2. Stage(1, 0, 1, Len(Table[p])) /\ 1 \notin 3 .. 18 /\ 0 # 1 /\ 1 # 6
    BY <2>1 DEF Stage
  <2>3. pc[p] = 1 /\ next[p] = 1 /\ round[p] = 0 /\ lock[p] = 0 /\ p \notin synced
    BY Zenon, <1>1, <1>2
  <2>. QED
    BY Zenon, <2>2, <2>3 DEF SpawnerOK
<1>6. ASSUME NEW f \in Followers PROVE BarrierOK(f)
  <2>1. f \in Spawners /\ Leader \in Spawners
    BY Zenon, ThreadKinds
  <2>2. \A p \in Spawners : Half(p) = HalfOf(1, 0) /\ round[p] = 0
    BY Zenon, <1>1, <1>2 DEF Half
  <2>. QED
    BY Zenon, <1>2, <2>1, <2>2 DEF BarrierOK
<1>7. ASSUME NEW s \in Servers PROVE ServerOK(s)
  <2>1. Home[s] \in Spawners /\ Place[s] \in DOMAIN Table[Home[s]]
    BY Zenon, HomeOf
  <2>2. DOMAIN Table[Home[s]] = 1 .. Len(Table[Home[s]]) /\ Ring[s] \in 0 .. 5
    BY Zenon, <2>1, TableDomain, RingOf
  <2>3. ~Made(Ring[s], Place[s], 0, 1)
    BY <2>1, <2>2 DEF Made
  <2>4. ~Created(s)
    BY Zenon, <1>1, <1>2, <2>1, <2>3 DEF Created
  <2>5. 1 # 6 /\ 0 \in 0 .. 6 /\ ~(0 \in 1 .. 3) /\ ~(0 >= 3) /\ ~(0 >= 5)
    OBVIOUS
  <2>6. ~Awaited(s)
    BY Zenon, <1>1, <1>2, <2>1, <2>5 DEF Awaited
  <2>. QED
    BY Zenon, <1>2, <2>4, <2>5, <2>6 DEF ServerOK
<1>8. ASSUME NEW p \in Programs PROVE ProgramOK(p)
  <2>1. pc[p] = 1 /\ conn[p] = {} /\ level[p] = -1
    BY Zenon, <1>1, <1>2
  <2>. QED
    BY <2>1 DEF ProgramOK, SetupAt, CleanupAt
<1>. QED
  BY Zenon, <1>2, <1>3, <1>4, <1>5, <1>6, <1>7, <1>8 DEF SpawnInv

\* A step that changes nothing.
LEMMA SpawnStutter ==
  ASSUME SpawnInv, UNCHANGED spawnvars
  PROVE  SpawnInv'
<1>1. UNCHANGED <<pc, next, round, level, tid, conn, names, lock, synced, arrived, released, fence,
                  told, panicked>>
  BY Zenon DEF spawnvars
<1>2. SpawnTypes' /\ panicked' = {}
  BY Zenon, <1>1 DEF SpawnInv, SpawnTypes
<1>3. FencesOK'
  BY Zenon, <1>1, FencesKeep DEF SpawnInv
<1>4. \A p \in Spawners : SpawnerOK(p)'
  BY Zenon, <1>1, SpawnerKeeps DEF SpawnInv
<1>5. \A f \in Followers : BarrierOK(f)'
  BY Zenon, <1>1, BarrierKeeps DEF SpawnInv, Half
<1>6. ASSUME NEW s \in Servers PROVE ServerOK(s)'
  <2>1. (Created(s)' <=> Created(s)) /\ (Awaited(s)' <=> Awaited(s))
    BY Zenon, <1>1 DEF Created, Awaited
  <2>. QED
    BY Zenon, <1>1, <2>1, ServerKeeps DEF SpawnInv
<1>7. \A p \in Programs : ProgramOK(p)'
  BY Zenon, <1>1, ProgramKeeps DEF SpawnInv
<1>. QED
  BY Zenon, <1>2, <1>3, <1>4, <1>5, <1>6, <1>7 DEF SpawnInv

\* Every step keeps the invariant.
LEMMA SpawnNextOK ==
  ASSUME SpawnInv, [SpawnNext]_spawnvars
  PROVE  SpawnInv'
<1>1. ASSUME NEW t \in Threads, ThreadStep(t) PROVE SpawnInv'
  <2>1. CASE t \in Spawners
    <3>0. t \notin Servers /\ t \notin Programs
      BY Zenon, <2>1, ThreadKinds
    <3>1. CASE RuntimeStep(t)
      BY Zenon, <2>1, <3>1, SpawnerRuntime
    <3>2. CASE FenceStep(t)
      BY Zenon, <2>1, <3>2, SpawnerFence
    <3>3. CASE SpawnerStep(t)
      BY Zenon, <2>1, <3>3, SpawnerCreates, SpawnerRingDone, SpawnerDown, SpawnerJoin, SpawnerBarrier,
         LeaderWaits, LeaderSignals, FollowerSignals, FollowerWaits DEF SpawnerStep
    <3>. QED
      BY Zenon, <1>1, <3>0, <3>1, <3>2, <3>3 DEF ThreadStep
  <2>2. CASE t \in Programs
    <3>0. t \notin Servers /\ t \notin Spawners
      BY Zenon, <2>2, ThreadKinds
    <3>1. CASE RuntimeStep(t)
      BY Zenon, <2>2, <3>1, ProgramConnect, ProgramSetup, ProgramCleanup, ProgramLink DEF RuntimeStep
    <3>2. CASE FenceStep(t)
      BY Zenon, <2>2, <3>2, ProgramFence
    <3>3. CASE ProgramStep(t)
      BY Zenon, <2>2, <3>3, ProgramUnlink, ProgramMain, ProgramShutdown, ProgramExit DEF ProgramStep
    <3>. QED
      BY Zenon, <1>1, <3>0, <3>1, <3>2, <3>3 DEF ThreadStep
  <2>3. CASE t \in Servers
    <3>0. t \notin Programs /\ t \notin Spawners /\ t \notin Nodes
      BY Zenon, <2>3, ThreadKinds
    <3>1. CASE RuntimeStep(t)
      BY Zenon, <2>3, <3>1, ServerConnect, ServerSetup, ServerCleanup, ServerLink DEF RuntimeStep
    <3>2. CASE ServerStep(t)
      BY Zenon, <2>3, <3>2, ServerUp, ServerLeave DEF ServerStep
    <3>. QED
      BY Zenon, <1>1, <3>0, <3>1, <3>2 DEF ThreadStep
  <2>. QED
    BY Zenon, <2>1, <2>2, <2>3, ThreadKinds
<1>2. CASE Halted
  BY Zenon, <1>2, SpawnStutter DEF Halted
<1>3. CASE UNCHANGED spawnvars
  BY Zenon, <1>3, SpawnStutter
<1>. QED
  BY Zenon, <1>1, <1>2, <1>3 DEF SpawnNext

\* The invariant gives the types, with their bounds.
LEMMA SpawnTyped ==
  ASSUME SpawnInv
  PROVE  SpawnTypeOK
<1>1. \A t \in Threads : pc[t] <= Len(Code[t]) + 1
  <2>. SUFFICES ASSUME NEW t \in Threads PROVE pc[t] <= Len(Code[t]) + 1
    OBVIOUS
  <2>1. CASE t \in Spawners
    <3>1. Stage(pc[t], round[t], next[t], Len(Table[t])) /\ Len(Table[t]) \in Nat
      BY Zenon, <2>1, HalfIs
    <3>2. \A n, r, x : \A l \in Nat : Stage(n, r, x, l) => n <= 19 + 1
      BY DEF Stage
    <3>3. pc[t] <= 19 + 1
      BY Zenon, <3>1, <3>2
    <3>. QED
      BY Zenon, <2>1, <3>3, SpawnerCode
  <2>2. CASE t \in Servers
    <3>1. pc[t] \in 0 .. 6
      BY Zenon, <2>2, SpawnParts DEF ServerOK
    <3>2. Len(Code[t]) = 5
      BY Zenon, <2>2, ServerCode
    <3>. QED
      BY <3>1, <3>2
  <2>3. CASE t \in Programs /\ t = Test
    <3>1. pc[t] \in 1 .. 15 + 1
      BY Zenon, <2>3, SpawnParts DEF ProgramOK, CleanupAt
    <3>2. Len(Code[t]) = 15
      BY Zenon, <2>3, TestCode
    <3>. QED
      BY <3>1, <3>2
  <2>4. CASE t \in Programs /\ t # Test
    <3>1. pc[t] \in 1 .. 17 + 1
      BY Zenon, <2>4, SpawnParts DEF ProgramOK, CleanupAt
    <3>2. Len(Code[t]) = 17
      BY Zenon, <2>4, CrtCode
    <3>. QED
      BY <3>1, <3>2
  <2>. QED
    BY Zenon, <2>1, <2>2, <2>3, <2>4, ThreadKinds
<1>2. round \in [Spawners -> 0 .. SPAWN_RING_LAST + 2]
  <2>1. \A n, r, x : \A l \in Nat : Stage(n, r, x, l) => r \in 0 .. SPAWN_RING_LAST + 2
    BY DEF Stage, SPAWN_RING_LAST
  <2>2. \A p \in Spawners : round[p] \in 0 .. SPAWN_RING_LAST + 2
    BY Zenon, <2>1, HalfIs
  <2>. QED
    BY Zenon, <2>2, SpawnParts
<1>3. lock \in [Spawners -> 0 .. 1]
  <2>1. 0 \in 0 .. 1 /\ 1 \in 0 .. 1
    OBVIOUS
  <2>2. \A p \in Spawners : lock[p] \in 0 .. 1
    BY Zenon, <2>1, SpawnParts DEF SpawnerOK
  <2>. QED
    BY Zenon, <2>2, SpawnParts
<1>4. fence \in [Nodes -> 0 .. 4]
  <2>1. ASSUME NEW p \in Nodes PROVE fence[p] \in 0 .. 4
    <3>1. pc[p] \in Nat /\ fence[p] = Arrivals(p, pc[p])
      BY Zenon, FenceAt DEF SpawnInv, FencesOK
    <3>. QED
      BY Zenon, <3>1, FenceNumbers
  <2>. QED
    BY Zenon, <2>1, SpawnParts
<1>5. next \in [Nodes -> Nat]
  BY SpawnParts
<1>6. panicked \subseteq Threads
  BY Zenon, SpawnParts
<1>. QED
  BY Zenon, <1>1, <1>2, <1>3, <1>4, <1>5, <1>6 DEF SpawnTypeOK, SpawnInv, SpawnTypes

\* A server past its startup is in its loop, in its cleanup, or has returned.
LEMMA ServerPast ==
  ASSUME SpawnInv, NEW s \in Servers, pc[s] \in 4 .. 6
  PROVE  /\ Serving(s) \/ At(s, "cleanup") \/ Done(s)
         /\ ~Serving(s) => pc[s] >= 5
<1>1. pc[s] \in Nat /\ panicked = {}
  BY Zenon, SpawnParts, ThreadKinds
<1>2. (pc[s] = 4 => At(s, "serve")) /\ (pc[s] = 5 => At(s, "cleanup"))
  BY Zenon, <1>1, ServerAt
<1>3. pc[s] = 6 => Done(s)
  <2>1. Len(Code[s]) = 5
    BY Zenon, ServerCode
  <2>. QED
    BY <2>1 DEF Done
<1>. QED
  BY <1>2, <1>3 DEF Serving

\* The invariant gives the properties.
LEMMA SpawnProperties ==
  SpawnInv => RingsInOrder /\ PortsMatch /\ NobodyPanics /\ ServersOutliveClients
<1>. SUFFICES ASSUME SpawnInv
              PROVE  RingsInOrder /\ PortsMatch /\ NobodyPanics /\ ServersOutliveClients
  OBVIOUS
<1>1. RingsInOrder
  <2>1. ASSUME NEW s \in Servers, NEW r \in Servers, pc[s] > 0, Ring[r] < Ring[s]
        PROVE  Serving(r) \/ At(r, "cleanup") \/ Done(r)
    <3>1. pc[s] # 0
      BY <2>1
    <3>2. pc[r] \in 4 .. 6
      BY Zenon, <2>1, <3>1, LowerRings
    <3>. QED
      BY Zenon, <3>2, ServerPast
  <2>. QED
    BY Zenon, <2>1, SpawnTyped DEF RingsInOrder
<1>2. PortsMatch
  BY Zenon, SpawnParts DEF PortsMatch, ServerOK
<1>3. NobodyPanics
  BY Zenon, SpawnParts DEF NobodyPanics
<1>4. ServersOutliveClients
  <2>1. ASSUME NEW p \in Programs, NEW s \in conn[p], NEW q \in Nodes, fence[q] < 4
        PROVE  Serving(s)
    <3>1. p \in Nodes /\ pc[p] \in Nat /\ ProgramOK(p) /\ s \in Servers
      BY Zenon, ProgramParts
    <3>2. ~(pc[p] < SetupAt(p))
      BY Zenon DEF ProgramOK, SpawnInv
    <3>3. pc[p] >= SetupAt(p)
      BY <3>1, <3>2 DEF SetupAt
    <3>4. pc[s] \in 4 .. 6
      BY Zenon, <3>1, <3>3, ProgramFenced
    <3>5. ~(fence[q] >= 4)
      <4>1. fence[q] \in Nat
        BY Zenon, SpawnParts
      <4>. QED
        BY <2>1, <4>1
    <3>6. ~(pc[s] >= 5)
      BY Zenon, <3>1, <3>5, SpawnParts DEF ServerOK
    <3>. QED
      BY Zenon, <3>1, <3>4, <3>6, ServerPast
  <2>. QED
    BY Zenon, <2>1 DEF ServersOutliveClients
<1>. QED
  BY Zenon, <1>1, <1>2, <1>3, <1>4

\* The invariant holds in every behaviour.
LEMMA SpawnInvariant == SpawnSpec => []SpawnInv
<1>1. SpawnInit => SpawnInv
  BY SpawnInitOK
<1>2. SpawnInv /\ [SpawnNext]_spawnvars => SpawnInv'
  BY Zenon, SpawnNextOK
<1>. QED
  BY <1>1, <1>2, PTL DEF SpawnSpec

\* The rings keep their order: a server of a ring starts when those of the
\* rings below are in their loops, on all spawners.
THEOREM SpawnRings == SpawnSpec => []RingsInOrder
<1>1. SpawnInv => RingsInOrder
  BY Zenon, SpawnProperties
<1>. QED
  BY <1>1, SpawnInvariant, PTL

\* A server that has been started has the thread number, and so listens on the
\* port, that its clients write to.
THEOREM SpawnPorts == SpawnSpec => []PortsMatch
<1>1. SpawnInv => PortsMatch
  BY Zenon, SpawnProperties
<1>. QED
  BY <1>1, SpawnInvariant, PTL

\* No assertion of the setup and of the shutdown of the runtime fails.
THEOREM SpawnNoPanic == SpawnSpec => []NobodyPanics
<1>1. SpawnInv => NobodyPanics
  BY Zenon, SpawnProperties
<1>. QED
  BY <1>1, SpawnInvariant, PTL

\* The servers that a program is connected to are in their loops until all
\* processes have arrived at the fourth fence.
THEOREM SpawnServersLive == SpawnSpec => []ServersOutliveClients
<1>1. SpawnInv => ServersOutliveClients
  BY Zenon, SpawnProperties
<1>. QED
  BY <1>1, SpawnInvariant, PTL

=============================================================================

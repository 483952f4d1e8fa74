----------------------------- MODULE Semaphore -----------------------------
(***************************************************************************)
(* The semaphores of the System V server: sysv/sem/sem.c, the request      *)
(* handlers of sysv/main.c and the client stub of                          *)
(* libruntime/pm/sysv/sem.c.  A call is a synchronous remote procedure     *)
(* call; the server is one thread, and answers no request of a process     *)
(* that it puts to sleep.                                                  *)
(***************************************************************************)
EXTENDS FiniteSets, Connection, IpcTable

CONSTANTS Clients,          \* clients, as pairs <<process, port>>
          NANVIX_SEM_MAX,   \* semaphores
          NANVIX_PROC_MAX,  \* entries of the table of sleeping connections
          GetCalls,         \* arguments <<key, flags>> that clients pass to get
          Ops,              \* values of sem_op that clients pass
          SemFlags,         \* values of sem_flg that clients pass
          Wild,             \* may a client use a semaphore that it did not get?
          MaxOpen,          \* bound: times a client has a semaphore open
          MaxConnections,   \* bound: connections of a client that calls
          MaxVal            \* bound: counter that a client may still add to

Semaphores == 0 .. NANVIX_SEM_MAX - 1
Sleepers == 0 .. NANVIX_PROC_MAX - 1

ASSUME SemAssumption ==
  /\ Clients \subseteq Nat \X Nat /\ IsFiniteSet(Clients)
  /\ NANVIX_SEM_MAX \in Nat \ {0}
  /\ NANVIX_PROC_MAX \in Nat \ {0}
  /\ GetCalls \subseteq (Keys \cup {IPC_PRIVATE}) \X SUBSET Flags
  /\ Ops \subseteq Int
  /\ SemFlags \subseteq {"0", "IPC_NOWAIT", "SEM_UNDO"}
  /\ Wild \in BOOLEAN
  /\ MaxOpen \in Nat
  /\ MaxConnections \in Nat
  /\ MaxVal \in Nat

VARIABLES
  semaphores,   \* the table of semaphores
  val,          \* val[s]: the counter of semaphore s
  sleeping,     \* the table of sleeping connections
  connections,  \* the table of connections
  requests,     \* the clients with a request in the mailbox of the server
  call,         \* call[c]: the request that c waits for, if any
  reply,        \* reply[c]: the message in the mailbox of c
  open          \* open[c][s]: how often c got semaphore s and did not close it

servervars == <<semaphores, val, sleeping, connections>>
vars == <<semaphores, val, sleeping, connections, requests, call, reply, open>>

NoCall == [op |-> "none"]
NoReply == [status |-> "none"]
Status(code, s) == [status |-> code, sem |-> s]
Awake == [conn |-> 0, semid |-> -1, val |-> 0]

\* Requests of the stub.
GetMsg(key, flags) == [op |-> "get", key |-> key, flags |-> flags]
CloseMsg(s) == [op |-> "close", sem |-> s]
OperateMsg(s, n, flg) == [op |-> "operate", sem |-> s, sem_op |-> n, sem_flg |-> flg]

\* do_sysv_server_startup() and do_sem_init()
Init ==
  /\ semaphores = EmptyTable(NANVIX_SEM_MAX)
  /\ val = [s \in Semaphores |-> 0]
  /\ sleeping = [i \in Sleepers |-> Awake]
  /\ connections = connections_setup
  /\ requests = {}
  /\ call = [c \in Clients |-> NoCall]
  /\ reply = [c \in Clients |-> NoReply]
  /\ open = [c \in Clients |-> [s \in Semaphores |-> 0]]

-----------------------------------------------------------------------------
(***************************************************************************)
(* The client stub.                                                        *)
(***************************************************************************)

\* A stub sends request m and waits for the reply.
Request(c, m) ==
  /\ call[c] = NoCall
  /\ requests' = requests \cup {c}
  /\ call' = [call EXCEPT ![c] = m]
  /\ UNCHANGED <<servervars, reply>>

MayUse(c, s) == Wild \/ open[c][s] > 0

\* __nanvix_semget(), up to the receive.
GetCall(c, key, flags) ==
  /\ \A s \in Semaphores : open[c][s] < MaxOpen
  /\ ConnectionsOf(connections, c) < MaxConnections
  /\ Request(c, GetMsg(key, flags))
  /\ UNCHANGED open

\* __nanvix_sem_close(), up to the receive: the caller gives the semaphore up.
CloseCall(c, s) ==
  /\ MayUse(c, s)
  /\ Request(c, CloseMsg(s))
  /\ open' = [open EXCEPT ![c][s] = IF @ > 0 THEN @ - 1 ELSE 0]

\* __nanvix_semop(), up to the receive.
OperateCall(c, s, n, flg) ==
  /\ MayUse(c, s)
  /\ ConnectionsOf(connections, c) < MaxConnections
  /\ n > 0 => val[s] < MaxVal
  /\ Request(c, OperateMsg(s, n, flg))
  /\ UNCHANGED open

\* The stubs, from the receive on.
Return(c) ==
  /\ reply[c] # NoReply
  /\ open' = IF call[c].op = "get" /\ reply[c].status = "ok"
             THEN [open EXCEPT ![c][reply[c].sem] = @ + 1] ELSE open
  /\ call' = [call EXCEPT ![c] = NoCall]
  /\ reply' = [reply EXCEPT ![c] = NoReply]
  /\ UNCHANGED <<servervars, requests>>

-----------------------------------------------------------------------------
(***************************************************************************)
(* The server: do_sysv_server_loop() and the handlers of semaphores.       *)
(***************************************************************************)

\* The loop takes the request of client c, which asks for op.
Receive(c, op) ==
  /\ c \in requests
  /\ call[c].op = op
  /\ requests' = requests \ {c}

AnswerMutant(c, m) == reply' = IF m.status = "ok" THEN [reply EXCEPT ![c] = m] ELSE reply
Answer(c, m) == reply' = [reply EXCEPT ![c] = m]

\* do_sysv_sem_get() and do_sem_get(): a new semaphore counts from zero.
do_sysv_sem_get(c) ==
  LET key == call[c].key
      code == GetCode(semaphores, key, call[c].flags, "ENOSPC")
      connected == connect(connections, c) IN
  /\ Receive(c, "get")
  /\ \/ /\ code # "ok"
        /\ connections' = disconnect(connected, c)
        /\ Answer(c, Status(code, 0))
        /\ UNCHANGED <<semaphores, val>>
     \/ /\ code = "ok"
        /\ connections' = connected
        /\ \E s \in GetEntries(semaphores, key) :
             /\ semaphores' = Got(semaphores, s, key)
             /\ val' = IF semaphores[s].used THEN val ELSE [val EXCEPT ![s] = 0]
             /\ Answer(c, Status("ok", s))
  /\ UNCHANGED <<sleeping, call, open>>

\* do_sysv_sem_close(): the table of connections after a close.  The mutant
\* takes the client for gone.
AfterCloseMutant(c) == [i \in Connections |-> IF i \in lookup(connections, c)
                          THEN [connections[i] EXCEPT !.remote = -1, !.count = 0]
                          ELSE connections[i]]
AfterClose(c) == disconnect(connections, c)

\* do_sysv_sem_close() and do_sem_close()
do_sysv_sem_close(c) ==
  LET s == call[c].sem IN
  /\ Receive(c, "close")
  /\ \/ /\ ~Used(semaphores, s)
        /\ Answer(c, Status("EINVAL", 0))
        /\ UNCHANGED <<semaphores, connections>>
     \/ /\ Used(semaphores, s)
        /\ semaphores' = Closed(semaphores, s)
        /\ connections' = AfterClose(c)
        /\ Answer(c, Status("ok", 0))
  /\ UNCHANGED <<val, sleeping, call, open>>

\* do_sem_operate(): the errors, in order.
OperateCode(conn, s, flg) ==
  CASE conn < 0             -> "EINVAL"
    [] ~Used(semaphores, s) -> "EINVAL"
    [] flg = "SEM_UNDO"     -> "ENOTSUP"
    [] OTHER                -> "ok"

\* do_sem_operate(): an operation that cannot complete now.  The mutant is
\* off by one.
BlocksMutant(s, n) == (n < 0 /\ val[s] + n < -1) \/ (n = 0 /\ val[s] > 0)
Blocks(s, n) == (n < 0 /\ val[s] + n < 0) \/ (n = 0 /\ val[s] > 0)

\* do_sleep(): the loop does not stop at the first free entry.
do_sleep(conn, s, n) ==
  [i \in Sleepers |-> IF sleeping[i].semid = -1
                      THEN [conn |-> conn, semid |-> s, val |-> n] ELSE sleeping[i]]

\* do_wakeup(): the entries that can be awaken once the counter of s is v.
Wakeable(s, v) == {i \in Sleepers : sleeping[i].semid = s /\ sleeping[i].val <= v}

\* do_sysv_sem_operate(): what follows the result ret >= 0 of do_sem_operate().
\* The result is compared with the process first: such a call gets no reply.
Deliver(c, ret) ==
  reply' = [d \in Clients |->
              IF ret # c[1] /\ (d = c \/ (ret # 0 /\ d = <<ret, connections'[ret].port>>))
              THEN Status("ok", 0) ELSE reply[d]]

\* do_sem_operate(): increment.  Sleeping values are negative or zero.
Increment(c, s, n) ==
  LET up == val[s] + n
      i == First(Wakeable(s, up)) IN
  \/ /\ Wakeable(s, up) = {}
     /\ val' = [val EXCEPT ![s] = up]
     /\ Deliver(c, 0)
     /\ UNCHANGED sleeping
  \/ /\ Wakeable(s, up) # {}
     /\ val' = [val EXCEPT ![s] = up - sleeping[i].val]
     /\ sleeping' = [sleeping EXCEPT ![i].semid = -1]
     /\ Deliver(c, sleeping[i].conn)

\* do_sem_operate(): decrement, or wait for zero.
Decrement(c, s, n, flg, conn) ==
  \/ /\ ~Blocks(s, n)
     /\ val' = [val EXCEPT ![s] = @ + n]
     /\ Deliver(c, 0)
     /\ UNCHANGED sleeping
  \/ /\ Blocks(s, n) /\ flg = "IPC_NOWAIT"
     /\ Deliver(c, 0)
     /\ UNCHANGED <<val, sleeping>>
  \/ /\ Blocks(s, n) /\ flg # "IPC_NOWAIT"
     /\ sleeping' = do_sleep(conn, s, n)
     /\ Deliver(c, conn)
     /\ UNCHANGED val

\* do_sysv_sem_operate() and do_sem_operate()
do_sysv_sem_operate(c) ==
  LET s == call[c].sem
      n == call[c].sem_op
      flg == call[c].sem_flg
      conn == connect_ret(connections, c)
      code == OperateCode(conn, s, flg) IN
  /\ Receive(c, "operate")
  /\ connections' = connect(connections, c)
  /\ \/ /\ code # "ok"
        /\ Answer(c, Status(code, 0))
        /\ UNCHANGED <<val, sleeping>>
     \/ code = "ok" /\ n > 0 /\ Increment(c, s, n)
     \/ code = "ok" /\ n <= 0 /\ Decrement(c, s, n, flg, conn)
  /\ UNCHANGED <<semaphores, call, open>>

-----------------------------------------------------------------------------
Handle(c) == do_sysv_sem_get(c) \/ do_sysv_sem_close(c) \/ do_sysv_sem_operate(c)

ClientCall(c) ==
  \/ \E g \in GetCalls : GetCall(c, g[1], g[2])
  \/ \E s \in Semaphores :
       \/ CloseCall(c, s)
       \/ \E n \in Ops, flg \in SemFlags : OperateCall(c, s, n, flg)

Next == \E c \in Clients : Handle(c) \/ ClientCall(c) \/ Return(c)

Spec == Init /\ [][Next]_vars

\* The server thread and the threads inside a stub keep running.
FairSpec ==
  /\ Spec
  /\ \A c \in Clients : WF_vars(Handle(c)) /\ WF_vars(Return(c))

-----------------------------------------------------------------------------
(***************************************************************************)
(* Properties.                                                             *)
(***************************************************************************)

CallType == [op : {"get"}, key : Keys \cup {IPC_PRIVATE}, flags : SUBSET Flags]
       \cup [op : {"close"}, sem : Semaphores]
       \cup [op : {"operate"}, sem : Semaphores, sem_op : Int, sem_flg : SemFlags]
Codes == {"ok", "EINVAL", "ENOTSUP", "EEXIST", "ENOENT", "ENOSPC"}

\* Tables and mailboxes are well typed; a counter never falls below zero,
\* whatever the processes add, take and wait for.
TypeOK ==
  /\ semaphores \in [Semaphores -> [used : BOOLEAN, key : Keys \cup {IPC_PRIVATE}, refcount : Nat]]
  /\ val \in [Semaphores -> Nat]
  /\ sleeping \in [Sleepers -> [conn : {0}, semid : Semaphores \cup {-1}, val : Int]]
  /\ connections \in [Connections -> [remote : Int, port : Int, count : Nat]]
  /\ requests \subseteq Clients
  /\ call \in [Clients -> CallType \cup {NoCall}]
  /\ reply \in [Clients -> {NoReply} \cup [status : Codes, sem : Semaphores]]
  /\ open \in [Clients -> [Semaphores -> Nat]]

\* The variables have their types, so no operation leaves a counter below zero;
\* a semaphore in use has references; processes that get the same key share
\* one semaphore; and one that a client got and did not close stays in use.
SemaphoresCoherent ==
  /\ TypeOK
  /\ TableCoherent(semaphores)
  /\ \A c \in Clients, s \in Semaphores : open[c][s] > 0 => semaphores[s].used

\* Times that client c has semaphore s, from the point of view of the server:
\* also while the reply that grants it is on its way to the client, and while
\* the request to close it is on its way to the server.
Granted(c, s) == call[c].op = "get" /\ reply[c] = Status("ok", s)
Closing(c, s) == call[c] = CloseMsg(s) /\ c \in requests
Held(c, s) ==
  open[c][s] + (IF Granted(c, s) THEN 1 ELSE 0) + (IF Closing(c, s) THEN 1 ELSE 0)

\* The reference count of a semaphore is the number of times that clients
\* have it: it is released with the last close, neither earlier nor later.
ReferencesCounted ==
  \A s \in Semaphores :
    semaphores[s].refcount = Total([c \in Clients |-> Held(c, s)])

\* A client that has semaphores stays connected: it has at least as many
\* connections, although do_sysv_sem_operate() connects without disconnecting.
HoldersConnected ==
  \A c \in Clients :
    ConnectionsOf(connections, c) >= Total([s \in Semaphores |-> Held(c, s)])

\* Every call returns.
CallsReturn == \A c \in Clients : (call[c] # NoCall) ~> (call[c] = NoCall)

=============================================================================

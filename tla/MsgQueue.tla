------------------------------ MODULE MsgQueue ------------------------------
(***************************************************************************)
(* The message queues of the System V server: sysv/msg/msg.c on the ring   *)
(* buffers of sysv/msg/buffer.c, the request handlers of sysv/main.c and   *)
(* the client stub of libruntime/pm/sysv/msg.c.                            *)
(*                                                                         *)
(* A call is a synchronous remote procedure call.  Messages travel through *)
(* portals, which are rendezvous channels.  The server is one thread;      *)
(* requests of different clients reach it in any order.                    *)
(***************************************************************************)
EXTENDS Sequences, FiniteSets, Connection, IpcTable

CONSTANTS Clients,                \* clients, as pairs <<process, port>>
          Payloads, Zero,         \* messages, and what a cleared slot holds
          NANVIX_MSG_MAX,         \* queues
          NANVIX_MSG_LENGTH_MAX,  \* messages that a queue holds
          GetCalls,               \* arguments <<key, flags>> that clients pass to get
          NoWait,                 \* values of IPC_NOWAIT that clients pass
          Wild,                   \* may a client use a queue that it did not get?
          MaxOpen,                \* bound: times a client has a queue open
          MaxConnections          \* bound: connections of a client that gets a queue

Queues == 0 .. NANVIX_MSG_MAX - 1
Slots == 0 .. NANVIX_MSG_LENGTH_MAX - 1

ASSUME MsgAssumption ==
  /\ Clients \subseteq Nat \X Nat /\ IsFiniteSet(Clients)
  /\ Zero \in Payloads
  /\ NANVIX_MSG_MAX \in Nat \ {0}
  /\ NANVIX_MSG_LENGTH_MAX \in Nat \ {0}
  /\ GetCalls \subseteq (Keys \cup {IPC_PRIVATE}) \X SUBSET Flags
  /\ NoWait \subseteq BOOLEAN
  /\ Wild \in BOOLEAN
  /\ MaxOpen \in Nat
  /\ MaxConnections \in Nat

VARIABLES
  mqueues,      \* the table of message queues
  buffers,      \* buffers[q]: the ring buffer of queue q
  connections,  \* the table of connections
  srv,          \* what the server is doing
  requests,     \* the requests in the mailbox of the server
  call,         \* call[c]: the request that c waits for, if any
  ctl,          \* ctl[c]: where client c is in the stub
  reply,        \* reply[c]: the message in the mailbox of c
  buf,          \* buf[c]: the message buffer of the call in progress
  open          \* open[c][q]: how often c got queue q and did not close it

servervars == <<mqueues, buffers, connections, srv>>
vars == <<mqueues, buffers, connections, srv, requests, call, ctl, reply, buf, open>>

Idle == [pc |-> "loop"]
Sending(c, q, slot) == [pc |-> "portal", client |-> c, queue |-> q, slot |-> slot]
NoCall == [op |-> "none"]
NoReply == [status |-> "none"]
Ack == [status |-> "ACK"]
Status(code, q) == [status |-> code, queue |-> q]

\* Requests of the stub.
GetMsg(key, flags) == [op |-> "get", key |-> key, flags |-> flags]
CloseMsg(q) == [op |-> "close", queue |-> q]
SendMsg(q, nowait) == [op |-> "send", queue |-> q, nowait |-> nowait]
ReceiveMsg(q, nowait) == [op |-> "receive", queue |-> q, nowait |-> nowait]

-----------------------------------------------------------------------------
(***************************************************************************)
(* Ring buffers.  Positions count messages, not bytes.                     *)
(***************************************************************************)

\* msgbuf_init() and msgbuf_alloc()
msgbuf_alloc == [len |-> 0, head |-> 0, tail |-> 0, data |-> [s \in Slots |-> Zero]]

\* Position x of a buffer, and the position after s.
Wrapped(x) == x % NANVIX_MSG_LENGTH_MAX
NextSlot(s) == Wrapped(s + 1)

\* msgbuf_put(): is there room?
Full(b) == b.len = NANVIX_MSG_LENGTH_MAX

\* msgbuf_put(), and the message that the portal stores in the slot.  The
\* mutant moves the tail first.
msgbuf_put_mutant(b, v) ==
  [len |-> b.len + 1, head |-> b.head, tail |-> NextSlot(b.tail),
   data |-> [b.data EXCEPT ![NextSlot(b.tail)] = v]]
msgbuf_put(b, v) ==
  [len |-> b.len + 1, head |-> b.head, tail |-> NextSlot(b.tail),
   data |-> [b.data EXCEPT ![b.tail] = v]]

\* msgbuf_get(): the slot handed out is b.head.
msgbuf_get(b) ==
  [len |-> b.len - 1, head |-> NextSlot(b.head), tail |-> b.tail, data |-> b.data]

-----------------------------------------------------------------------------
\* do_sysv_server_startup()
Init ==
  /\ mqueues = EmptyTable(NANVIX_MSG_MAX)
  /\ buffers = [q \in Queues |-> msgbuf_alloc]
  /\ connections = connections_setup
  /\ srv = Idle
  /\ requests = {}
  /\ call = [c \in Clients |-> NoCall]
  /\ ctl = [c \in Clients |-> "idle"]
  /\ reply = [c \in Clients |-> NoReply]
  /\ buf = [c \in Clients |-> Zero]
  /\ open = [c \in Clients |-> [q \in Queues |-> 0]]

-----------------------------------------------------------------------------
(***************************************************************************)
(* The client stub.                                                        *)
(***************************************************************************)

\* A stub sends request m and goes to wait at point "next".
Request(c, m, next) ==
  /\ ctl[c] = "idle"
  /\ requests' = requests \cup {c}
  /\ call' = [call EXCEPT ![c] = m]
  /\ ctl' = [ctl EXCEPT ![c] = next]
  /\ UNCHANGED <<servervars, reply>>

MayUse(c, q) == Wild \/ open[c][q] > 0

\* __nanvix_msg_get(), up to the receive.
GetCall(c, key, flags) ==
  /\ \A q \in Queues : open[c][q] < MaxOpen
  /\ ConnectionsOf(connections, c) < MaxConnections
  /\ Request(c, GetMsg(key, flags), "reply")
  /\ UNCHANGED <<buf, open>>

\* __nanvix_msg_close(), up to the receive: the caller gives the queue up.
CloseCall(c, q) ==
  /\ MayUse(c, q)
  /\ Request(c, CloseMsg(q), "reply")
  /\ open' = [open EXCEPT ![c][q] = IF @ > 0 THEN @ - 1 ELSE 0]
  /\ UNCHANGED buf

\* __nanvix_msg_send(), up to the portal write, which blocks until the
\* server reads the portal.
SendCall(c, q, v, nowait) ==
  /\ MayUse(c, q)
  /\ Request(c, SendMsg(q, nowait), "portal_write")
  /\ buf' = [buf EXCEPT ![c] = v]
  /\ UNCHANGED open

\* __nanvix_msg_receive(), up to the wait for the acknowledge.
ReceiveCall(c, q, nowait) ==
  /\ MayUse(c, q)
  /\ Request(c, ReceiveMsg(q, nowait), "ack")
  /\ UNCHANGED <<buf, open>>

\* __nanvix_msg_receive(): a message that is not an acknowledge ends the call.
ReceiveAck(c) ==
  /\ ctl[c] = "ack" /\ reply[c] # NoReply
  /\ \/ /\ reply[c] = Ack
        /\ ctl' = [ctl EXCEPT ![c] = "portal_read"]
        /\ UNCHANGED call
     \/ /\ reply[c] # Ack
        /\ ctl' = [ctl EXCEPT ![c] = "idle"]
        /\ call' = [call EXCEPT ![c] = NoCall]
  /\ reply' = [reply EXCEPT ![c] = NoReply]
  /\ UNCHANGED <<servervars, requests, buf, open>>

\* The stubs, from the last receive on.
Return(c) ==
  /\ ctl[c] = "reply" /\ reply[c] # NoReply
  /\ open' = IF call[c].op = "get" /\ reply[c].status = "ok"
             THEN [open EXCEPT ![c][reply[c].queue] = @ + 1] ELSE open
  /\ ctl' = [ctl EXCEPT ![c] = "idle"]
  /\ call' = [call EXCEPT ![c] = NoCall]
  /\ reply' = [reply EXCEPT ![c] = NoReply]
  /\ buf' = [buf EXCEPT ![c] = Zero]
  /\ UNCHANGED <<servervars, requests>>

-----------------------------------------------------------------------------
(***************************************************************************)
(* The server: do_sysv_server_loop() and the handlers of message queues.   *)
(***************************************************************************)

\* The loop takes the request of client c, which asks for op.
Receive(c, op) ==
  /\ srv = Idle
  /\ c \in requests
  /\ call[c].op = op
  /\ requests' = requests \ {c}

AnswerMutant(c, m) ==
  reply' = IF m.status \in {"ok", "ACK"} THEN [reply EXCEPT ![c] = m] ELSE reply
Answer(c, m) == reply' = [reply EXCEPT ![c] = m]

\* do_sysv_msg_get(): the table of connections in the end.  The mutant does
\* not disconnect after an error.
AfterGetMutant(c, code) == connect(connections, c)
AfterGet(c, code) ==
  IF code = "ok" THEN connect(connections, c)
  ELSE disconnect(connect(connections, c), c)

\* do_sysv_msg_get() and do_msg_get()
do_sysv_msg_get(c) ==
  LET key == call[c].key
      code == GetCode(mqueues, key, call[c].flags, "ENOMEM") IN
  /\ Receive(c, "get")
  /\ connections' = AfterGet(c, code)
  /\ \/ /\ code # "ok"
        /\ UNCHANGED mqueues
        /\ Answer(c, Status(code, 0))
     \/ /\ code = "ok"
        /\ \E q \in GetEntries(mqueues, key) :
             /\ mqueues' = Got(mqueues, q, key)
             /\ Answer(c, Status("ok", q))
  /\ UNCHANGED <<buffers, srv, call, ctl, buf, open>>

\* do_sysv_msg_close() and do_msg_close()
do_sysv_msg_close(c) ==
  LET q == call[c].queue IN
  /\ Receive(c, "close")
  /\ \/ /\ ~Used(mqueues, q)
        /\ Answer(c, Status("EINVAL", 0))
        /\ UNCHANGED <<mqueues, connections>>
     \/ /\ Used(mqueues, q)
        /\ mqueues' = Closed(mqueues, q)
        /\ connections' = disconnect(connections, c)
        /\ Answer(c, Status("ok", 0))
  /\ UNCHANGED <<buffers, srv, call, ctl, buf, open>>

\* do_msg_send(): the errors, in order.
SendCode(q, nowait) ==
  CASE ~nowait           -> "ENOTSUP"
    [] ~Used(mqueues, q) -> "EINVAL"
    [] Full(buffers[q])  -> "EAGAIN"
    [] OTHER             -> "ok"

\* do_sysv_msg_send() and do_msg_send(): the message is read from the portal
\* in any case, and dropped after an error.
do_sysv_msg_send(c) ==
  LET q == call[c].queue
      code == SendCode(q, call[c].nowait) IN
  /\ Receive(c, "send")
  /\ ctl[c] = "portal_write"
  /\ buffers' = IF code = "ok" THEN [buffers EXCEPT ![q] = msgbuf_put(@, buf[c])]
                ELSE buffers
  /\ ctl' = [ctl EXCEPT ![c] = "reply"]
  /\ Answer(c, Status(code, 0))
  /\ UNCHANGED <<mqueues, connections, srv, call, buf, open>>

\* do_msg_receive(): the errors, in order.
ReceiveCode(q, nowait) ==
  CASE ~nowait             -> "ENOTSUP"
    [] ~Used(mqueues, q)   -> "EINVAL"
    [] buffers[q].len = 0  -> "ENOMSG"
    [] OTHER               -> "ok"

\* do_sysv_msg_receive() and do_msg_receive(), up to the portal write.
do_sysv_msg_receive(c) ==
  LET q == call[c].queue
      code == ReceiveCode(q, call[c].nowait) IN
  /\ Receive(c, "receive")
  /\ \/ /\ code # "ok"
        /\ Answer(c, Status(code, 0))
        /\ UNCHANGED <<buffers, srv>>
     \/ /\ code = "ok"
        /\ buffers' = [buffers EXCEPT ![q] = msgbuf_get(@)]
        /\ srv' = Sending(c, q, buffers[q].head)
        /\ Answer(c, Ack)
  /\ UNCHANGED <<mqueues, connections, call, ctl, buf, open>>

\* do_sysv_msg_receive(), from the portal write on, and the reply of the loop.
do_sysv_msg_receive_data ==
  LET c == srv.client IN
  /\ srv # Idle
  /\ ctl[c] = "portal_read"
  /\ buf' = [buf EXCEPT ![c] = buffers[srv.queue].data[srv.slot]]
  /\ ctl' = [ctl EXCEPT ![c] = "reply"]
  /\ Answer(c, Status("ok", 0))
  /\ srv' = Idle
  /\ UNCHANGED <<mqueues, buffers, connections, requests, call, open>>

-----------------------------------------------------------------------------
Handle(c) ==
  \/ do_sysv_msg_get(c)
  \/ do_sysv_msg_close(c)
  \/ do_sysv_msg_send(c)
  \/ do_sysv_msg_receive(c)

ClientCall(c) ==
  \/ \E g \in GetCalls : GetCall(c, g[1], g[2])
  \/ \E q \in Queues :
       \/ CloseCall(c, q)
       \/ \E nowait \in NoWait :
            \/ ReceiveCall(c, q, nowait)
            \/ \E v \in Payloads : SendCall(c, q, v, nowait)

Next ==
  \/ do_sysv_msg_receive_data
  \/ \E c \in Clients : Handle(c) \/ ClientCall(c) \/ ReceiveAck(c) \/ Return(c)

Spec == Init /\ [][Next]_vars

\* The server thread and the threads inside a stub keep running, and the
\* mailbox hands requests over in order of arrival.
FairSpec ==
  /\ Spec
  /\ WF_vars(do_sysv_msg_receive_data)
  /\ \A c \in Clients : SF_vars(Handle(c)) /\ WF_vars(ReceiveAck(c) \/ Return(c))

-----------------------------------------------------------------------------
(***************************************************************************)
(* Properties.                                                             *)
(***************************************************************************)

BufferType == [len : 0 .. NANVIX_MSG_LENGTH_MAX, head : Slots, tail : Slots,
               data : [Slots -> Payloads]]
CallType == [op : {"get"}, key : Keys \cup {IPC_PRIVATE}, flags : SUBSET Flags]
       \cup [op : {"close"}, queue : Queues]
       \cup [op : {"send", "receive"}, queue : Queues, nowait : BOOLEAN]
Codes == {"ok", "EINVAL", "ENOTSUP", "EEXIST", "ENOENT", "ENOMEM", "EAGAIN", "ENOMSG"}

\* Tables, buffers and mailboxes are well typed; the length of a buffer stays
\* within its bounds.
TypeOK ==
  /\ mqueues \in [Queues -> [used : BOOLEAN, key : Keys \cup {IPC_PRIVATE}, refcount : Nat]]
  /\ buffers \in [Queues -> BufferType]
  /\ connections \in [Connections -> [remote : Int, port : Int, count : Nat]]
  /\ srv \in {Idle} \cup [pc : {"portal"}, client : Clients, queue : Queues, slot : Slots]
  /\ requests \subseteq Clients
  /\ call \in [Clients -> CallType \cup {NoCall}]
  /\ ctl \in [Clients -> {"idle", "reply", "ack", "portal_read", "portal_write"}]
  /\ reply \in [Clients -> {NoReply, Ack} \cup [status : Codes, queue : Queues]]
  /\ buf \in [Clients -> Payloads]
  /\ open \in [Clients -> [Queues -> Nat]]

\* The variables have their types; a queue in use has references; processes
\* that get the same key share one queue; and a queue that a client got and
\* did not close stays in use, under whatever the others get and close.
QueuesCoherent ==
  /\ TypeOK
  /\ TableCoherent(mqueues)
  /\ \A c \in Clients, q \in Queues : open[c][q] > 0 => mqueues[q].used

\* Times that client c has queue q, from the point of view of the server: also
\* while the reply that grants it is on its way to the client, and while the
\* request to close it is on its way to the server.
Granted(c, q) == call[c].op = "get" /\ reply[c] = Status("ok", q)
Closing(c, q) == call[c] = CloseMsg(q) /\ c \in requests
Held(c, q) ==
  open[c][q] + (IF Granted(c, q) THEN 1 ELSE 0) + (IF Closing(c, q) THEN 1 ELSE 0)

\* The reference count of a queue is the number of times that clients have
\* it: it is released with the last close, neither earlier nor later.
ReferencesCounted ==
  \A q \in Queues :
    mqueues[q].refcount = Total([c \in Clients |-> Held(c, q)])

\* A client has as many connections as it has queues, so that the table of
\* connections does not fill up with clients that are gone.
ConnectionsCounted ==
  \A c \in Clients :
    ConnectionsOf(connections, c) = Total([q \in Queues |-> Held(c, q)])

\* Every call returns.
CallsReturn == \A c \in Clients : (ctl[c] # "idle") ~> (ctl[c] = "idle")

\* The messages in a ring buffer, oldest first.
Contents(b) == [k \in 1 .. b.len |-> b.data[Wrapped(b.head + k - 1)]]

\* The result of a call, once the server has decided it.
Outcome(c) ==
  IF srv # Idle /\ srv.client = c
  THEN <<"received", buffers[srv.queue].data[srv.slot]>>
  ELSE IF call[c].op \notin {"send", "receive"} \/ reply[c] = NoReply THEN <<>>
  ELSE IF reply[c].status # "ok" THEN <<reply[c].status>>
  ELSE IF call[c].op = "send" THEN <<"sent">> ELSE <<"received", buf[c]>>

\* Message queues are bounded first-in first-out queues: a send that reports
\* success appended its message, a receive that reports success returns the
\* oldest one, and calls that fail leave the queues alone.
Fifo == INSTANCE MsgFifo WITH
  Length <- NANVIX_MSG_LENGTH_MAX,
  queue <- [q \in Queues |-> Contents(buffers[q])],
  outcome <- [c \in Clients |-> Outcome(c)]
ImplementsFifo == Fifo!Spec

=============================================================================

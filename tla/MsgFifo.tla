------------------------------ MODULE MsgFifo ------------------------------
(***************************************************************************)
(* What message queues promise to the processes that send and receive:     *)
(* bounded first-in first-out queues on which every call is atomic.        *)
(***************************************************************************)
EXTENDS Sequences, Integers

CONSTANTS Clients, Queues, Payloads,
          Length  \* messages that a queue holds

VARIABLES queue,   \* queue[q]: the messages in queue q, oldest first
          outcome  \* outcome[c]: the result of the call of c, while c has not seen it

vars == <<queue, outcome>>

None == <<>>
Failed(code) == <<code>>
Sent == <<"sent">>
Received(v) == <<"received", v>>

Init ==
  /\ queue = [q \in Queues |-> <<>>]
  /\ outcome = [c \in Clients |-> None]

Send(c, q, v) ==
  /\ outcome[c] = None
  /\ IF Len(queue[q]) < Length
     THEN /\ queue' = [queue EXCEPT ![q] = Append(@, v)]
          /\ outcome' = [outcome EXCEPT ![c] = Sent]
     ELSE /\ queue' = queue
          /\ outcome' = [outcome EXCEPT ![c] = Failed("EAGAIN")]

Receive(c, q) ==
  /\ outcome[c] = None
  /\ IF queue[q] # <<>>
     THEN /\ queue' = [queue EXCEPT ![q] = Tail(@)]
          /\ outcome' = [outcome EXCEPT ![c] = Received(Head(queue[q]))]
     ELSE /\ queue' = queue
          /\ outcome' = [outcome EXCEPT ![c] = Failed("ENOMSG")]

\* A call with bad arguments changes no queue.
Refuse(c) ==
  /\ outcome[c] = None
  /\ \E code \in {"EINVAL", "ENOTSUP"} : outcome' = [outcome EXCEPT ![c] = Failed(code)]
  /\ UNCHANGED queue

Return(c) ==
  /\ outcome' = [outcome EXCEPT ![c] = None]
  /\ UNCHANGED queue

Next ==
  \E c \in Clients :
    \/ \E q \in Queues : Receive(c, q) \/ \E v \in Payloads : Send(c, q, v)
    \/ Refuse(c)
    \/ Return(c)

Spec == Init /\ [][Next]_vars

=============================================================================

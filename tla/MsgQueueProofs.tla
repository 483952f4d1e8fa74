--------------------------- MODULE MsgQueueProofs ---------------------------
(***************************************************************************)
(* Proofs about the message queues, for any number of clients and queues   *)
(* and any length of the ring buffers.                                     *)
(***************************************************************************)
EXTENDS MsgQueue, SequenceTheorems, TableProofs

-----------------------------------------------------------------------------
(***************************************************************************)
(* Ring buffers.                                                           *)
(***************************************************************************)

\* A ring buffer whose tail is where its messages end.
RingOK(b) == b \in BufferType /\ b.tail = Wrapped(b.head + b.len)

\* Positions wrap around once at most.
LEMMA Modulo ==
  ASSUME NEW L \in Nat \ {0}, NEW x \in 0 .. L + L - 1
  PROVE  x % L = IF x < L THEN x ELSE x - L
<1>1. CASE x < L
  BY <1>1, SMTT(60)
<1>2. CASE ~(x < L)
  BY <1>2, SMTT(60)
<1>. QED
  BY Zenon, <1>1, <1>2

\* Indexes of a ring wrap around at its length.
LEMMA Wrap ==
  ASSUME NEW x \in 0 .. NANVIX_MSG_LENGTH_MAX + NANVIX_MSG_LENGTH_MAX - 1
  PROVE  /\ x < NANVIX_MSG_LENGTH_MAX => Wrapped(x) = x
         /\ ~(x < NANVIX_MSG_LENGTH_MAX) => Wrapped(x) = x - NANVIX_MSG_LENGTH_MAX
         /\ Wrapped(x) \in 0 .. NANVIX_MSG_LENGTH_MAX - 1
<1>. DEFINE L == NANVIX_MSG_LENGTH_MAX
<1>1. L \in Nat \ {0}
  BY Zenon, MsgAssumption
<1>2. x \in 0 .. L + L - 1
  BY Zenon
<1>3. Wrapped(x) = x % L
  BY Zenon DEF Wrapped
<1>. HIDE DEF L
<1>4. CASE x < L
  <2>1. Wrapped(x) = x
    BY Zenon, <1>1, <1>2, <1>3, <1>4, Modulo
  <2>. QED
    BY <1>1, <1>2, <1>4, <2>1 DEF L
<1>5. CASE ~(x < L)
  <2>1. Wrapped(x) = x - L
    BY ZenonT(60), <1>1, <1>2, <1>3, <1>5, Modulo
  <2>. QED
    BY <1>1, <1>2, <1>5, <2>1 DEF L
<1>. QED
  BY Zenon, <1>4, <1>5

\* The messages of a ring buffer as a sequence.
LEMMA ContentsSeq ==
  ASSUME NEW b, RingOK(b)
  PROVE  /\ Contents(b) \in Seq(Payloads)
         /\ Len(Contents(b)) = b.len
         /\ \A k \in 1 .. b.len : Contents(b)[k] = b.data[Wrapped(b.head + k - 1)]
<1>. DEFINE L == NANVIX_MSG_LENGTH_MAX
<1>1. L \in Nat \ {0} /\ b.len \in 0 .. L /\ b.head \in 0 .. L - 1 /\ b.data \in [0 .. L - 1 -> Payloads]
  BY Zenon, MsgAssumption DEF RingOK, BufferType, Slots
<1>2. \A k \in 1 .. b.len : Wrapped(b.head + k - 1) \in 0 .. L - 1
  <2>. SUFFICES ASSUME NEW k \in 1 .. b.len
                PROVE  Wrapped(b.head + k - 1) \in 0 .. L - 1
    BY Zenon
  <2>1. b.head + k - 1 \in 0 .. L + L - 1
    BY <1>1
  <2>. QED
    BY Zenon, <1>1, <2>1, Wrap
<1>. HIDE DEF L
<1>3. Contents(b) = [k \in 1 .. b.len |-> b.data[Wrapped(b.head + k - 1)]]
  BY Zenon DEF Contents
<1>4. /\ Contents(b) \in [1 .. b.len -> Payloads]
      /\ \A k \in 1 .. b.len : Contents(b)[k] = b.data[Wrapped(b.head + k - 1)]
  BY Zenon, <1>1, <1>2, <1>3
<1>5. Contents(b) \in Seq(Payloads)
  <2>1. b.len \in Nat
    BY <1>1
  <2>. QED
    BY Zenon, <1>4, <2>1, SeqDef
<1>6. Len(Contents(b)) = b.len
  BY <1>1, <1>4, <1>5, LenProperties
<1>. QED
  BY Zenon, <1>4, <1>5, <1>6

\* msgbuf_put() appends.
LEMMA PutAppends ==
  ASSUME NEW b, RingOK(b), ~Full(b), NEW v \in Payloads
  PROVE  /\ RingOK(msgbuf_put(b, v))
         /\ Contents(msgbuf_put(b, v)) = Append(Contents(b), v)
<1>. DEFINE L == NANVIX_MSG_LENGTH_MAX
            d == msgbuf_put(b, v)
            At(k) == Wrapped(b.head + k - 1)
<1>1. /\ L \in Nat \ {0} /\ b.len \in 0 .. L - 1 /\ b.head \in 0 .. L - 1
      /\ b.tail \in 0 .. L - 1 /\ b.data \in [0 .. L - 1 -> Payloads]
  BY MsgAssumption DEF RingOK, BufferType, Slots, Full
<1>2. /\ b.head + b.len < L => b.tail = b.head + b.len
      /\ ~(b.head + b.len < L) => b.tail = b.head + b.len - L
  <2>1. b.head + b.len \in 0 .. L + L - 1
    BY <1>1
  <2>. QED
    BY <1>1, <2>1, Wrap DEF RingOK
<1>3. NextSlot(b.tail) = Wrapped(b.head + (b.len + 1)) /\ NextSlot(b.tail) \in 0 .. L - 1
  <2>. DEFINE y == b.head + (b.len + 1)
  <2>1. /\ b.tail + 1 < L => NextSlot(b.tail) = b.tail + 1
        /\ ~(b.tail + 1 < L) => NextSlot(b.tail) = b.tail + 1 - L
        /\ NextSlot(b.tail) \in 0 .. L - 1
    <3>1. b.tail + 1 \in 0 .. L + L - 1
      BY <1>1
    <3>. QED
      BY <1>1, <3>1, Wrap DEF NextSlot
  <2>2. /\ y < L => Wrapped(y) = y
        /\ ~(y < L) => Wrapped(y) = y - L
        /\ Wrapped(y) \in 0 .. L - 1
    <3>1. y \in 0 .. L + L - 1
      BY <1>1
    <3>. QED
      BY Zenon, <1>1, <3>1, Wrap
  <2>. DEFINE h == b.head
              n == b.len
              t == b.tail
              p == NextSlot(b.tail)
              w == Wrapped(y)
  <2>3. /\ L \in Nat \ {0} /\ h \in 0 .. L - 1 /\ n \in 0 .. L - 1
        /\ t \in 0 .. L - 1 /\ p \in 0 .. L - 1 /\ w \in 0 .. L - 1
    BY Zenon, <1>1, <2>1, <2>2
  <2>4. (h + n < L => t = h + n) /\ (~(h + n < L) => t = h + n - L)
    BY Zenon, <1>2
  <2>5. (t + 1 < L => p = t + 1) /\ (~(t + 1 < L) => p = t + 1 - L)
    BY Zenon, <2>1
  <2>6. y = h + (n + 1) /\ (y < L => w = y) /\ (~(y < L) => w = y - L)
    <3>1. y = h + (n + 1)
      BY Zenon
    <3>. HIDE DEF y, L
    <3>. QED  BY Zenon, <2>2, <3>1
  <2>7. p = w
    <3>. HIDE DEF L, h, n, t, p, w, y
    <3>. QED  BY <2>3, <2>4, <2>5, <2>6
  <2>. QED
    BY Zenon, <2>1, <2>7
<1>4. /\ d.len = b.len + 1 /\ d.head = b.head /\ d.tail = NextSlot(b.tail)
      /\ d.data = [b.data EXCEPT ![b.tail] = v]
      /\ d = [len |-> d.len, head |-> d.head, tail |-> d.tail, data |-> d.data]
  BY Zenon, <1>1 DEF msgbuf_put, RingOK, BufferType
<1>. HIDE DEF d
<1>5. RingOK(d)
  <2>1. d.len \in 0 .. L
    BY <1>1, <1>4
  <2>2. d.data \in [0 .. L - 1 -> Payloads]
    BY Zenon, <1>1, <1>4
  <2>3. d.tail = Wrapped(d.head + d.len) /\ d.tail \in 0 .. L - 1 /\ d.head \in 0 .. L - 1
    BY Zenon, <1>1, <1>3, <1>4
  <2>. QED
    BY ZenonT(60), <1>4, <2>1, <2>2, <2>3 DEF RingOK, BufferType, Slots
<1>6. /\ Contents(b) \in Seq(Payloads) /\ Len(Contents(b)) = b.len
      /\ \A k \in 1 .. b.len : Contents(b)[k] = b.data[At(k)]
  BY Zenon, ContentsSeq
<1>7. /\ Contents(d) \in Seq(Payloads) /\ Len(Contents(d)) = b.len + 1
      /\ \A k \in 1 .. b.len + 1 : Contents(d)[k] = d.data[At(k)]
  <2>1. /\ Contents(d) \in Seq(Payloads) /\ Len(Contents(d)) = d.len
        /\ \A k \in 1 .. d.len : Contents(d)[k] = d.data[Wrapped(d.head + k - 1)]
    BY Zenon, <1>5, ContentsSeq
  <2>2. d.len = b.len + 1 /\ d.head = b.head
    BY Zenon, <1>4
  <2>. QED
    BY Zenon, <2>1, <2>2
<1>. HIDE DEF L
<1>8. At(b.len + 1) = b.tail /\ \A k \in 1 .. b.len : At(k) # b.tail /\ At(k) \in 0 .. L - 1
  <2>1. b.head + (b.len + 1) - 1 = b.head + b.len
    BY <1>1
  <2>2. At(b.len + 1) = b.tail
    BY Zenon, <2>1 DEF RingOK
  <2>3. ASSUME NEW k \in 1 .. b.len
        PROVE  At(k) # b.tail /\ At(k) \in 0 .. L - 1
    <3>. DEFINE y == b.head + k - 1
    <3>1. y \in 0 .. L + L - 1
      BY <1>1
    <3>2. (y < L => Wrapped(y) = y) /\ (~(y < L) => Wrapped(y) = y - L)
      BY Zenon, <1>1, <3>1, Wrap DEF L
    <3>. QED
      BY SMTT(60), <1>1, <1>2, <3>2
  <2>. QED
    BY Zenon, <2>2, <2>3
<1>9. Contents(d)[b.len + 1] = v /\ \A k \in 1 .. b.len : Contents(d)[k] = Contents(b)[k]
  <2>. HIDE DEF At
  <2>1. b.len + 1 \in 1 .. b.len + 1 /\ \A k \in 1 .. b.len : k \in 1 .. b.len + 1
    BY <1>1
  <2>. QED
    BY SMTT(60), <1>1, <1>4, <1>6, <1>7, <1>8, <2>1
<1>10. /\ Append(Contents(b), v) \in Seq(Payloads)
       /\ Len(Append(Contents(b), v)) = b.len + 1
       /\ Append(Contents(b), v)[b.len + 1] = v
       /\ \A k \in 1 .. b.len : Append(Contents(b), v)[k] = Contents(b)[k]
  BY <1>6, AppendProperties
<1>11. \A k \in 1 .. b.len + 1 : k = b.len + 1 \/ k \in 1 .. b.len
  BY <1>1
<1>12. Contents(d) = Append(Contents(b), v)
  BY Zenon, <1>7, <1>9, <1>10, <1>11, SeqEqual
<1>. QED
  BY Zenon, <1>5, <1>12 DEF d

\* msgbuf_get() takes the oldest message, which is in the slot at the head,
\* and leaves the contents of the slot as they are.
LEMMA GetTakesHead ==
  ASSUME NEW b, RingOK(b), b.len # 0
  PROVE  /\ RingOK(msgbuf_get(b))
         /\ msgbuf_get(b).data = b.data
         /\ Contents(b) # <<>>
         /\ Head(Contents(b)) = b.data[b.head]
         /\ Contents(msgbuf_get(b)) = Tail(Contents(b))
<1>. DEFINE L == NANVIX_MSG_LENGTH_MAX
            d == msgbuf_get(b)
            At(k) == Wrapped(b.head + k - 1)
            Bt(k) == Wrapped(d.head + k - 1)
<1>1. /\ L \in Nat \ {0} /\ b.len \in 1 .. L /\ b.head \in 0 .. L - 1
      /\ b.tail \in 0 .. L - 1 /\ b.data \in [0 .. L - 1 -> Payloads]
  BY MsgAssumption DEF RingOK, BufferType, Slots
<1>2. /\ b.head + 1 < L => NextSlot(b.head) = b.head + 1
      /\ ~(b.head + 1 < L) => NextSlot(b.head) = b.head + 1 - L
  <2>1. b.head + 1 \in 0 .. L + L - 1
    BY <1>1
  <2>. QED
    BY <1>1, <2>1, Wrap DEF NextSlot
<1>3. /\ NextSlot(b.head) \in 0 .. L - 1
      /\ \A k \in 0 .. b.len - 1 : Wrapped(NextSlot(b.head) + k) = Wrapped(b.head + (k + 1))
  <2>1. NextSlot(b.head) \in 0 .. L - 1
    BY <1>1, <1>2
  <2>2. ASSUME NEW k \in 0 .. b.len - 1
        PROVE  Wrapped(NextSlot(b.head) + k) = Wrapped(b.head + (k + 1))
    <3>. DEFINE x == NextSlot(b.head) + k
                y == b.head + (k + 1)
    <3>1. x \in 0 .. L + L - 1 /\ y \in 0 .. L + L - 1
      BY SMTT(60), <1>1, <2>1
    <3>2. /\ (x < L => Wrapped(x) = x) /\ (~(x < L) => Wrapped(x) = x - L)
          /\ (y < L => Wrapped(y) = y) /\ (~(y < L) => Wrapped(y) = y - L)
          /\ Wrapped(x) \in 0 .. L - 1 /\ Wrapped(y) \in 0 .. L - 1
      <4>. HIDE DEF x, y
      <4>. QED  BY Zenon, <1>1, <3>1, Wrap
    <3>3. k \in 0 .. L - 1
      BY <1>1
    <3>. DEFINE h == b.head
                p == NextSlot(b.head)
                u == Wrapped(x)
                w == Wrapped(y)
    <3>4. /\ L \in Nat \ {0} /\ h \in 0 .. L - 1 /\ p \in 0 .. L - 1
          /\ u \in 0 .. L - 1 /\ w \in 0 .. L - 1
      BY Zenon, <1>1, <2>1, <3>2
    <3>5. (h + 1 < L => p = h + 1) /\ (~(h + 1 < L) => p = h + 1 - L)
      BY Zenon, <1>2
    <3>6. x = p + k /\ y = h + (k + 1)
      BY Zenon
    <3>7. /\ (x < L => u = x) /\ (~(x < L) => u = x - L)
          /\ (y < L => w = y) /\ (~(y < L) => w = y - L)
      <4>. HIDE DEF x, y, L
      <4>. QED  BY Zenon, <3>2
    <3>8. u = w
      <4>. HIDE DEF L, h, p, u, w, x, y
      <4>. QED  BY <3>3, <3>4, <3>5, <3>6, <3>7
    <3>. QED
      BY Zenon, <3>8
  <2>. QED
    BY Zenon, <2>1, <2>2
<1>4. /\ d.len = b.len - 1 /\ d.head = NextSlot(b.head) /\ d.tail = b.tail /\ d.data = b.data
      /\ d = [len |-> d.len, head |-> d.head, tail |-> d.tail, data |-> d.data]
  BY Zenon, <1>1 DEF msgbuf_get, RingOK, BufferType
<1>. HIDE DEF d
<1>5. RingOK(d)
  <2>1. d.tail = Wrapped(d.head + d.len)
    <3>1. b.len - 1 \in 0 .. b.len - 1 /\ b.head + ((b.len - 1) + 1) = b.head + b.len
      BY <1>1
    <3>. QED
      BY Zenon, <1>3, <1>4, <3>1 DEF RingOK
  <2>. QED
    BY <1>1, <1>3, <1>4, <2>1 DEF RingOK, BufferType, Slots
<1>6. /\ Contents(b) \in Seq(Payloads) /\ Len(Contents(b)) = b.len
      /\ \A k \in 1 .. b.len : Contents(b)[k] = b.data[At(k)]
  BY Zenon, ContentsSeq
<1>7. /\ Contents(d) \in Seq(Payloads) /\ Len(Contents(d)) = b.len - 1
      /\ \A k \in 1 .. b.len - 1 : Contents(d)[k] = d.data[Bt(k)]
  BY Zenon, <1>4, <1>5, ContentsSeq
<1>. HIDE DEF L
<1>8. At(1) = b.head /\ \A k \in 1 .. b.len - 1 : Bt(k) = At(k + 1) /\ k + 1 \in 1 .. b.len
  <2>1. b.head + 1 - 1 = b.head /\ Wrapped(b.head) = b.head
    <3>1. b.head \in 0 .. L + L - 1
      BY <1>1
    <3>. QED
      BY <1>1, <3>1, Wrap DEF L
  <2>2. ASSUME NEW k \in 1 .. b.len - 1
        PROVE  Bt(k) = At(k + 1) /\ k + 1 \in 1 .. b.len
    <3>1. /\ k - 1 \in 0 .. b.len - 1 /\ k + 1 \in 1 .. b.len
          /\ NextSlot(b.head) + k - 1 = NextSlot(b.head) + (k - 1)
          /\ b.head + (k + 1) - 1 = b.head + ((k - 1) + 1)
      BY <1>1, <1>3
    <3>. QED
      BY Zenon, <1>3, <1>4, <3>1
  <2>. QED
    BY Zenon, <2>1, <2>2
<1>. HIDE DEF At, Bt
<1>9. Contents(b) # <<>> /\ Head(Contents(b)) = Contents(b)[1]
  BY <1>1, <1>6
<1>10. /\ Tail(Contents(b)) \in Seq(Payloads) /\ Len(Tail(Contents(b))) = b.len - 1
       /\ \A k \in 1 .. b.len - 1 : Tail(Contents(b))[k] = Contents(b)[k + 1]
  BY <1>6, <1>9, HeadTailProperties
<1>11. \A k \in 1 .. b.len - 1 : Contents(d)[k] = Tail(Contents(b))[k]
  BY ZenonT(60), <1>4, <1>6, <1>7, <1>8, <1>10
<1>12. Contents(d) = Tail(Contents(b))
  BY Zenon, <1>7, <1>10, <1>11, SeqEqual
<1>13. 1 \in 1 .. b.len
  BY <1>1
<1>. QED
  BY Zenon, <1>4, <1>5, <1>6, <1>8, <1>9, <1>12, <1>13 DEF d

-----------------------------------------------------------------------------
(***************************************************************************)
(* The protocol between the stub and the server.                           *)
(***************************************************************************)

SrvType == {Idle} \cup [pc : {"portal"}, client : Clients, queue : Queues, slot : Slots]

\* The server waits at the portal for client c.
Serving(c) == srv # Idle /\ srv.client = c

\* A request in the mailbox of the server has no reply yet, an acknowledge is
\* on its way or seen exactly while the server waits at the portal, and
\* between two calls nothing of the last one is left.
ClientOK(c) ==
  /\ ctl[c] = "idle" => c \notin requests /\ reply[c] = NoReply /\ call[c] = NoCall
  /\ c \in requests => reply[c] = NoReply /\ (call[c].op = "receive" => ctl[c] = "ack")
  /\ reply[c] = Ack => Serving(c)
  /\ Serving(c) =>
       /\ call[c].op = "receive" /\ c \notin requests
       /\ \/ ctl[c] = "ack" /\ reply[c] = Ack
          \/ ctl[c] = "portal_read" /\ reply[c] = NoReply

Types ==
  /\ buffers \in [Queues -> BufferType]
  /\ srv \in SrvType
  /\ call \in [Clients -> CallType \cup {NoCall}]
  /\ DOMAIN ctl = Clients
  /\ DOMAIN reply = Clients
  /\ buf \in [Clients -> Payloads]

IInv ==
  /\ Types
  /\ \A q \in Queues : RingOK(buffers[q])
  /\ \A c \in Clients : ClientOK(c)

\* The codes of errors are none of the words of the protocol.
LEMMA CodesDiffer ==
  /\ \A table, key, flags : GetCode(table, key, flags, "ENOMEM") \notin {"ACK", "none"}
  /\ \A q, nowait : SendCode(q, nowait) \in {"ENOTSUP", "EINVAL", "EAGAIN", "ok"}
  /\ \A q, nowait : ReceiveCode(q, nowait) \in {"ENOTSUP", "EINVAL", "ENOMSG", "ok"}
  /\ \A code, q : code \notin {"ACK", "none"} => Status(code, q) \notin {Ack, NoReply}
<1>1. \A table, key, flags : GetCode(table, key, flags, "ENOMEM") \notin {"ACK", "none"}
  BY Zenon DEF GetCode
<1>2. \A q, nowait : SendCode(q, nowait) \in {"ENOTSUP", "EINVAL", "EAGAIN", "ok"}
  BY Zenon DEF SendCode
<1>3. \A q, nowait : ReceiveCode(q, nowait) \in {"ENOTSUP", "EINVAL", "ENOMSG", "ok"}
  BY Zenon DEF ReceiveCode
<1>4. \A code, q : code \notin {"ACK", "none"} => Status(code, q) \notin {Ack, NoReply}
  <2>. SUFFICES ASSUME NEW code, NEW q, code \notin {"ACK", "none"}
                PROVE  Status(code, q) # Ack /\ Status(code, q) # NoReply
    BY Zenon
  <2>1. Status(code, q).status = code /\ Ack.status = "ACK" /\ NoReply.status = "none"
    BY Zenon DEF Status, Ack, NoReply
  <2>. QED
    BY Zenon, <2>1
<1>. QED
  BY Zenon, <1>1, <1>2, <1>3, <1>4

\* The invariant holds in the beginning.
LEMMA InitOK == Init => IInv
<1>. SUFFICES ASSUME Init PROVE IInv
  BY Zenon
<1>1. 0 \in Slots /\ 0 \in 0 .. NANVIX_MSG_LENGTH_MAX /\ Zero \in Payloads
  BY MsgAssumption DEF Slots
<1>2. RingOK(msgbuf_alloc) /\ msgbuf_alloc \in BufferType
  <2>1. msgbuf_alloc \in BufferType
    BY Zenon, <1>1 DEF msgbuf_alloc, BufferType
  <2>2. Wrapped(0) = 0
    <3>1. 0 \in 0 .. NANVIX_MSG_LENGTH_MAX + NANVIX_MSG_LENGTH_MAX - 1 /\ 0 < NANVIX_MSG_LENGTH_MAX
      BY MsgAssumption
    <3>. QED
      BY Zenon, <3>1, Wrap
  <2>3. 0 + 0 = 0
    OBVIOUS
  <2>. QED
    BY Zenon, <2>1, <2>2, <2>3 DEF RingOK, msgbuf_alloc
<1>3. Types
  BY Zenon, <1>1, <1>2 DEF Init, Types, SrvType
<1>4. \A q \in Queues : RingOK(buffers[q])
  BY Zenon, <1>2 DEF Init
<1>5. ASSUME NEW c \in Clients PROVE ClientOK(c)
  <2>1. reply[c] # Ack
    BY Zenon DEF Init, NoReply, Ack
  <2>. QED
    BY Zenon, <2>1 DEF Init, ClientOK, Serving
<1>. QED
  BY Zenon, <1>3, <1>4, <1>5 DEF IInv

\* A client that a step does not touch.
LEMMA OtherClient ==
  ASSUME NEW d \in Clients, ClientOK(d),
         ctl'[d] = ctl[d], reply'[d] = reply[d], call'[d] = call[d], buf'[d] = buf[d],
         d \in requests' <=> d \in requests,
         \/ srv' = srv /\ buffers' = buffers
         \/ ~Serving(d) /\ ~Serving(d)'
  PROVE  ClientOK(d)' /\ Outcome(d)' = Outcome(d)
<1>1. Serving(d)' <=> Serving(d)
  BY Zenon DEF Serving
<1>2. ClientOK(d)'
  BY Zenon, <1>1 DEF ClientOK
<1>3. CASE srv' = srv /\ buffers' = buffers
  BY Zenon, <1>2, <1>3 DEF Outcome
<1>4. CASE ~Serving(d) /\ ~Serving(d)'
  BY Zenon, <1>2, <1>4 DEF Outcome, Serving
<1>. QED
  BY Zenon, <1>2, <1>3, <1>4

\* Steps that change neither the queues nor an outcome.
LEMMA FifoStutters ==
  ASSUME buffers' = buffers, \A d \in Clients : Outcome(d)' = Outcome(d)
  PROVE  UNCHANGED Fifo!vars
BY Zenon DEF Fifo!vars

\* A stub starts a call.
LEMMA RequestStep ==
  ASSUME IInv, NEW c \in Clients, NEW m \in CallType, NEW next, Request(c, m, next),
         next # "idle", m.op = "receive" => next = "ack",
         buf' \in [Clients -> Payloads], \A d \in Clients \ {c} : buf'[d] = buf[d]
  PROVE  IInv' /\ UNCHANGED Fifo!vars
<1>1. /\ ctl[c] = "idle" /\ requests' = requests \cup {c}
      /\ call' = [call EXCEPT ![c] = m] /\ ctl' = [ctl EXCEPT ![c] = next]
      /\ buffers' = buffers /\ srv' = srv /\ reply' = reply
  BY Zenon DEF Request, servervars
<1>2. Types /\ ClientOK(c) /\ \A d \in Clients : ClientOK(d)
  BY Zenon DEF IInv
<1>3. Types'
  BY Zenon, <1>1, <1>2 DEF Types
<1>4. \A q \in Queues : RingOK(buffers[q])'
  BY Zenon, <1>1 DEF IInv
<1>5. call'[c] = m /\ ctl'[c] = next /\ c \in requests' /\ reply'[c] = NoReply
  BY Zenon, <1>1, <1>2 DEF Types, ClientOK
<1>6. ~Serving(c) /\ ~Serving(c)' /\ call[c] = NoCall
  BY Zenon, <1>1, <1>2 DEF ClientOK, Serving
<1>7. NoReply # Ack
  BY Zenon DEF NoReply, Ack
<1>8. ClientOK(c)'
  BY Zenon, <1>5, <1>6, <1>7 DEF ClientOK
<1>9. Outcome(c)' = Outcome(c)
  <2>1. Outcome(c) = <<>>
    BY <1>6 DEF Outcome, Serving, NoCall
  <2>2. Outcome(c)' = <<>>
    BY Zenon, <1>5, <1>6 DEF Outcome, Serving
  <2>. QED
    BY Zenon, <2>1, <2>2
<1>10. ASSUME NEW d \in Clients \ {c}
       PROVE  ClientOK(d)' /\ Outcome(d)' = Outcome(d)
  BY Zenon, <1>1, <1>2, OtherClient DEF Types
<1>11. IInv'
  BY Zenon, <1>3, <1>4, <1>8, <1>10 DEF IInv
<1>. QED
  BY Zenon, <1>1, <1>9, <1>10, <1>11, FifoStutters

\* A stub that sends a request changes no abstract queue.
LEMMA ClientCallStep ==
  ASSUME IInv, NEW c \in Clients, ClientCall(c)
  PROVE  IInv' /\ UNCHANGED Fifo!vars
<1>t. buf \in [Clients -> Payloads]
  BY Zenon DEF IInv, Types
<1>1. ASSUME NEW g \in GetCalls, GetCall(c, g[1], g[2]) PROVE IInv' /\ UNCHANGED Fifo!vars
  <2>1. GetMsg(g[1], g[2]) \in CallType /\ GetMsg(g[1], g[2]).op = "get"
    BY Zenon, MsgAssumption DEF GetMsg, CallType
  <2>2. Request(c, GetMsg(g[1], g[2]), "reply") /\ buf' = buf
    BY Zenon, <1>1 DEF GetCall
  <2>. QED
    BY Zenon, <1>t, <2>1, <2>2, RequestStep
<1>2. ASSUME NEW q \in Queues, CloseCall(c, q) PROVE IInv' /\ UNCHANGED Fifo!vars
  <2>1. CloseMsg(q) \in CallType /\ CloseMsg(q).op = "close"
    BY Zenon DEF CloseMsg, CallType
  <2>2. Request(c, CloseMsg(q), "reply") /\ buf' = buf
    BY Zenon, <1>2 DEF CloseCall
  <2>. QED
    BY Zenon, <1>t, <2>1, <2>2, RequestStep
<1>3. ASSUME NEW q \in Queues, NEW nowait \in NoWait, ReceiveCall(c, q, nowait)
      PROVE  IInv' /\ UNCHANGED Fifo!vars
  <2>1. ReceiveMsg(q, nowait) \in CallType
    BY Zenon, MsgAssumption DEF ReceiveMsg, CallType
  <2>2. Request(c, ReceiveMsg(q, nowait), "ack") /\ buf' = buf
    BY Zenon, <1>3 DEF ReceiveCall
  <2>. QED
    BY Zenon, <1>t, <2>1, <2>2, RequestStep
<1>4. ASSUME NEW q \in Queues, NEW nowait \in NoWait, NEW v \in Payloads,
             SendCall(c, q, v, nowait)
      PROVE  IInv' /\ UNCHANGED Fifo!vars
  <2>1. SendMsg(q, nowait) \in CallType /\ SendMsg(q, nowait).op = "send"
    BY Zenon, MsgAssumption DEF SendMsg, CallType
  <2>2. Request(c, SendMsg(q, nowait), "portal_write") /\ buf' = [buf EXCEPT ![c] = v]
    BY Zenon, <1>4 DEF SendCall
  <2>3. buf' \in [Clients -> Payloads] /\ \A d \in Clients \ {c} : buf'[d] = buf[d]
    BY Zenon, <1>t, <2>2
  <2>. QED
    BY Zenon, <2>1, <2>2, <2>3, RequestStep
<1>. QED
  BY Zenon, <1>1, <1>2, <1>3, <1>4 DEF ClientCall

\* A stub sees the end of its call.
LEMMA EndStep ==
  ASSUME IInv, NEW c \in Clients, ctl[c] # "idle", reply[c] \notin {NoReply, Ack},
         ctl[c] # "portal_read",
         ctl' = [ctl EXCEPT ![c] = "idle"], call' = [call EXCEPT ![c] = NoCall],
         reply' = [reply EXCEPT ![c] = NoReply], UNCHANGED <<servervars, requests>>,
         buf' \in [Clients -> Payloads], \A d \in Clients \ {c} : buf'[d] = buf[d]
  PROVE  IInv' /\ Fifo!Return(c)
<1>1. buffers' = buffers /\ srv' = srv /\ requests' = requests
  BY Zenon DEF servervars
<1>2. Types /\ ClientOK(c) /\ \A d \in Clients : ClientOK(d)
  BY Zenon DEF IInv
<1>3. Types'
  BY Zenon, <1>1, <1>2 DEF Types
<1>4. \A q \in Queues : RingOK(buffers[q])'
  BY Zenon, <1>1 DEF IInv
<1>5. call'[c] = NoCall /\ ctl'[c] = "idle" /\ reply'[c] = NoReply
  BY Zenon, <1>2 DEF Types
<1>6. ~Serving(c) /\ ~Serving(c)' /\ c \notin requests'
  BY Zenon, <1>1, <1>2 DEF ClientOK, Serving
<1>7. NoReply # Ack
  BY Zenon DEF NoReply, Ack
<1>8. ClientOK(c)'
  BY Zenon, <1>5, <1>6, <1>7 DEF ClientOK
<1>9. Outcome(c)' = <<>>
  BY Zenon, <1>5, <1>6 DEF Outcome, Serving, NoCall
<1>10. ASSUME NEW d \in Clients \ {c}
       PROVE  ClientOK(d)' /\ Outcome(d)' = Outcome(d)
  BY Zenon, <1>1, <1>2, OtherClient DEF Types
<1>11. IInv'
  BY Zenon, <1>3, <1>4, <1>8, <1>10 DEF IInv
<1>. QED
  BY ZenonT(60), <1>1, <1>9, <1>10, <1>11 DEF Fifo!Return, Fifo!None

\* A stub that returns ends the abstract call.
LEMMA ReturnStep ==
  ASSUME IInv, NEW c \in Clients, Return(c)
  PROVE  IInv' /\ Fifo!Return(c)
<1>1. ClientOK(c) /\ Types
  BY Zenon DEF IInv
<1>2. ctl[c] = "reply" /\ reply[c] # NoReply
  BY Zenon DEF Return
<1>3. reply[c] # Ack
  BY Zenon, <1>1, <1>2 DEF ClientOK
<1>4. buf' \in [Clients -> Payloads] /\ \A d \in Clients \ {c} : buf'[d] = buf[d]
  BY Zenon, <1>1, MsgAssumption DEF Return, Types
<1>. QED
  BY ZenonT(60), <1>2, <1>3, <1>4, EndStep DEF Return

\* The acknowledge of a receive: the stub goes on to the portal, or returns.
LEMMA ReceiveAckStep ==
  ASSUME IInv, NEW c \in Clients, ReceiveAck(c)
  PROVE  IInv' /\ (Fifo!Return(c) \/ UNCHANGED Fifo!vars)
<1>1. Types /\ ClientOK(c) /\ \A d \in Clients : ClientOK(d)
  BY Zenon DEF IInv
<1>2. CASE reply[c] = Ack
  <2>1. /\ ctl' = [ctl EXCEPT ![c] = "portal_read"] /\ call' = call /\ buf' = buf
        /\ reply' = [reply EXCEPT ![c] = NoReply]
        /\ buffers' = buffers /\ srv' = srv /\ requests' = requests
    BY Zenon, <1>2 DEF ReceiveAck, servervars
  <2>2. Serving(c) /\ Serving(c)' /\ call[c].op = "receive" /\ c \notin requests
    BY Zenon, <1>1, <1>2, <2>1 DEF ClientOK, Serving
  <2>3. ctl'[c] = "portal_read" /\ reply'[c] = NoReply
    BY Zenon, <1>1, <2>1 DEF Types
  <2>4. NoReply # Ack
    BY Zenon DEF NoReply, Ack
  <2>5. ClientOK(c)'
    BY Zenon, <2>1, <2>2, <2>3, <2>4 DEF ClientOK
  <2>6. Outcome(c)' = Outcome(c)
    BY Zenon, <2>1, <2>2 DEF Outcome, Serving
  <2>7. ASSUME NEW d \in Clients \ {c}
        PROVE  ClientOK(d)' /\ Outcome(d)' = Outcome(d)
    BY Zenon, <1>1, <2>1, OtherClient DEF Types
  <2>8. Types' /\ \A q \in Queues : RingOK(buffers[q])'
    BY Zenon, <1>1, <2>1 DEF IInv, Types
  <2>9. IInv'
    BY Zenon, <2>5, <2>7, <2>8 DEF IInv
  <2>. QED
    BY Zenon, <2>1, <2>6, <2>7, <2>9, FifoStutters
<1>3. CASE reply[c] # Ack
  <2>1. /\ ctl[c] = "ack" /\ reply[c] # NoReply /\ buf' = buf
        /\ ctl' = [ctl EXCEPT ![c] = "idle"] /\ call' = [call EXCEPT ![c] = NoCall]
        /\ reply' = [reply EXCEPT ![c] = NoReply] /\ UNCHANGED <<servervars, requests>>
    BY Zenon, <1>3 DEF ReceiveAck
  <2>2. buf' \in [Clients -> Payloads]
    BY Zenon, <1>1, <2>1 DEF Types
  <2>. QED
    BY ZenonT(60), <1>3, <2>1, <2>2, EndStep
<1>. QED
  BY Zenon, <1>2, <1>3

\* The server takes a request and answers it.
LEMMA AnswerStep ==
  ASSUME IInv, NEW c \in Clients, NEW op, NEW m, Receive(c, op), Answer(c, m),
         m \notin {NoReply, Ack}, srv' = srv, call' = call, buf' = buf,
         DOMAIN ctl' = Clients, ctl'[c] # "idle", \A d \in Clients \ {c} : ctl'[d] = ctl[d],
         buffers' \in [Queues -> BufferType], \A q \in Queues : RingOK(buffers'[q])
  PROVE  /\ IInv'
         /\ \A d \in Clients \ {c} : Outcome(d)' = Outcome(d)
         /\ Outcome(c) = <<>>
         /\ op \notin {"send", "receive"} => Outcome(c)' = <<>>
         /\ op \in {"send", "receive"} /\ m.status # "ok" => Outcome(c)' = <<m.status>>
         /\ op = "send" /\ m.status = "ok" => Outcome(c)' = <<"sent">>
<1>1. /\ srv = Idle /\ srv' = Idle /\ c \in requests /\ call[c].op = op
      /\ requests' = requests \ {c} /\ reply' = [reply EXCEPT ![c] = m]
  BY Zenon DEF Receive, Answer
<1>2. Types /\ ClientOK(c) /\ \A d \in Clients : ClientOK(d)
  BY Zenon DEF IInv
<1>3. Types'
  BY Zenon, <1>1, <1>2 DEF Types
<1>4. \A d \in Clients : ~Serving(d) /\ ~Serving(d)'
  BY Zenon, <1>1 DEF Serving
<1>5. reply[c] = NoReply /\ reply'[c] = m /\ c \notin requests'
  BY Zenon, <1>1, <1>2 DEF ClientOK, Types
<1>6. ClientOK(c)'
  BY Zenon, <1>4, <1>5 DEF ClientOK
<1>7. ASSUME NEW d \in Clients \ {c}
      PROVE  ClientOK(d)' /\ Outcome(d)' = Outcome(d)
  <2>1. reply'[d] = reply[d] /\ (d \in requests' <=> d \in requests)
    BY Zenon, <1>1, <1>2 DEF Types
  <2>. QED
    BY Zenon, <1>2, <1>4, <2>1, OtherClient
<1>8. IInv'
  BY Zenon, <1>3, <1>6, <1>7 DEF IInv
<1>9. Outcome(c) = <<>>
  BY Zenon, <1>1, <1>5 DEF Outcome
<1>10. /\ op \notin {"send", "receive"} => Outcome(c)' = <<>>
       /\ op \in {"send", "receive"} /\ m.status # "ok" => Outcome(c)' = <<m.status>>
       /\ op = "send" /\ m.status = "ok" => Outcome(c)' = <<"sent">>
  BY Zenon, <1>1, <1>5 DEF Outcome
<1>. QED
  BY Zenon, <1>7, <1>8, <1>9, <1>10

\* do_sysv_msg_get() and do_sysv_msg_close() leave queues and outcomes alone.
LEMMA GetCloseStep ==
  ASSUME IInv, NEW c \in Clients, do_sysv_msg_get(c) \/ do_sysv_msg_close(c)
  PROVE  IInv' /\ UNCHANGED Fifo!vars
<1>1. /\ \E op \in {"get", "close"} : Receive(c, op)
      /\ buffers' = buffers /\ srv' = srv /\ call' = call /\ buf' = buf /\ ctl' = ctl
  BY Zenon DEF do_sysv_msg_get, do_sysv_msg_close
<1>2. PICK op \in {"get", "close"} : Receive(c, op)
  BY Zenon, <1>1
<1>3. \E m : Answer(c, m) /\ m \notin {NoReply, Ack}
  <2>1. CASE do_sysv_msg_get(c)
    <3>. DEFINE code == GetCode(mqueues, call[c].key, call[c].flags, "ENOMEM")
    <3>1. \E m : Answer(c, m) /\ \E k, q : m = Status(k, q) /\ k \in {code, "ok"}
      <4>. HIDE DEF code
      <4>. QED  BY Zenon, <2>1 DEF do_sysv_msg_get, code
    <3>2. code \notin {"ACK", "none"}
      BY Zenon, CodesDiffer
    <3>. QED
      BY Zenon, <3>1, <3>2, CodesDiffer
  <2>2. CASE do_sysv_msg_close(c)
    <3>1. \E m : Answer(c, m) /\ \E k : m = Status(k, 0) /\ k \in {"EINVAL", "ok"}
      BY Zenon, <2>2 DEF do_sysv_msg_close
    <3>. QED
      BY Zenon, <3>1, CodesDiffer
  <2>. QED
    BY Zenon, <2>1, <2>2
<1>4. PICK m : Answer(c, m) /\ m \notin {NoReply, Ack}
  BY Zenon, <1>3
<1>5. /\ DOMAIN ctl = Clients /\ ctl[c] # "idle" /\ buffers \in [Queues -> BufferType]
      /\ \A q \in Queues : RingOK(buffers[q])
  BY Zenon, <1>2 DEF IInv, Types, ClientOK, Receive
<1>6. /\ IInv' /\ Outcome(c)' = Outcome(c)
      /\ \A d \in Clients \ {c} : Outcome(d)' = Outcome(d)
  BY ZenonT(60), <1>1, <1>2, <1>4, <1>5, AnswerStep
<1>. QED
  BY Zenon, <1>1, <1>6, FifoStutters

\* The queue of a request to send or to receive.
LEMMA RequestQueue ==
  ASSUME Types, NEW c \in Clients, call[c].op \in {"send", "receive"}
  PROVE  call[c].queue \in Queues
<1>1. call[c] \in CallType \cup {NoCall}
  BY Zenon DEF Types
<1>. QED
  BY <1>1 DEF CallType, NoCall

\* do_sysv_msg_send()
LEMMA SendStep ==
  ASSUME IInv, NEW c \in Clients, do_sysv_msg_send(c)
  PROVE  IInv' /\ Fifo!Next
<1>. DEFINE q == call[c].queue
            code == SendCode(q, call[c].nowait)
<1>1. /\ Receive(c, "send") /\ ctl[c] = "portal_write" /\ Answer(c, Status(code, 0))
      /\ ctl' = [ctl EXCEPT ![c] = "reply"]
      /\ srv' = srv /\ call' = call /\ buf' = buf
      /\ code = "ok" => buffers' = [buffers EXCEPT ![q] = msgbuf_put(buffers[q], buf[c])]
      /\ code # "ok" => buffers' = buffers
  BY Zenon DEF do_sysv_msg_send
<1>2. /\ code \in {"ENOTSUP", "EINVAL", "EAGAIN", "ok"}
      /\ Status(code, 0) \notin {NoReply, Ack} /\ Status(code, 0).status = code
  <2>1. code \in {"ENOTSUP", "EINVAL", "EAGAIN", "ok"}
    BY Zenon, CodesDiffer
  <2>. HIDE DEF code
  <2>. QED
    BY Zenon, <2>1, CodesDiffer DEF Status
<1>3. code = "ok" => ~Full(buffers[q])
  BY Zenon DEF SendCode
<1>4. code = "EAGAIN" => Full(buffers[q])
  BY Zenon DEF SendCode
<1>. HIDE DEF code
<1>5. Types /\ q \in Queues /\ buf[c] \in Payloads /\ RingOK(buffers[q])
  <2>1. q \in Queues
    BY Zenon, <1>1, RequestQueue DEF IInv, Receive
  <2>. QED
    BY Zenon, <2>1 DEF IInv, Types
<1>. HIDE DEF q
<1>6. /\ DOMAIN ctl' = Clients /\ ctl'[c] # "idle"
      /\ \A d \in Clients \ {c} : ctl'[d] = ctl[d]
  BY Zenon, <1>1, <1>5 DEF Types
<1>7. /\ code = "ok" => RingOK(msgbuf_put(buffers[q], buf[c]))
      /\ code = "ok" => Contents(msgbuf_put(buffers[q], buf[c]))
                         = Append(Contents(buffers[q]), buf[c])
  BY Zenon, <1>3, <1>5, PutAppends
<1>8. /\ buffers' \in [Queues -> BufferType] /\ \A p \in Queues : RingOK(buffers'[p])
      /\ \A p \in Queues : p # q => buffers'[p] = buffers[p]
  <2>1. CASE code = "ok"
    <3>1. msgbuf_put(buffers[q], buf[c]) \in BufferType
      BY Zenon, <1>7, <2>1 DEF RingOK
    <3>. QED
      BY Zenon, <1>1, <1>5, <1>7, <2>1, <3>1 DEF IInv, Types
  <2>2. CASE code # "ok"
    BY Zenon, <1>1, <1>5, <2>2 DEF IInv, Types
  <2>. QED
    BY Zenon, <2>1, <2>2
<1>9. /\ IInv' /\ Outcome(c) = <<>>
      /\ \A d \in Clients \ {c} : Outcome(d)' = Outcome(d)
      /\ code # "ok" => Outcome(c)' = <<code>>
      /\ code = "ok" => Outcome(c)' = <<"sent">>
  BY SMTT(60), <1>1, <1>2, <1>6, <1>8, AnswerStep
<1>10. /\ Len(Contents(buffers[q])) = buffers[q].len
       /\ buffers[q].len \in 0 .. NANVIX_MSG_LENGTH_MAX
  BY Zenon, <1>5, ContentsSeq DEF RingOK, BufferType
<1>11. CASE code = "ok"
  <2>1. Len(Contents(buffers[q])) < NANVIX_MSG_LENGTH_MAX
    BY <1>3, <1>10, <1>11, MsgAssumption DEF Full
  <2>2. buffers'[q] = msgbuf_put(buffers[q], buf[c])
    BY Zenon, <1>1, <1>5, <1>11 DEF Types
  <2>3. Fifo!Send(c, q, buf[c])
    BY ZenonT(60), <1>5, <1>7, <1>8, <1>9, <1>11, <2>1, <2>2 DEF Fifo!Send, Fifo!None, Fifo!Sent
  <2>. QED
    BY Zenon, <1>5, <1>9, <2>3 DEF Fifo!Next
<1>12. CASE code = "EAGAIN"
  <2>1. ~(Len(Contents(buffers[q])) < NANVIX_MSG_LENGTH_MAX)
    BY <1>4, <1>10, <1>12, MsgAssumption DEF Full
  <2>2. buffers' = buffers
    BY Zenon, <1>1, <1>12
  <2>3. Fifo!Send(c, q, buf[c])
    BY ZenonT(60), <1>5, <1>9, <1>12, <2>1, <2>2 DEF Fifo!Send, Fifo!None, Fifo!Failed
  <2>. QED
    BY Zenon, <1>5, <1>9, <2>3 DEF Fifo!Next
<1>13. CASE code \in {"ENOTSUP", "EINVAL"}
  <2>1. buffers' = buffers
    BY Zenon, <1>1, <1>13
  <2>2. Fifo!Refuse(c)
    BY ZenonT(60), <1>9, <1>13, <2>1 DEF Fifo!Refuse, Fifo!None, Fifo!Failed
  <2>. QED
    BY Zenon, <1>9, <2>2 DEF Fifo!Next
<1>. QED
  BY Zenon, <1>2, <1>11, <1>12, <1>13

\* do_sysv_msg_receive(): an error.
LEMMA ReceiveFails ==
  ASSUME IInv, NEW c \in Clients, do_sysv_msg_receive(c),
         ReceiveCode(call[c].queue, call[c].nowait) # "ok"
  PROVE  IInv' /\ Fifo!Next
<1>. DEFINE q == call[c].queue
            code == ReceiveCode(q, call[c].nowait)
<1>1. /\ Receive(c, "receive") /\ Answer(c, Status(code, 0)) /\ code # "ok"
      /\ ctl' = ctl /\ srv' = srv /\ call' = call /\ buf' = buf /\ buffers' = buffers
  BY Zenon DEF do_sysv_msg_receive
<1>2. /\ code \in {"ENOTSUP", "EINVAL", "ENOMSG", "ok"}
      /\ Status(code, 0) \notin {NoReply, Ack} /\ Status(code, 0).status = code
  <2>1. code \in {"ENOTSUP", "EINVAL", "ENOMSG", "ok"}
    BY Zenon, CodesDiffer
  <2>. HIDE DEF code
  <2>. QED
    BY Zenon, <2>1, CodesDiffer DEF Status
<1>3. code = "ENOMSG" => buffers[q].len = 0
  BY Zenon DEF ReceiveCode
<1>. HIDE DEF code
<1>4. Types /\ q \in Queues /\ RingOK(buffers[q])
  <2>1. q \in Queues
    BY Zenon, <1>1, RequestQueue DEF IInv, Receive
  <2>. QED
    BY Zenon, <2>1 DEF IInv
<1>. HIDE DEF q
<1>5. DOMAIN ctl = Clients /\ ctl[c] # "idle" /\ buffers \in [Queues -> BufferType]
  BY Zenon, <1>1 DEF IInv, Types, ClientOK, Receive
<1>6. /\ IInv' /\ Outcome(c) = <<>> /\ Outcome(c)' = <<code>>
      /\ \A d \in Clients \ {c} : Outcome(d)' = Outcome(d)
  <2>1. \A p \in Queues : RingOK(buffers[p])
    BY Zenon DEF IInv
  <2>. QED
    BY <1>1, <1>2, <1>5, <2>1, AnswerStep
<1>7. CASE code = "ENOMSG"
  <2>1. Contents(buffers[q]) = <<>>
    BY <1>3, <1>4, <1>7, ContentsSeq
  <2>2. Fifo!Receive(c, q)
    BY ZenonT(60), <1>1, <1>4, <1>6, <1>7, <2>1 DEF Fifo!Receive, Fifo!None, Fifo!Failed
  <2>. QED
    BY Zenon, <1>4, <1>6, <2>2 DEF Fifo!Next
<1>8. CASE code \in {"ENOTSUP", "EINVAL"}
  <2>1. Fifo!Refuse(c)
    BY ZenonT(60), <1>1, <1>6, <1>8 DEF Fifo!Refuse, Fifo!None, Fifo!Failed
  <2>. QED
    BY Zenon, <1>6, <2>1 DEF Fifo!Next
<1>. QED
  BY Zenon, <1>1, <1>2, <1>7, <1>8

\* do_sysv_msg_receive(): the server takes the oldest message of the queue and
\* goes to wait at the portal.
LEMMA ReceiveSucceeds ==
  ASSUME IInv, NEW c \in Clients, do_sysv_msg_receive(c),
         ReceiveCode(call[c].queue, call[c].nowait) = "ok"
  PROVE  IInv' /\ Fifo!Next
<1>. DEFINE q == call[c].queue
            b == buffers[q]
<1>1. /\ Receive(c, "receive") /\ Answer(c, Ack) /\ srv' = Sending(c, q, b.head)
      /\ buffers' = [buffers EXCEPT ![q] = msgbuf_get(b)]
      /\ ctl' = ctl /\ call' = call /\ buf' = buf
  BY Zenon DEF do_sysv_msg_receive
<1>2. b.len # 0
  BY Zenon DEF ReceiveCode
<1>3. /\ Types /\ q \in Queues /\ RingOK(b) /\ b.head \in Slots
      /\ ClientOK(c) /\ \A d \in Clients : ClientOK(d)
  <2>1. q \in Queues
    BY Zenon, <1>1, RequestQueue DEF IInv, Receive
  <2>2. RingOK(b)
    BY Zenon, <2>1 DEF IInv
  <2>. QED
    BY Zenon, <2>1, <2>2 DEF IInv, RingOK, BufferType
<1>. HIDE DEF q
<1>4. /\ srv = Idle /\ c \in requests /\ call[c].op = "receive" /\ requests' = requests \ {c}
      /\ reply' = [reply EXCEPT ![c] = Ack]
  BY Zenon, <1>1 DEF Receive, Answer
<1>5. /\ RingOK(msgbuf_get(b)) /\ msgbuf_get(b).data = b.data /\ Contents(b) # <<>>
      /\ Head(Contents(b)) = b.data[b.head] /\ Contents(msgbuf_get(b)) = Tail(Contents(b))
  BY Zenon, <1>2, <1>3, GetTakesHead
<1>6. /\ buffers'[q] = msgbuf_get(b) /\ buffers' \in [Queues -> BufferType]
      /\ \A p \in Queues : p # q => buffers'[p] = buffers[p]
  BY <1>1, <1>3, <1>5 DEF Types, RingOK
<1>7. /\ srv' # Idle /\ srv'.client = c /\ srv'.queue = q /\ srv'.slot = b.head
      /\ srv' \in SrvType
  <2>1. srv'.pc = "portal" /\ Idle.pc = "loop"
    BY Zenon, <1>1 DEF Sending, Idle
  <2>. QED
    BY Zenon, <1>1, <1>3, <2>1 DEF Sending, SrvType
<1>8. Types'
  BY SMTT(60), <1>1, <1>3, <1>4, <1>6, <1>7 DEF Types
<1>9. \A p \in Queues : RingOK(buffers[p])'
  BY Zenon, <1>5, <1>6 DEF IInv
<1>10. reply[c] = NoReply /\ reply'[c] = Ack /\ ctl'[c] = "ack" /\ c \notin requests'
  BY Zenon, <1>1, <1>3, <1>4 DEF ClientOK, Types
<1>11. Serving(c)' /\ \A d \in Clients \ {c} : ~Serving(d) /\ ~Serving(d)'
  BY Zenon, <1>4, <1>7 DEF Serving
<1>12. ClientOK(c)'
  BY Zenon, <1>1, <1>4, <1>10, <1>11 DEF ClientOK
<1>13. ASSUME NEW d \in Clients \ {c}
       PROVE  ClientOK(d)' /\ Outcome(d)' = Outcome(d)
  <2>1. /\ reply'[d] = reply[d] /\ (d \in requests' <=> d \in requests)
        /\ ctl'[d] = ctl[d] /\ call'[d] = call[d] /\ buf'[d] = buf[d]
    BY Zenon, <1>1, <1>3, <1>4 DEF Types
  <2>. QED
    BY <1>3, <1>11, <2>1, OtherClient
<1>14. IInv'
  BY Zenon, <1>8, <1>9, <1>12, <1>13 DEF IInv
<1>15. Outcome(c) = <<>> /\ Outcome(c)' = <<"received", Head(Contents(b))>>
  BY SMTT(60), <1>4, <1>5, <1>6, <1>7, <1>10 DEF Outcome
<1>16. Fifo!Receive(c, q)
  <2>1. Contents(buffers'[q]) = Tail(Contents(buffers[q]))
    BY Zenon, <1>5, <1>6
  <2>. QED
    BY ZenonT(60), <1>3, <1>5, <1>6, <1>13, <1>15, <2>1 DEF Fifo!Receive, Fifo!None, Fifo!Received
<1>. QED
  BY Zenon, <1>3, <1>14, <1>16 DEF Fifo!Next

\* do_sysv_msg_receive(), from the portal write on.
LEMMA ReceiveDataStep ==
  ASSUME IInv, do_sysv_msg_receive_data
  PROVE  IInv' /\ UNCHANGED Fifo!vars
<1>c. PICK c \in Clients : c = srv.client
  BY Zenon DEF IInv, Types, SrvType, do_sysv_msg_receive_data
<1>1. /\ srv # Idle /\ ctl[c] = "portal_read"
      /\ buf' = [buf EXCEPT ![c] = buffers[srv.queue].data[srv.slot]]
      /\ ctl' = [ctl EXCEPT ![c] = "reply"] /\ reply' = [reply EXCEPT ![c] = Status("ok", 0)]
      /\ srv' = Idle /\ buffers' = buffers /\ requests' = requests /\ call' = call
  BY Zenon, <1>c DEF do_sysv_msg_receive_data, Answer
<1>2. /\ Types /\ srv.queue \in Queues /\ srv.slot \in Slots
      /\ \A d \in Clients : ClientOK(d)
  BY Zenon, <1>1 DEF IInv, Types, SrvType
<1>3. Serving(c) /\ ~Serving(c)' /\ \A d \in Clients \ {c} : ~Serving(d) /\ ~Serving(d)'
  BY Zenon, <1>c, <1>1 DEF Serving
<1>4. call[c].op = "receive" /\ c \notin requests
  BY Zenon, <1>2, <1>3 DEF ClientOK
<1>5. buffers[srv.queue].data[srv.slot] \in Payloads
  BY Zenon, <1>2 DEF Types, BufferType
<1>6. Types'
  BY Zenon, <1>1, <1>2, <1>5 DEF Types, SrvType
<1>7. Status("ok", 0) \notin {NoReply, Ack} /\ Status("ok", 0).status = "ok"
  BY Zenon, CodesDiffer DEF Status
<1>8. Outcome(c) = <<"received", buffers[srv.queue].data[srv.slot]>>
  BY Zenon, <1>c, <1>1 DEF Outcome
<1>9. /\ ctl'[c] = "reply" /\ reply'[c] = Status("ok", 0)
      /\ buf'[c] = buffers[srv.queue].data[srv.slot]
  BY Zenon, <1>1, <1>2 DEF Types
<1>10. ClientOK(c)'
  BY Zenon, <1>1, <1>3, <1>4, <1>7, <1>9 DEF ClientOK
<1>11. Outcome(c)' = Outcome(c)
  <2>1. reply'[c] # NoReply /\ reply'[c].status = "ok" /\ call'[c].op = "receive" /\ srv' = Idle
    BY Zenon, <1>1, <1>4, <1>7, <1>9
  <2>2. Outcome(c)' = <<"received", buf'[c]>>
    BY Zenon, <2>1 DEF Outcome
  <2>. QED
    BY Zenon, <1>8, <1>9, <2>2
<1>12. ASSUME NEW d \in Clients \ {c}
       PROVE  ClientOK(d)' /\ Outcome(d)' = Outcome(d)
  <2>1. reply'[d] = reply[d] /\ ctl'[d] = ctl[d] /\ buf'[d] = buf[d]
    BY Zenon, <1>1, <1>2 DEF Types
  <2>. QED
    BY Zenon, <1>1, <1>2, <1>3, <2>1, OtherClient
<1>13. IInv'
  BY Zenon, <1>1, <1>6, <1>10, <1>12 DEF IInv
<1>. QED
  BY Zenon, <1>1, <1>11, <1>12, <1>13, FifoStutters

-----------------------------------------------------------------------------
\* Every step keeps the invariant, and is a step of the abstract queues or none.
LEMMA NextOK == IInv /\ [Next]_vars => IInv' /\ [Fifo!Next]_(Fifo!vars)
<1>. SUFFICES ASSUME IInv, [Next]_vars
              PROVE  IInv' /\ (Fifo!Next \/ UNCHANGED Fifo!vars)
  BY Zenon
<1>1. CASE do_sysv_msg_receive_data
  BY Zenon, <1>1, ReceiveDataStep
<1>2. ASSUME NEW c \in Clients, Handle(c)
      PROVE  IInv' /\ (Fifo!Next \/ UNCHANGED Fifo!vars)
  BY Zenon, <1>2, GetCloseStep, SendStep, ReceiveFails, ReceiveSucceeds DEF Handle
<1>3. ASSUME NEW c \in Clients, ClientCall(c)
      PROVE  IInv' /\ (Fifo!Next \/ UNCHANGED Fifo!vars)
  BY Zenon, <1>3, ClientCallStep
<1>4. ASSUME NEW c \in Clients, ReceiveAck(c) \/ Return(c)
      PROVE  IInv' /\ (Fifo!Next \/ UNCHANGED Fifo!vars)
  <2>1. IInv' /\ (Fifo!Return(c) \/ UNCHANGED Fifo!vars)
    BY Zenon, <1>4, ReceiveAckStep, ReturnStep
  <2>. QED
    BY Zenon, <2>1 DEF Fifo!Next
<1>5. CASE UNCHANGED vars
  <2>1. IInv'
    BY SMTT(60), <1>5 DEF vars, IInv, Types, ClientOK, Serving
  <2>2. buffers' = buffers /\ \A d \in Clients : Outcome(d)' = Outcome(d)
    BY Zenon, <1>5 DEF vars, Outcome
  <2>. QED
    BY Zenon, <2>1, <2>2, FifoStutters
<1>. QED
  BY Zenon, <1>1, <1>2, <1>3, <1>4, <1>5 DEF Next

\* The abstract queues are empty in the beginning.
LEMMA FifoInit == Init => Fifo!Init
<1>. SUFFICES ASSUME Init PROVE Fifo!Init
  BY Zenon
<1>1. IInv
  BY Zenon, InitOK
<1>2. ASSUME NEW q \in Queues PROVE Contents(buffers[q]) = <<>>
  <2>1. buffers[q].len = 0 /\ RingOK(buffers[q])
    BY Zenon, <1>1 DEF Init, IInv, msgbuf_alloc
  <2>. QED
    BY <2>1, ContentsSeq
<1>3. ASSUME NEW c \in Clients PROVE Outcome(c) = <<>>
  BY Zenon DEF Init, Outcome
<1>. QED
  BY Zenon, <1>2, <1>3 DEF Fifo!Init, Fifo!None

\* For any clients, queues and lengths, whatever the clients send, the message
\* queues of the System V server, which are ring buffers behind a protocol of
\* requests, portals and replies, are bounded first-in first-out queues with
\* atomic sends and receives.
THEOREM FifoImplemented == Spec => ImplementsFifo
BY InitOK, NextOK, FifoInit, PTL DEF Spec, ImplementsFifo, Fifo!Spec

-----------------------------------------------------------------------------
(***************************************************************************)
(* Who has the queues.                                                     *)
(***************************************************************************)

Boxes ==
  /\ requests \subseteq Clients
  /\ ctl \in [Clients -> {"idle", "reply", "ack", "portal_read", "portal_write"}]
  /\ reply \in [Clients -> {NoReply, Ack} \cup [status : Codes, queue : Queues]]
  /\ open \in [Clients -> [Queues -> Nat]]
  /\ \A c \in Clients : ctl[c] = "ack" => call[c].op = "receive"

Tables ==
  /\ mqueues \in [Queues -> RefType(Keys \cup {IPC_PRIVATE})] /\ TableCoherent(mqueues)
  /\ ConnTable(Connections, Clients, connections)

\* A get keeps the table of queues coherent.
LEMMA GotQueue ==
  ASSUME NEW t, NEW key, NEW q, t \in [Queues -> RefType(Keys \cup {IPC_PRIVATE})],
         TableCoherent(t), key \in Keys \cup {IPC_PRIVATE}, q \in GetEntries(t, key)
  PROVE  /\ q \in Queues
         /\ Got(t, q, key) \in [Queues -> RefType(Keys \cup {IPC_PRIVATE})]
         /\ TableCoherent(Got(t, q, key))
         /\ MoreRefs(Queues, t, Got(t, q, key), q)
<1>1. PICK K : K = Keys \cup {IPC_PRIVATE}
  OBVIOUS
<1>2. Queues \in SUBSET Nat
  BY DEF Queues
<1>3. t \in [Queues -> RefType(K)] /\ key \in K
  BY Zenon, <1>1
<1>4. /\ q \in Queues
      /\ Got(t, q, key) \in [Queues -> RefType(K)]
      /\ TableCoherent(Got(t, q, key))
      /\ MoreRefs(Queues, t, Got(t, q, key), q)
  BY Zenon, <1>2, <1>3, GotOK
<1>. QED
  BY Zenon, <1>1, <1>4

\* The messages can be told apart.
LEMMA Messages ==
  /\ \A q : Status("ok", q) # NoReply /\ Status("ok", q).status = "ok"
  /\ \A p, q : Status("ok", p) = Status("ok", q) => p = q
  /\ \A code, p, q : Status(code, p) = Status("ok", q) => code = "ok"
  /\ \A q : CloseMsg(q).op = "close"
  /\ \A p, q : CloseMsg(p) = CloseMsg(q) => p = q
  /\ \A k, f : GetMsg(k, f).op = "get"
  /\ \A q, w : SendMsg(q, w).op = "send" /\ ReceiveMsg(q, w).op = "receive"
  /\ NoCall.op = "none" /\ Ack.status = "ACK" /\ NoReply.status = "none"
BY DEF Status, NoReply, CloseMsg, GetMsg, SendMsg, ReceiveMsg, NoCall, Ack

\* What a client has of a queue: what it knows of, and one more if an answer to
\* a get or a request to close is under way.
LEMMA HeldIs ==
  ASSUME Boxes, NEW c \in Clients, NEW q \in Queues
  PROVE  /\ Held(c, q) \in Nat /\ open[c][q] \in Nat
         /\ ~Granted(c, q) /\ ~Closing(c, q) => Held(c, q) = open[c][q]
         /\ Granted(c, q) \/ Closing(c, q) => Held(c, q) = open[c][q] + 1
<1>1. open[c][q] \in Nat
  BY Zenon DEF Boxes
<1>2. ~(Granted(c, q) /\ Closing(c, q))
  BY Zenon, Messages DEF Granted, Closing
<1>. QED
  BY Zenon, <1>1, <1>2, HeldSum DEF Held

\* The same after a step.
LEMMA HeldNext ==
  ASSUME Boxes', NEW c \in Clients, NEW q \in Queues
  PROVE  /\ Held(c, q)' \in Nat /\ open'[c][q] \in Nat
         /\ ~Granted(c, q)' /\ ~Closing(c, q)' => Held(c, q)' = open'[c][q]
         /\ Granted(c, q)' \/ Closing(c, q)' => Held(c, q)' = open'[c][q] + 1
<1>1. open'[c][q] \in Nat
  BY Zenon DEF Boxes
<1>2. ~(Granted(c, q)' /\ Closing(c, q)')
  BY Zenon, Messages DEF Granted, Closing
<1>. QED
  BY Zenon, <1>1, <1>2, HeldSum DEF Held

\* What a step does to the client whose call makes no progress in it.
LEMMA HeldByOthers ==
  ASSUME NEW d, open'[d] = open[d], call'[d] = call[d], reply'[d] = reply[d],
         d \in requests' <=> d \in requests
  PROVE  \A q : Held(d, q)' = Held(d, q)
BY Zenon DEF Held, Granted, Closing

\* The codes that the server answers with.
LEMMA CodesKnown ==
  /\ \A t, k, f : GetCode(t, k, f, "ENOMEM") \in Codes
  /\ \A q, w : SendCode(q, w) \in Codes /\ ReceiveCode(q, w) \in Codes
  /\ 0 \in Queues
  /\ \A code \in Codes, q \in Queues : Status(code, q) \in [status : Codes, queue : Queues]
<1>1. \A t, k, f : GetCode(t, k, f, "ENOMEM") \in Codes
  BY Zenon DEF GetCode, Codes
<1>2. \A q, w : SendCode(q, w) \in Codes /\ ReceiveCode(q, w) \in Codes
  BY Zenon, CodesDiffer DEF Codes
<1>3. 0 \in Queues
  BY MsgAssumption DEF Queues
<1>. QED
  BY Zenon, <1>1, <1>2, <1>3 DEF Status

\* The mailboxes hold messages of the protocol after each step.
LEMMA BoxesStep ==
  ASSUME IInv, Boxes, Tables, [Next]_vars
  PROVE  Boxes'
<1>. DEFINE Points == {"idle", "reply", "ack", "portal_read", "portal_write"}
            Answers == {NoReply, Ack} \cup [status : Codes, queue : Queues]
<1>t. DOMAIN call = Clients /\ DOMAIN ctl = Clients
  BY Zenon DEF IInv, Types
<1>1. ASSUME NEW c \in Clients, NEW m, NEW next \in Points, Request(c, m, next),
             next = "ack" => m.op = "receive", open' \in [Clients -> [Queues -> Nat]]
      PROVE  Boxes'
  BY ZenonT(30), <1>t, <1>1 DEF Boxes, Request
<1>2. ASSUME NEW c \in Clients, NEW op, NEW m \in Answers, Receive(c, op), Answer(c, m),
             ctl' \in [Clients -> Points], \A d \in Clients : ctl'[d] \in {"reply", ctl[d]},
             open' = open, call' = call
      PROVE  Boxes'
  BY Zenon, <1>2 DEF Boxes, Receive, Answer
<1>3. ASSUME NEW c \in Clients, ClientCall(c) PROVE Boxes'
  <2>1. ASSUME NEW q \in Queues, CloseCall(c, q) PROVE Boxes'
    <3>1. open' \in [Clients -> [Queues -> Nat]]
      <4>. DEFINE n == IF open[c][q] > 0 THEN open[c][q] - 1 ELSE 0
      <4>1. open' = [open EXCEPT ![c] = [open[c] EXCEPT ![q] = n]]
        BY Zenon, <2>1 DEF CloseCall
      <4>2. n \in Nat
        <5>1. open[c][q] \in Nat
          BY Zenon DEF Boxes
        <5>. QED
          BY <5>1
      <4>. HIDE DEF n
      <4>. QED
        BY Zenon, <4>1, <4>2 DEF Boxes
    <3>. QED
      BY Zenon, <1>1, <2>1, <3>1 DEF CloseCall
  <2>2. ASSUME NEW m, NEW next \in Points, Request(c, m, next), open' = open,
               next = "ack" => m.op = "receive"
        PROVE  Boxes'
    BY Zenon, <1>1, <2>2 DEF Boxes
  <2>. QED
    BY ZenonT(30), <1>3, <2>1, <2>2, Messages DEF ClientCall, GetCall, SendCall, ReceiveCall
<1>4. ASSUME NEW c \in Clients, Handle(c) PROVE Boxes'
  <2>1. CASE do_sysv_msg_get(c)
    <3>. DEFINE code == GetCode(mqueues, call[c].key, call[c].flags, "ENOMEM")
    <3>1. PICK m : /\ Answer(c, m)
                   /\ m = Status(code, 0) \/ \E q \in GetEntries(mqueues, call[c].key) : m = Status("ok", q)
      <4>. HIDE DEF code
      <4>. QED
        BY Zenon, <2>1 DEF do_sysv_msg_get, code
    <3>2. GetEntries(mqueues, call[c].key) \subseteq Queues
      <4>1. DOMAIN mqueues = Queues /\ Queues \in SUBSET Nat
        BY DEF Tables, Queues
      <4>2. Named(mqueues, call[c].key) \in SUBSET Nat
        BY Zenon, <4>1 DEF Named
      <4>3. Named(mqueues, call[c].key) # {} =>
              First(Named(mqueues, call[c].key)) \in Named(mqueues, call[c].key)
        BY Zenon, <4>2, FirstIsLeast
      <4>. QED
        BY Zenon, <4>1, <4>3 DEF GetEntries, Named, Unused
    <3>3. m \in Answers
      <4>1. "ok" \in Codes /\ code \in Codes
        BY Zenon, CodesKnown DEF Codes
      <4>. HIDE DEF code
      <4>2. CASE m = Status(code, 0)
        BY Zenon, <4>1, <4>2, CodesKnown
      <4>3. ASSUME NEW q \in GetEntries(mqueues, call[c].key), m = Status("ok", q)
            PROVE  m \in Answers
        BY Zenon, <3>2, <4>1, <4>3, CodesKnown
      <4>. QED
        BY Zenon, <3>1, <4>2, <4>3
    <3>4. Receive(c, "get") /\ ctl' = ctl /\ open' = open /\ call' = call
      BY Zenon, <2>1 DEF do_sysv_msg_get
    <3>. QED
      BY Zenon, <1>2, <3>1, <3>3, <3>4 DEF Boxes
  <2>2. CASE do_sysv_msg_close(c)
    <3>1. PICK m : Answer(c, m) /\ \E k \in Codes : m = Status(k, 0)
      BY Zenon, <2>2 DEF do_sysv_msg_close, Codes
    <3>2. Receive(c, "close") /\ ctl' = ctl /\ open' = open /\ call' = call
      BY Zenon, <2>2 DEF do_sysv_msg_close
    <3>. QED
      BY Zenon, <1>2, <3>1, <3>2, CodesKnown DEF Boxes
  <2>3. CASE do_sysv_msg_send(c)
    <3>1. PICK m : Answer(c, m) /\ \E k \in Codes : m = Status(k, 0)
      BY Zenon, <2>3, CodesKnown DEF do_sysv_msg_send
    <3>2. Receive(c, "send") /\ ctl' = [ctl EXCEPT ![c] = "reply"] /\ open' = open /\ call' = call
      BY Zenon, <2>3 DEF do_sysv_msg_send
    <3>3. ctl' \in [Clients -> Points] /\ \A d \in Clients : ctl'[d] \in {"reply", ctl[d]}
      BY Zenon, <1>t, <3>2 DEF Boxes
    <3>. QED
      BY Zenon, <1>2, <3>1, <3>2, <3>3, CodesKnown
  <2>4. CASE do_sysv_msg_receive(c)
    <3>1. PICK m : Answer(c, m) /\ (m = Ack \/ \E k \in Codes : m = Status(k, 0))
      BY Zenon, <2>4, CodesKnown DEF do_sysv_msg_receive
    <3>2. Receive(c, "receive") /\ ctl' = ctl /\ open' = open /\ call' = call
      BY Zenon, <2>4 DEF do_sysv_msg_receive
    <3>. QED
      BY Zenon, <1>2, <3>1, <3>2, CodesKnown DEF Boxes
  <2>. QED
    BY Zenon, <1>4, <2>1, <2>2, <2>3, <2>4 DEF Handle
<1>5. ASSUME NEW c \in Clients, ReceiveAck(c) PROVE Boxes'
  BY ZenonT(30), <1>t, <1>5 DEF Boxes, ReceiveAck
<1>6. ASSUME NEW c \in Clients, Return(c) PROVE Boxes'
  <2>1. open' \in [Clients -> [Queues -> Nat]]
    <3>1. CASE ~(call[c].op = "get" /\ reply[c].status = "ok")
      BY Zenon, <1>6, <3>1 DEF Boxes, Return
    <3>2. CASE call[c].op = "get" /\ reply[c].status = "ok"
      <4>. DEFINE q == reply[c].queue
                  n == open[c][q] + 1
      <4>1. reply[c] \in [status : Codes, queue : Queues]
        <5>1. reply[c] # NoReply /\ reply[c] # Ack
          BY Zenon, <3>2, Messages
        <5>. QED
          BY Zenon, <5>1 DEF Boxes
      <4>2. q \in Queues
        BY Zenon, <4>1
      <4>3. open' = [open EXCEPT ![c] = [open[c] EXCEPT ![q] = n]]
        BY Zenon, <1>6, <3>2 DEF Return
      <4>4. n \in Nat
        <5>. HIDE DEF q
        <5>1. open[c][q] \in Nat
          BY Zenon, <4>2 DEF Boxes
        <5>. QED
          BY <5>1
      <4>. HIDE DEF n, q
      <4>. QED
        BY Zenon, <4>2, <4>3, <4>4 DEF Boxes
    <3>. QED
      BY Zenon, <3>1, <3>2
  <2>. QED
    BY ZenonT(30), <1>t, <1>6, <2>1 DEF Boxes, Return
<1>7. CASE do_sysv_msg_receive_data
  <2>1. Status("ok", 0) \in Answers
    BY Zenon, CodesKnown DEF Codes
  <2>. QED
    BY ZenonT(30), <1>t, <1>7, <2>1 DEF Boxes, do_sysv_msg_receive_data, Answer
<1>8. CASE UNCHANGED vars
  BY Zenon, <1>8 DEF Boxes, vars
<1>. QED
  BY Zenon, <1>3, <1>4, <1>5, <1>6, <1>7, <1>8 DEF Next

\* What the requests hold.
LEMMA CallShapes ==
  ASSUME Types, NEW c \in Clients
  PROVE  /\ call[c].op = "get" => call[c].key \in Keys \cup {IPC_PRIVATE}
         /\ call[c].op = "close" => call[c].queue \in Queues /\ call[c] = CloseMsg(call[c].queue)
<1>1. call[c] \in CallType \cup {NoCall}
  BY Zenon DEF Types
<1>. QED
  BY <1>1 DEF CallType, NoCall, CloseMsg

\* Only do_sysv_msg_get() and do_sysv_msg_close() change the tables.
LEMMA TablesUntouched ==
  ASSUME [Next]_vars
  PROVE  \/ mqueues' = mqueues /\ connections' = connections
         \/ \E c \in Clients : do_sysv_msg_get(c) \/ do_sysv_msg_close(c)
<1>1. ASSUME NEW c \in Clients, ClientCall(c)
      PROVE  mqueues' = mqueues /\ connections' = connections
  <2>1. \E m, next : Request(c, m, next)
    BY Zenon, <1>1 DEF ClientCall, GetCall, CloseCall, SendCall, ReceiveCall
  <2>. QED
    BY Zenon, <2>1 DEF Request, servervars
<1>2. ASSUME NEW c \in Clients, ReceiveAck(c) \/ Return(c)
      PROVE  mqueues' = mqueues /\ connections' = connections
  BY Zenon, <1>2 DEF ReceiveAck, Return, servervars
<1>3. ASSUME NEW c \in Clients, do_sysv_msg_send(c) \/ do_sysv_msg_receive(c)
      PROVE  mqueues' = mqueues /\ connections' = connections
  BY Zenon, <1>3 DEF do_sysv_msg_send, do_sysv_msg_receive
<1>4. CASE do_sysv_msg_receive_data
  BY Zenon, <1>4 DEF do_sysv_msg_receive_data
<1>5. CASE UNCHANGED vars
  BY Zenon, <1>5 DEF vars
<1>. QED
  BY Zenon, <1>1, <1>2, <1>3, <1>4, <1>5 DEF Next, Handle

\* Every step keeps the tables of queues and connections coherent.
LEMMA TablesStep ==
  ASSUME IInv, Tables, [Next]_vars
  PROVE  Tables'
<1>1. CASE mqueues' = mqueues /\ connections' = connections
  BY Zenon, <1>1 DEF Tables
<1>2. ASSUME NEW c \in Clients, do_sysv_msg_get(c) PROVE Tables'
  <2>. DEFINE key == call[c].key
              code == GetCode(mqueues, key, call[c].flags, "ENOMEM")
  <2>1. /\ call[c].op = "get" /\ connections' = AfterGet(c, code)
        /\ mqueues' = mqueues \/ \E q \in GetEntries(mqueues, key) : mqueues' = Got(mqueues, q, key)
    <3>. HIDE DEF code
    <3>. QED
      BY Zenon, <1>2 DEF do_sysv_msg_get, Receive, code
  <2>2. key \in Keys \cup {IPC_PRIVATE}
    BY Zenon, <2>1, CallShapes DEF IInv
  <2>. HIDE DEF key, code
  <2>3. mqueues' \in [Queues -> RefType(Keys \cup {IPC_PRIVATE})] /\ TableCoherent(mqueues')
    <3>1. ASSUME NEW q \in GetEntries(mqueues, key), mqueues' = Got(mqueues, q, key)
          PROVE  mqueues' \in [Queues -> RefType(Keys \cup {IPC_PRIVATE})] /\ TableCoherent(mqueues')
      BY Zenon, <2>2, <3>1, GotQueue DEF Tables
    <3>. QED
      BY Zenon, <2>1, <3>1 DEF Tables
  <2>4. ConnTable(Connections, Clients, connections')
    <3>1. ConnTable(Connections, Clients, connect(connections, c))
      BY Zenon, Connected DEF Tables
    <3>2. ConnTable(Connections, Clients, disconnect(connect(connections, c), c))
      BY Zenon, <3>1, Disconnected
    <3>. QED
      BY Zenon, <2>1, <3>1, <3>2 DEF AfterGet
  <2>. QED
    BY Zenon, <2>3, <2>4 DEF Tables
<1>3. ASSUME NEW c \in Clients, do_sysv_msg_close(c) PROVE Tables'
  <2>. DEFINE q == call[c].queue
  <2>1. \/ mqueues' = mqueues /\ connections' = connections
        \/ Used(mqueues, q) /\ mqueues' = Closed(mqueues, q) /\ connections' = disconnect(connections, c)
    BY Zenon, <1>3 DEF do_sysv_msg_close
  <2>2. CASE Used(mqueues, q) /\ mqueues' = Closed(mqueues, q) /\ connections' = disconnect(connections, c)
    <3>. HIDE DEF q
    <3>1. mqueues' \in [Queues -> RefType(Keys \cup {IPC_PRIVATE})] /\ TableCoherent(mqueues')
      BY Zenon, <2>2, ClosedOK DEF Tables
    <3>2. ConnTable(Connections, Clients, connections')
      BY Zenon, <2>2, Disconnected DEF Tables
    <3>. QED
      BY Zenon, <3>1, <3>2 DEF Tables
  <2>. QED
    BY Zenon, <1>1, <2>1, <2>2
<1>. QED
  BY Zenon, <1>1, <1>2, <1>3, TablesUntouched

\* The tables are coherent in the beginning.
LEMMA TablesInit == Init => Boxes /\ Tables
<1>. SUFFICES ASSUME Init PROVE Boxes /\ Tables
  BY Zenon
<1>1. Boxes
  <2>1. 0 \in Nat
    OBVIOUS
  <2>. QED
    BY Zenon, <2>1 DEF Init, Boxes
<1>2. mqueues \in [Queues -> RefType(Keys \cup {IPC_PRIVATE})] /\ TableCoherent(mqueues)
  <2>1. mqueues = [i \in Queues |-> NoObject]
    BY Zenon DEF Init, EmptyTable, Queues
  <2>2. NoObject \in RefType(Keys \cup {IPC_PRIVATE}) /\ ~NoObject.used /\ ~(NoObject.refcount > 0)
    BY DEF NoObject, RefType
  <2>. QED
    BY Zenon, <2>1, <2>2 DEF TableCoherent
<1>3. ConnTable(Connections, Clients, connections)
  <2>1. IsFiniteSet(Connections) /\ Connections \subseteq Nat
    BY FS_Interval, ConnectionAssumption DEF Connections
  <2>. DEFINE e == [remote |-> -1, port |-> -1, count |-> 0]
  <2>2. e \in [remote : Int, port : Int, count : Nat] /\ e.count = 0 /\ ~(e.remote >= 0)
    OBVIOUS
  <2>3. connections = [i \in Connections |-> e]
    BY Zenon DEF Init, connections_setup
  <2>. HIDE DEF e
  <2>. QED
    BY Zenon, <2>1, <2>2, <2>3, MsgAssumption DEF ConnTable
<1>. QED
  BY Zenon, <1>1, <1>2, <1>3 DEF Tables

\* For any clients, also those that use queues which they did not get: the
\* table of queues of the System V server is coherent, and all variables keep
\* their types, so that no reference count and no buffer runs over or under.
THEOREM TablesCorrect == Spec => [](TypeOK /\ TableCoherent(mqueues))
<1>1. Init => IInv /\ Boxes /\ Tables
  BY Zenon, InitOK, TablesInit
<1>2. IInv /\ Boxes /\ Tables /\ [Next]_vars => (IInv /\ Boxes /\ Tables)'
  BY Zenon, NextOK, BoxesStep, TablesStep
<1>3. IInv /\ Boxes /\ Tables => TypeOK /\ TableCoherent(mqueues)
  BY Zenon DEF IInv, Boxes, Tables, Types, TypeOK, SrvType, RefType, ConnTable
<1>. QED
  BY <1>1, <1>2, <1>3, PTL DEF Spec

-----------------------------------------------------------------------------
(***************************************************************************)
(* The counts.  Seen from the ledger of who has which queue, a step grants *)
(* a queue, takes one back, connects and disconnects a client that gets    *)
(* nothing, or does nothing.                                               *)
(***************************************************************************)

Moved(c, q) == \A d \in Clients, p \in Queues : <<d, p>> # <<c, q>> => Held(d, p)' = Held(d, p)
LedgerSame == \A d \in Clients, p \in Queues : Held(d, p)' = Held(d, p)
Stays == LedgerSame /\ mqueues' = mqueues /\ connections' = connections
Fails(c) ==
  LedgerSame /\ mqueues' = mqueues /\ connections' = disconnect(connect(connections, c), c)
Grants(c, q) ==
  /\ Held(c, q)' = Held(c, q) + 1 /\ Moved(c, q)
  /\ \E key \in Keys \cup {IPC_PRIVATE} :
       q \in GetEntries(mqueues, key) /\ mqueues' = Got(mqueues, q, key)
  /\ connections' = connect(connections, c)
Closes(c, q) ==
  /\ Held(c, q) > 0
  /\ Used(mqueues, q) =>
       /\ Held(c, q) = Held(c, q)' + 1 /\ Moved(c, q)
       /\ mqueues' = Closed(mqueues, q) /\ connections' = disconnect(connections, c)

\* do_sysv_msg_get()
LEMMA GetLedger ==
  ASSUME IInv, Boxes, Boxes', Tables, NEW c \in Clients, do_sysv_msg_get(c)
  PROVE  Fails(c) \/ \E q \in Queues : Grants(c, q)
<1>. DEFINE key == call[c].key
            code == GetCode(mqueues, key, call[c].flags, "ENOMEM")
<1>1. /\ call[c].op = "get" /\ c \in requests /\ requests' = requests \ {c}
      /\ connections' = AfterGet(c, code) /\ call' = call /\ open' = open
      /\ \/ code # "ok" /\ mqueues' = mqueues /\ reply' = [reply EXCEPT ![c] = Status(code, 0)]
         \/ code = "ok" /\ \E q \in GetEntries(mqueues, key) :
              mqueues' = Got(mqueues, q, key) /\ reply' = [reply EXCEPT ![c] = Status("ok", q)]
  <2>. HIDE DEF code
  <2>. QED
    BY Zenon DEF do_sysv_msg_get, Receive, Answer, code
<1>2. key \in Keys \cup {IPC_PRIVATE}
  BY Zenon, <1>1, CallShapes DEF IInv
<1>. HIDE DEF key, code
<1>3. reply[c] = NoReply /\ DOMAIN reply = Clients
  BY Zenon, <1>1 DEF IInv, ClientOK, Types
<1>4. \A p \in Queues : Held(c, p) = open[c][p] /\ open[c][p] \in Nat
  BY Zenon, <1>1, <1>3, Messages, HeldIs DEF Granted, Closing
<1>5. \A d \in Clients \ {c}, p \in Queues : Held(d, p)' = Held(d, p)
  BY Zenon, <1>1, <1>3, HeldByOthers
<1>6. \A p \in Queues : ~Closing(c, p)'
  BY Zenon, <1>1, Messages DEF Closing
<1>7. CASE code # "ok"
  <2>1. \A p \in Queues : ~Granted(c, p)'
    <3>1. reply'[c] = Status(code, 0)
      BY Zenon, <1>1, <1>3, <1>7
    <3>2. \A p : Status(code, 0) # Status("ok", p)
      BY <1>7 DEF Status
    <3>. QED
      BY Zenon, <3>1, <3>2 DEF Granted
  <2>2. \A p \in Queues : Held(c, p)' = open[c][p]
    BY Zenon, <1>1, <1>6, <2>1, HeldNext
  <2>. QED
    BY Zenon, <1>1, <1>4, <1>5, <1>7, <2>2 DEF Fails, LedgerSame, AfterGet
<1>8. CASE code = "ok"
  <2>1. PICK q \in GetEntries(mqueues, key) :
          mqueues' = Got(mqueues, q, key) /\ reply' = [reply EXCEPT ![c] = Status("ok", q)]
    BY Zenon, <1>1, <1>8
  <2>2. reply'[c] = Status("ok", q) /\ call'[c].op = "get"
    BY Zenon, <1>1, <1>3, <2>1
  <2>3. q \in Queues
    BY Zenon, <1>2, <2>1, GotQueue DEF Tables
  <2>4. Held(c, q)' = Held(c, q) + 1
    BY Zenon, <1>1, <1>4, <2>2, <2>3, HeldNext DEF Granted
  <2>5. ASSUME NEW p \in Queues \ {q} PROVE Held(c, p)' = Held(c, p)
    <3>1. ~Granted(c, p)'
      BY Zenon, <2>2, Messages DEF Granted
    <3>. QED
      BY Zenon, <1>1, <1>4, <1>6, <3>1, HeldNext
  <2>6. Moved(c, q)
    BY Zenon, <1>5, <2>5 DEF Moved
  <2>. QED
    BY Zenon, <1>1, <1>2, <1>8, <2>1, <2>3, <2>4, <2>6 DEF Grants, AfterGet
<1>. QED
  BY Zenon, <1>7, <1>8

\* do_sysv_msg_close()
LEMMA CloseLedger ==
  ASSUME IInv, Boxes, Boxes', NEW c \in Clients, do_sysv_msg_close(c)
  PROVE  \E q \in Queues : Closes(c, q)
<1>1. /\ call[c].op = "close" /\ c \in requests /\ requests' = requests \ {c}
      /\ call' = call /\ open' = open /\ \E m : reply' = [reply EXCEPT ![c] = m]
  BY Zenon DEF do_sysv_msg_close, Receive, Answer
<1>2. PICK q \in Queues : q = call[c].queue /\ call[c] = CloseMsg(q)
  BY Zenon, <1>1, CallShapes DEF IInv
<1>3. DOMAIN reply = Clients
  BY Zenon DEF IInv, Types
<1>4. \A d \in Clients \ {c}, p \in Queues : Held(d, p)' = Held(d, p)
  BY Zenon, <1>1, <1>3, HeldByOthers
<1>5. \A p \in Queues : ~Granted(c, p) /\ ~Granted(c, p)' /\ ~Closing(c, p)'
  BY Zenon, <1>1, Messages DEF Granted, Closing
<1>6. \A p \in Queues : Held(c, p)' = open[c][p] /\ open[c][p] \in Nat
  BY Zenon, <1>1, <1>5, HeldNext
<1>7. Held(c, q) = open[c][q] + 1
  BY Zenon, <1>1, <1>2, HeldIs DEF Closing
<1>8. ASSUME NEW p \in Queues \ {q} PROVE Held(c, p) = open[c][p]
  <2>1. ~Closing(c, p)
    BY Zenon, <1>2, Messages DEF Closing
  <2>. QED
    BY Zenon, <1>5, <2>1, HeldIs
<1>9. Held(c, q) > 0
  BY <1>6, <1>7
<1>10. Held(c, q) = Held(c, q)' + 1
  BY Zenon, <1>6, <1>7
<1>11. Moved(c, q)
  BY Zenon, <1>4, <1>6, <1>8 DEF Moved
<1>12. Used(mqueues, q) => mqueues' = Closed(mqueues, q) /\ connections' = disconnect(connections, c)
  BY Zenon, <1>2 DEF do_sysv_msg_close
<1>. QED
  BY Zenon, <1>9, <1>10, <1>11, <1>12 DEF Closes

\* A step of client c, or of the server for it, that neither grants nor closes.
LEMMA PlainLedger ==
  ASSUME IInv, Boxes, Boxes', NEW c \in Clients, open' = open,
         mqueues' = mqueues, connections' = connections,
         \A d \in Clients \ {c} : /\ call'[d] = call[d] /\ reply'[d] = reply[d]
                                  /\ d \in requests' <=> d \in requests,
         \A q \in Queues : /\ ~Granted(c, q) /\ ~Closing(c, q)
                           /\ ~Granted(c, q)' /\ ~Closing(c, q)'
  PROVE  Stays
<1>1. \A d \in Clients \ {c}, p \in Queues : Held(d, p)' = Held(d, p)
  BY Zenon, HeldByOthers
<1>2. \A p \in Queues : Held(c, p) = open[c][p] /\ Held(c, p)' = open[c][p]
  BY Zenon, HeldIs, HeldNext
<1>. QED
  BY Zenon, <1>1, <1>2 DEF Stays, LedgerSame

\* A request other than a close changes nothing of what clients have.
LEMMA RequestLedger ==
  ASSUME IInv, Boxes, Boxes', NEW c \in Clients, NEW m, NEW next, Request(c, m, next),
         open' = open, m.op \in {"get", "send", "receive"}
  PROVE  Stays
<1>1. /\ ctl[c] = "idle" /\ requests' = requests \cup {c} /\ reply' = reply
      /\ call' = [call EXCEPT ![c] = m] /\ mqueues' = mqueues /\ connections' = connections
  BY Zenon DEF Request, servervars
<1>2. /\ DOMAIN call = Clients /\ call[c] = NoCall /\ reply[c] = NoReply /\ c \notin requests
  BY Zenon, <1>1 DEF IInv, Types, ClientOK
<1>3. call'[c] = m /\ reply'[c] = NoReply
  BY Zenon, <1>1, <1>2
<1>4. \A q \in Queues : ~Granted(c, q) /\ ~Closing(c, q) /\ ~Granted(c, q)' /\ ~Closing(c, q)'
  BY Zenon, <1>2, <1>3, Messages DEF Granted, Closing
<1>. QED
  BY Zenon, <1>1, <1>2, <1>4, PlainLedger

\* A client that closes a queue has it until the server closes it.
LEMMA CloseCallLedger ==
  ASSUME IInv, Boxes, Boxes', ~Wild, NEW c \in Clients, NEW q \in Queues, CloseCall(c, q)
  PROVE  Stays
<1>1. /\ ctl[c] = "idle" /\ requests' = requests \cup {c} /\ reply' = reply
      /\ call' = [call EXCEPT ![c] = CloseMsg(q)]
      /\ mqueues' = mqueues /\ connections' = connections
      /\ open' = [open EXCEPT ![c] = [open[c] EXCEPT ![q] = IF open[c][q] > 0 THEN open[c][q] - 1 ELSE 0]]
      /\ open[c][q] > 0
  BY Zenon DEF CloseCall, Request, servervars, MayUse
<1>2. /\ DOMAIN call = Clients /\ call[c] = NoCall /\ reply[c] = NoReply /\ c \notin requests
  BY Zenon, <1>1 DEF IInv, Types, ClientOK
<1>3. call'[c] = CloseMsg(q) /\ reply'[c] = NoReply /\ c \in requests'
  BY Zenon, <1>1, <1>2
<1>4. open \in [Clients -> [Queues -> Nat]]
  BY Zenon DEF Boxes
<1>5. /\ open'[c][q] = open[c][q] - 1 /\ \A p \in Queues \ {q} : open'[c][p] = open[c][p]
      /\ \A d \in Clients \ {c} : open'[d] = open[d]
  BY Zenon, <1>1, <1>4
<1>6. \A d \in Clients \ {c}, p \in Queues : Held(d, p)' = Held(d, p)
  BY Zenon, <1>1, <1>2, <1>5, HeldByOthers
<1>7. \A p \in Queues : Held(c, p) = open[c][p]
  BY Zenon, <1>2, Messages, HeldIs DEF Granted, Closing
<1>8. Held(c, q)' = open'[c][q] + 1
  BY Zenon, <1>3, HeldNext DEF Closing
<1>9. Held(c, q)' = Held(c, q)
  <2>1. open[c][q] \in Nat
    BY Zenon, <1>4
  <2>. QED
    BY <1>5, <1>7, <1>8, <2>1
<1>10. ASSUME NEW p \in Queues \ {q} PROVE Held(c, p)' = Held(c, p)
  <2>1. ~Granted(c, p)' /\ ~Closing(c, p)'
    BY Zenon, <1>3, Messages DEF Granted, Closing
  <2>2. Held(c, p)' = open'[c][p]
    BY Zenon, <2>1, HeldNext
  <2>. QED
    BY Zenon, <1>5, <1>7, <2>2
<1>. QED
  BY Zenon, <1>1, <1>6, <1>9, <1>10 DEF Stays, LedgerSame

\* A client that sees the reply has the queue that it grants.
LEMMA ReturnLedger ==
  ASSUME IInv, Boxes, Boxes', NEW c \in Clients, Return(c)
  PROVE  Stays
<1>1. /\ reply[c] # NoReply /\ requests' = requests /\ reply' = [reply EXCEPT ![c] = NoReply]
      /\ call' = [call EXCEPT ![c] = NoCall] /\ mqueues' = mqueues /\ connections' = connections
  BY Zenon DEF Return, servervars
<1>2. DOMAIN call = Clients /\ DOMAIN reply = Clients /\ c \notin requests
  BY Zenon, <1>1 DEF IInv, Types, ClientOK
<1>3. call'[c] = NoCall /\ c \notin requests'
  BY Zenon, <1>1, <1>2
<1>4. \A p \in Queues : ~Closing(c, p) /\ ~Closing(c, p)' /\ ~Granted(c, p)'
  BY Zenon, <1>2, <1>3, Messages DEF Granted, Closing
<1>5. CASE ~(call[c].op = "get" /\ reply[c].status = "ok")
  <2>1. open' = open
    BY Zenon, <1>5 DEF Return
  <2>2. \A p \in Queues : ~Granted(c, p)
    BY Zenon, <1>5, Messages DEF Granted
  <2>. QED
    BY Zenon, <1>1, <1>2, <1>4, <2>1, <2>2, PlainLedger
<1>6. CASE call[c].op = "get" /\ reply[c].status = "ok"
  <2>1. reply[c] # Ack
    BY Zenon, <1>6, Messages
  <2>2. reply[c] \in [status : Codes, queue : Queues]
    BY Zenon, <1>1, <2>1 DEF Boxes
  <2>3. PICK q \in Queues : q = reply[c].queue /\ reply[c] = Status("ok", q)
    BY <1>6, <2>2 DEF Status
  <2>4. open' = [open EXCEPT ![c] = [open[c] EXCEPT ![q] = open[c][q] + 1]]
    BY Zenon, <1>6, <2>3 DEF Return
  <2>5. open \in [Clients -> [Queues -> Nat]]
    BY Zenon DEF Boxes
  <2>6. /\ open'[c][q] = open[c][q] + 1 /\ \A p \in Queues \ {q} : open'[c][p] = open[c][p]
        /\ \A d \in Clients \ {c} : open'[d] = open[d]
    BY Zenon, <2>4, <2>5
  <2>7. \A d \in Clients \ {c}, p \in Queues : Held(d, p)' = Held(d, p)
    BY Zenon, <1>1, <1>2, <2>6, HeldByOthers
  <2>8. Held(c, q) = open[c][q] + 1
    BY Zenon, <1>6, <2>3, HeldIs DEF Granted
  <2>9. Held(c, q)' = open'[c][q]
    BY Zenon, <1>4, HeldNext
  <2>10. ASSUME NEW p \in Queues \ {q} PROVE Held(c, p)' = Held(c, p)
    <3>1. ~Granted(c, p)
      BY Zenon, <2>3, Messages DEF Granted
    <3>2. Held(c, p) = open[c][p] /\ Held(c, p)' = open'[c][p]
      BY Zenon, <1>4, <3>1, HeldIs, HeldNext
    <3>. QED
      BY Zenon, <2>6, <3>2
  <2>. QED
    BY Zenon, <1>1, <2>6, <2>7, <2>8, <2>9, <2>10 DEF Stays, LedgerSame
<1>. QED
  BY Zenon, <1>5, <1>6

\* What a step does to what clients have: nothing, or a get or a close of one
\* queue by one client.
LEMMA LedgerStep ==
  ASSUME IInv, Boxes, Boxes', Tables, ~Wild, [Next]_vars
  PROVE  Stays \/ \E c \in Clients : Fails(c) \/ \E q \in Queues : Grants(c, q) \/ Closes(c, q)
<1>1. ASSUME NEW c \in Clients, ClientCall(c) PROVE Stays
  <2>1. ASSUME NEW m, NEW next, Request(c, m, next), open' = open, m.op \in {"get", "send", "receive"}
        PROVE  Stays
    BY Zenon, <2>1, RequestLedger
  <2>2. ASSUME NEW q \in Queues, CloseCall(c, q) PROVE Stays
    BY Zenon, <2>2, CloseCallLedger
  <2>3. ASSUME NEW g \in GetCalls, GetCall(c, g[1], g[2]) PROVE Stays
    BY ZenonT(40), <2>1, <2>3, Messages DEF GetCall
  <2>4. ASSUME NEW q \in Queues, NEW w \in NoWait, ReceiveCall(c, q, w) PROVE Stays
    BY Zenon, <2>1, <2>4, Messages DEF ReceiveCall
  <2>5. ASSUME NEW q \in Queues, NEW w \in NoWait, NEW v \in Payloads, SendCall(c, q, v, w) PROVE Stays
    BY Zenon, <2>1, <2>5, Messages DEF SendCall
  <2>. QED
    BY Zenon, <1>1, <2>2, <2>3, <2>4, <2>5 DEF ClientCall
<1>2. ASSUME NEW c \in Clients, do_sysv_msg_send(c) \/ do_sysv_msg_receive(c) PROVE Stays
  <2>1. /\ call[c].op \in {"send", "receive"} /\ call' = call /\ requests' = requests \ {c}
        /\ open' = open /\ mqueues' = mqueues /\ connections' = connections
        /\ \E m : reply' = [reply EXCEPT ![c] = m]
    BY Zenon, <1>2 DEF do_sysv_msg_send, do_sysv_msg_receive, Receive, Answer
  <2>2. \A q \in Queues : ~Granted(c, q) /\ ~Closing(c, q) /\ ~Granted(c, q)' /\ ~Closing(c, q)'
    BY Zenon, <2>1, Messages DEF Granted, Closing
  <2>3. DOMAIN reply = Clients
    BY Zenon DEF IInv, Types
  <2>4. \A d \in Clients \ {c} : /\ call'[d] = call[d] /\ reply'[d] = reply[d]
                                 /\ d \in requests' <=> d \in requests
    BY Zenon, <2>1, <2>3
  <2>. QED
    BY Zenon, <2>1, <2>2, <2>4, PlainLedger
<1>3. ASSUME NEW c \in Clients, ReceiveAck(c) PROVE Stays
  <2>1. /\ requests' = requests /\ open' = open /\ mqueues' = mqueues /\ connections' = connections
        /\ reply' = [reply EXCEPT ![c] = NoReply] /\ reply[c] # NoReply /\ ctl[c] = "ack"
        /\ call' = call \/ call' = [call EXCEPT ![c] = NoCall]
    BY Zenon, <1>3 DEF ReceiveAck, servervars
  <2>2. DOMAIN call = Clients /\ DOMAIN reply = Clients /\ ClientOK(c)
    BY Zenon DEF IInv, Types
  <2>3. reply'[c] = NoReply /\ c \notin requests /\ c \notin requests'
    BY Zenon, <2>1, <2>2 DEF ClientOK
  <2>4. \A q \in Queues : ~Closing(c, q) /\ ~Granted(c, q)' /\ ~Closing(c, q)'
    BY Zenon, <2>3, Messages DEF Granted, Closing
  <2>5. \A q \in Queues : ~Granted(c, q)
    BY Zenon, <2>1 DEF Boxes, Granted
  <2>6. \A d \in Clients \ {c} : /\ call'[d] = call[d] /\ reply'[d] = reply[d]
                                 /\ d \in requests' <=> d \in requests
    BY Zenon, <2>1, <2>2
  <2>. QED
    BY Zenon, <2>1, <2>4, <2>5, <2>6, PlainLedger
<1>4. CASE do_sysv_msg_receive_data
  <2>1. PICK c \in Clients : Serving(c) /\ c = srv.client
    BY Zenon, <1>4 DEF IInv, Types, SrvType, do_sysv_msg_receive_data, Serving
  <2>2. /\ requests' = requests /\ open' = open /\ mqueues' = mqueues /\ connections' = connections
        /\ call' = call /\ reply' = [reply EXCEPT ![c] = Status("ok", 0)]
    BY Zenon, <1>4, <2>1 DEF do_sysv_msg_receive_data, Answer
  <2>3. DOMAIN reply = Clients /\ call[c].op = "receive"
    BY Zenon, <2>1 DEF IInv, Types, ClientOK
  <2>4. \A q \in Queues : ~Granted(c, q) /\ ~Closing(c, q) /\ ~Granted(c, q)' /\ ~Closing(c, q)'
    BY Zenon, <2>2, <2>3, Messages DEF Granted, Closing
  <2>5. \A d \in Clients \ {c} : /\ call'[d] = call[d] /\ reply'[d] = reply[d]
                                 /\ d \in requests' <=> d \in requests
    BY Zenon, <2>2, <2>3
  <2>. QED
    BY Zenon, <2>2, <2>4, <2>5, PlainLedger
<1>5. CASE UNCHANGED vars
  BY Zenon, <1>5, HeldByOthers DEF vars, Stays, LedgerSame
<1>. QED
  BY Zenon, <1>1, <1>2, <1>3, <1>4, <1>5, GetLedger, CloseLedger, ReturnLedger DEF Next, Handle

\* A queue that a client has is in use.
LEMMA HeldInUse ==
  ASSUME Boxes, Tables, ReferencesCounted, NEW c \in Clients, NEW q \in Queues, Held(c, q) > 0
  PROVE  Used(mqueues, q) /\ mqueues[q].used
<1>1. PICK f \in [Clients -> Nat] : f = [d \in Clients |-> Held(d, q)]
  BY Zenon, HeldIs
<1>2. f[c] > 0 /\ IsFiniteSet(Clients)
  BY Zenon, <1>1, MsgAssumption
<1>3. Total(f) > 0
  BY Zenon, <1>2, TotalPositive
<1>4. mqueues[q].refcount > 0
  BY Zenon, <1>1, <1>3 DEF ReferencesCounted
<1>. QED
  BY Zenon, <1>4 DEF Tables, TableCoherent, Used

\* Every step keeps the counts of references.
LEMMA ReferencesStep ==
  ASSUME IInv, Boxes, Boxes', Tables, ~Wild, ReferencesCounted, [Next]_vars
  PROVE  ReferencesCounted'
<1>. SUFFICES ASSUME NEW q \in Queues
              PROVE  mqueues'[q].refcount = Total([d \in Clients |-> Held(d, q)'])
  BY Zenon DEF ReferencesCounted
<1>1. PICK f \in [Clients -> Nat] : f = [d \in Clients |-> Held(d, q)]
  BY Zenon, HeldIs
<1>2. PICK g \in [Clients -> Nat] : g = [d \in Clients |-> Held(d, q)']
  BY Zenon, HeldNext
<1>3. mqueues[q].refcount = Total(f)
  BY Zenon, <1>1 DEF ReferencesCounted
<1>4. IsFiniteSet(Clients)
  BY Zenon, MsgAssumption
<1>5. ASSUME LedgerSame, mqueues' = mqueues PROVE mqueues'[q].refcount = Total(g)
  <2>1. f = g
    BY Zenon, <1>1, <1>2, <1>5 DEF LedgerSame
  <2>. QED
    BY Zenon, <1>3, <1>5, <2>1
<1>6. ASSUME NEW c \in Clients, NEW p \in Queues \ {q}, Moved(c, p), mqueues'[q] = mqueues[q]
      PROVE  mqueues'[q].refcount = Total(g)
  <2>1. ASSUME NEW d \in Clients PROVE Held(d, q)' = Held(d, q)
    <3>1. <<d, q>> # <<c, p>>
      BY Zenon
    <3>. QED
      BY Zenon, <1>6, <3>1 DEF Moved
  <2>2. f = g
    BY Zenon, <1>1, <1>2, <2>1
  <2>. QED
    BY Zenon, <1>3, <1>6, <2>2
<1>7. ASSUME NEW c \in Clients, Moved(c, q) PROVE \A d \in Clients \ {c} : g[d] = f[d]
  <2>1. ASSUME NEW d \in Clients \ {c} PROVE Held(d, q)' = Held(d, q)
    <3>1. <<d, q>> # <<c, q>>
      BY Zenon
    <3>. QED
      BY Zenon, <1>7, <3>1 DEF Moved
  <2>. QED
    BY Zenon, <1>1, <1>2, <2>1
<1>8. ASSUME NEW c \in Clients, NEW p \in Queues, Grants(c, p)
      PROVE  mqueues'[q].refcount = Total(g)
  <2>1. /\ mqueues'[p].refcount = mqueues[p].refcount + 1
        /\ \A r \in Queues \ {p} : mqueues'[r] = mqueues[r]
    <3>1. PICK key \in Keys \cup {IPC_PRIVATE} :
            p \in GetEntries(mqueues, key) /\ mqueues' = Got(mqueues, p, key)
      BY Zenon, <1>8 DEF Grants
    <3>2. MoreRefs(Queues, mqueues, Got(mqueues, p, key), p)
      BY Zenon, <3>1, GotQueue DEF Tables
    <3>. QED
      BY Zenon, <3>1, <3>2 DEF MoreRefs
  <2>2. CASE p = q
    <3>1. g[c] = f[c] + 1 /\ \A d \in Clients \ {c} : g[d] = f[d]
      BY Zenon, <1>1, <1>2, <1>7, <1>8, <2>2 DEF Grants
    <3>2. Total(g) = Total(f) + 1
      BY Zenon, <1>4, <3>1, TotalUp
    <3>. QED
      BY Zenon, <1>3, <2>1, <2>2, <3>2
  <2>3. CASE p # q
    BY Zenon, <1>6, <1>8, <2>1, <2>3 DEF Grants
  <2>. QED
    BY Zenon, <2>2, <2>3
<1>9. ASSUME NEW c \in Clients, NEW p \in Queues, Closes(c, p)
      PROVE  mqueues'[q].refcount = Total(g)
  <2>1. Used(mqueues, p) /\ Held(c, p) = Held(c, p)' + 1 /\ Moved(c, p) /\ mqueues' = Closed(mqueues, p)
    BY Zenon, <1>9, HeldInUse DEF Closes
  <2>2. /\ mqueues[p].refcount = mqueues'[p].refcount + 1
        /\ \A r \in Queues \ {p} : mqueues'[r] = mqueues[r]
        /\ mqueues' \in [Queues -> RefType(Keys \cup {IPC_PRIVATE})]
    <3>1. /\ MoreRefs(Queues, Closed(mqueues, p), mqueues, p)
          /\ Closed(mqueues, p) \in [Queues -> RefType(Keys \cup {IPC_PRIVATE})]
      BY Zenon, <2>1, ClosedOK DEF Tables
    <3>. QED
      BY Zenon, <2>1, <3>1 DEF MoreRefs
  <2>3. CASE p = q
    <3>1. f[c] = g[c] + 1 /\ \A d \in Clients \ {c} : f[d] = g[d]
      BY Zenon, <1>1, <1>2, <1>7, <2>1, <2>3
    <3>2. Total(f) = Total(g) + 1
      BY Zenon, <1>4, <3>1, TotalUp
    <3>3. Total(g) \in Nat /\ mqueues'[q].refcount \in Nat
      BY Zenon, <1>4, <2>2, TotalType DEF RefType
    <3>4. mqueues'[q].refcount + 1 = Total(g) + 1
      BY Zenon, <1>3, <2>2, <2>3, <3>2
    <3>. QED
      BY <3>3, <3>4
  <2>4. CASE p # q
    BY Zenon, <1>6, <2>1, <2>2, <2>4
  <2>. QED
    BY Zenon, <2>3, <2>4
<1>10. mqueues'[q].refcount = Total(g)
  BY Zenon, <1>5, <1>8, <1>9, LedgerStep DEF Stays, Fails
<1>. QED
  BY Zenon, <1>2, <1>10

\* The inductive invariant: calls in flight, tables and references.
RefInv == IInv /\ Boxes /\ Tables /\ ReferencesCounted

\* No client has a queue in the beginning.
LEMMA ReferencesInit == Init => ReferencesCounted /\ ConnectionsCounted
<1>. SUFFICES ASSUME Init PROVE ReferencesCounted /\ ConnectionsCounted
  BY Zenon
<1>0. 0 \in Nat
  OBVIOUS
<1>1. Boxes /\ Tables
  BY Zenon, TablesInit
<1>2. ASSUME NEW c \in Clients, NEW q \in Queues PROVE Held(c, q) = 0
  <2>1. ~Granted(c, q) /\ ~Closing(c, q) /\ open[c][q] = 0
    BY Zenon, Messages DEF Init, Granted, Closing
  <2>. QED
    BY Zenon, <1>1, <2>1, HeldIs
<1>3. ASSUME NEW q \in Queues PROVE mqueues[q].refcount = Total([d \in Clients |-> Held(d, q)])
  <2>1. PICK f \in [Clients -> Nat] : f = [d \in Clients |-> Held(d, q)]
    BY Zenon, <1>1, HeldIs
  <2>2. Total(f) = 0
    BY Zenon, <1>2, <2>1, TotalZero
  <2>3. mqueues[q].refcount = 0
    BY Zenon DEF Init, EmptyTable, Queues, NoObject
  <2>. QED
    BY Zenon, <2>1, <2>2, <2>3
<1>4. ASSUME NEW c \in Clients PROVE ConnectionsOf(connections, c) = Total([q \in Queues |-> Held(c, q)])
  <2>1. PICK f \in [Queues -> Nat] : f = [q \in Queues |-> Held(c, q)]
    BY Zenon, <1>1, HeldIs
  <2>2. Total(f) = 0
    BY Zenon, <1>2, <2>1, TotalZero
  <2>3. ConnectionsOf(connections, c) = 0
    <3>1. lookup(connections, c) = {}
      <4>1. \A i \in DOMAIN connections : connections[i].remote = -1
        BY Zenon DEF Init, connections_setup
      <4>2. c[1] # -1
        BY MsgAssumption
      <4>. QED
        BY Zenon, <4>1, <4>2 DEF lookup
    <3>. QED
      BY Zenon, <3>1 DEF ConnectionsOf
  <2>. QED
    BY Zenon, <2>1, <2>2, <2>3
<1>. QED
  BY Zenon, <1>3, <1>4 DEF ReferencesCounted, ConnectionsCounted

\* Every step keeps the invariant of the references.
LEMMA RefInvStep == ~Wild /\ RefInv /\ [Next]_vars => RefInv'
BY Zenon, NextOK, BoxesStep, TablesStep, ReferencesStep DEF RefInv

\* As long as clients use only the queues that they got, the reference count
\* of a queue is the number of times that clients have it.
THEOREM ReferencesCorrect ==
  ASSUME ~Wild
  PROVE  Spec => []ReferencesCounted
<1>1. Init => RefInv
  BY Zenon, InitOK, TablesInit, ReferencesInit DEF RefInv
<1>2. RefInv /\ [Next]_vars => RefInv'
  BY Zenon, RefInvStep
<1>3. RefInv => ReferencesCounted
  BY Zenon DEF RefInv
<1>. QED
  BY <1>1, <1>2, <1>3, PTL DEF Spec

\* A queue that a client got and did not close stays in use, whatever other
\* clients get and close.
THEOREM QueuesCorrect ==
  ASSUME ~Wild
  PROVE  Spec => []QueuesCoherent
<1>1. Init => RefInv
  BY Zenon, InitOK, TablesInit, ReferencesInit DEF RefInv
<1>2. RefInv /\ [Next]_vars => RefInv'
  BY Zenon, RefInvStep
<1>3. RefInv => QueuesCoherent
  <2>. SUFFICES ASSUME RefInv PROVE QueuesCoherent
    BY Zenon
  <2>1. TypeOK /\ TableCoherent(mqueues)
    BY Zenon DEF RefInv, IInv, Boxes, Tables, Types, TypeOK, SrvType, RefType, ConnTable
  <2>2. ASSUME NEW c \in Clients, NEW q \in Queues, open[c][q] > 0 PROVE mqueues[q].used
    <3>1. open[c][q] \in Nat /\ (Held(c, q) = open[c][q] \/ Held(c, q) = open[c][q] + 1)
      BY Zenon, HeldIs DEF RefInv
    <3>2. Held(c, q) > 0
      BY <2>2, <3>1
    <3>. QED
      BY Zenon, <3>2, HeldInUse DEF RefInv
  <2>. QED
    BY Zenon, <2>1, <2>2 DEF QueuesCoherent
<1>. QED
  BY <1>1, <1>2, <1>3, PTL DEF Spec

\* Every step keeps the counts of connections.
LEMMA ConnectionsStep ==
  ASSUME RefInv, Boxes', Tables', ~Wild, Cardinality(Clients) <= NANVIX_CONNECTIONS_MAX,
         ConnectionsCounted, [Next]_vars
  PROVE  ConnectionsCounted'
<1>. SUFFICES ASSUME NEW d \in Clients
              PROVE  ConnectionsOf(connections', d) = Total([q \in Queues |-> Held(d, q)'])
  BY Zenon DEF ConnectionsCounted
<1>0. IInv /\ Boxes /\ Tables /\ ReferencesCounted /\ ConnTable(Connections, Clients, connections)
  BY Zenon DEF RefInv, Tables
<1>1. PICK f \in [Queues -> Nat] : f = [q \in Queues |-> Held(d, q)]
  BY Zenon, <1>0, HeldIs
<1>2. PICK g \in [Queues -> Nat] : g = [q \in Queues |-> Held(d, q)']
  BY Zenon, HeldNext
<1>3. ConnectionsOf(connections, d) = Total(f)
  BY Zenon, <1>1 DEF ConnectionsCounted
<1>4. IsFiniteSet(Queues)
  BY FS_Interval, MsgAssumption DEF Queues
<1>5. Total(f) \in Nat /\ Total(g) \in Nat
  BY Zenon, <1>4, TotalType
<1>6. ASSUME LedgerSame PROVE g = f
  BY Zenon, <1>1, <1>2, <1>6 DEF LedgerSame
<1>7. ASSUME NEW c \in Clients PROVE connect_ret(connections, c) = 0
  <2>1. Cardinality(Connections) = NANVIX_CONNECTIONS_MAX
    BY FS_Interval, ConnectionAssumption DEF Connections
  <2>. QED
    BY Zenon, <1>0, <2>1, RoomForAll, MsgAssumption
<1>8. CASE Stays
  <2>1. g = f /\ connections' = connections
    BY Zenon, <1>6, <1>8 DEF Stays
  <2>. QED
    BY Zenon, <1>2, <1>3, <2>1
<1>9. ASSUME NEW c \in Clients, Fails(c)
      PROVE  ConnectionsOf(connections', d) = Total(g)
  <2>. DEFINE u == connect(connections, c)
              w == disconnect(u, c)
  <2>1. g = f /\ connections' = w
    BY Zenon, <1>6, <1>9 DEF Fails
  <2>2. /\ ConnTable(Connections, Clients, u)
        /\ ConnectionsOf(u, c) = ConnectionsOf(connections, c) + 1
        /\ d # c => ConnectionsOf(u, d) = ConnectionsOf(connections, d)
    <3>1. ConnTable(Connections, Clients, u) /\ OneMore(Connections, connections, u, c)
      BY Zenon, <1>0, <1>7, Connected
    <3>2. OthersKeep(Clients, connections, u, c)
      BY Zenon, <1>0, Connected
    <3>. QED
      BY Zenon, <3>1, <3>2 DEF OneMore, OthersKeep
  <2>. HIDE DEF u
  <2>3. /\ ConnectionsOf(u, c) # 0 => ConnectionsOf(u, c) = ConnectionsOf(w, c) + 1
        /\ d # c => ConnectionsOf(w, d) = ConnectionsOf(u, d)
    <3>1. ConnectionsOf(u, c) # 0 => OneMore(Connections, w, u, c)
      BY Zenon, <2>2, Disconnected
    <3>2. OthersKeep(Clients, u, w, c)
      BY Zenon, <2>2, Disconnected
    <3>. QED
      BY Zenon, <3>1, <3>2 DEF OneMore, OthersKeep
  <2>n. ConnectionsOf(w, c) \in Nat
    BY Zenon, <2>1, ConnectionsNat DEF Tables
  <2>. HIDE DEF w
  <2>4. CASE d = c
    <3>1. ConnectionsOf(u, c) # 0
      BY <1>3, <1>5, <2>2, <2>4
    <3>. QED
      BY <1>3, <1>5, <2>1, <2>2, <2>3, <2>4, <2>n, <3>1
  <2>5. CASE d # c
    BY Zenon, <1>3, <2>1, <2>2, <2>3, <2>5
  <2>. QED
    BY Zenon, <2>4, <2>5
<1>10. ASSUME NEW c \in Clients, NEW p \in Queues, Moved(c, p)
       PROVE  /\ d # c => g = f
              /\ \A r \in Queues \ {p} : g[r] = f[r]
  <2>1. ASSUME NEW r \in Queues, d # c \/ r # p PROVE g[r] = f[r]
    <3>1. <<d, r>> # <<c, p>>
      BY <2>1
    <3>. QED
      BY Zenon, <1>1, <1>2, <1>10, <3>1 DEF Moved
  <2>. QED
    BY Zenon, <1>1, <1>2, <2>1
<1>11. ASSUME NEW c \in Clients, NEW p \in Queues, Grants(c, p)
       PROVE  ConnectionsOf(connections', d) = Total(g)
  <2>1. /\ ConnectionsOf(connections', c) = ConnectionsOf(connections, c) + 1
        /\ d # c => ConnectionsOf(connections', d) = ConnectionsOf(connections, d)
    <3>1. connections' = connect(connections, c)
      BY Zenon, <1>11 DEF Grants
    <3>2. OneMore(Connections, connections, connections', c)
      BY Zenon, <1>0, <1>7, <3>1, Connected
    <3>3. OthersKeep(Clients, connections, connections', c)
      BY Zenon, <1>0, <3>1, Connected
    <3>. QED
      BY Zenon, <3>2, <3>3 DEF OneMore, OthersKeep
  <2>2. Moved(c, p) /\ Held(c, p)' = Held(c, p) + 1
    BY Zenon, <1>11 DEF Grants
  <2>3. CASE d = c
    <3>1. g[p] = f[p] + 1 /\ \A r \in Queues \ {p} : g[r] = f[r]
      BY Zenon, <1>1, <1>2, <1>10, <2>2, <2>3
    <3>2. Total(g) = Total(f) + 1
      BY Zenon, <1>4, <3>1, TotalUp
    <3>. QED
      BY Zenon, <1>3, <2>1, <2>3, <3>2
  <2>4. CASE d # c
    BY Zenon, <1>3, <1>10, <2>1, <2>2, <2>4
  <2>. QED
    BY Zenon, <2>3, <2>4
<1>12. ASSUME NEW c \in Clients, NEW p \in Queues, Closes(c, p)
       PROVE  ConnectionsOf(connections', d) = Total(g)
  <2>1. /\ Held(c, p) = Held(c, p)' + 1 /\ Moved(c, p)
        /\ connections' = disconnect(connections, c)
    BY Zenon, <1>0, <1>12, HeldInUse DEF Closes
  <2>2. /\ ConnectionsOf(connections, c) # 0 =>
             ConnectionsOf(connections, c) = ConnectionsOf(connections', c) + 1
        /\ d # c => ConnectionsOf(connections', d) = ConnectionsOf(connections, d)
    <3>1. ConnectionsOf(connections, c) # 0 => OneMore(Connections, connections', connections, c)
      BY Zenon, <1>0, <2>1, Disconnected
    <3>2. OthersKeep(Clients, connections, connections', c)
      BY Zenon, <1>0, <2>1, Disconnected
    <3>. QED
      BY Zenon, <3>1, <3>2 DEF OneMore, OthersKeep
  <2>3. CASE d = c
    <3>1. f[p] = g[p] + 1 /\ \A r \in Queues \ {p} : f[r] = g[r]
      BY Zenon, <1>1, <1>2, <1>10, <2>1, <2>3
    <3>2. Total(f) = Total(g) + 1
      BY Zenon, <1>4, <3>1, TotalUp
    <3>3. ConnectionsOf(connections, d) # 0
      BY <1>3, <1>5, <3>2
    <3>4. Total(g) + 1 = ConnectionsOf(connections', d) + 1
      BY Zenon, <1>3, <2>2, <2>3, <3>2, <3>3
    <3>5. ConnectionsOf(connections', d) \in Nat
      BY Zenon, ConnectionsNat DEF Tables
    <3>. QED
      BY <1>5, <3>4, <3>5
  <2>4. CASE d # c
    BY Zenon, <1>3, <1>10, <2>1, <2>2, <2>4
  <2>. QED
    BY Zenon, <2>3, <2>4
<1>13. ConnectionsOf(connections', d) = Total(g)
  <2>1. Stays \/ \E c \in Clients : Fails(c) \/ \E q \in Queues : Grants(c, q) \/ Closes(c, q)
    BY Zenon, <1>0, LedgerStep
  <2>2. CASE Stays
    BY Zenon, <1>2, <1>8, <2>2
  <2>3. ASSUME NEW c \in Clients, Fails(c) \/ \E q \in Queues : Grants(c, q) \/ Closes(c, q)
        PROVE  ConnectionsOf(connections', d) = Total(g)
    BY Zenon, <1>9, <1>11, <1>12, <2>3
  <2>. QED
    BY Zenon, <2>1, <2>2, <2>3
<1>. QED
  BY Zenon, <1>2, <1>13

\* As long as clients use only the queues that they got, and the table has an
\* entry for each of them, a client has as many connections as queues.
THEOREM ConnectionsCorrect ==
  ASSUME ~Wild, Cardinality(Clients) <= NANVIX_CONNECTIONS_MAX
  PROVE  Spec => []ConnectionsCounted
<1>1. Init => RefInv /\ ConnectionsCounted
  BY Zenon, InitOK, TablesInit, ReferencesInit DEF RefInv
<1>2. RefInv /\ ConnectionsCounted /\ [Next]_vars => (RefInv /\ ConnectionsCounted)'
  <2>. SUFFICES ASSUME RefInv, ConnectionsCounted, [Next]_vars PROVE (RefInv /\ ConnectionsCounted)'
    BY Zenon
  <2>1. RefInv'
    BY Zenon, RefInvStep
  <2>2. Boxes'
    BY Zenon, <2>1 DEF RefInv
  <2>3. Tables'
    BY Zenon, <2>1 DEF RefInv
  <2>. QED
    BY Zenon, <2>1, <2>2, <2>3, ConnectionsStep
<1>. QED
  BY <1>1, <1>2, PTL DEF Spec

=============================================================================

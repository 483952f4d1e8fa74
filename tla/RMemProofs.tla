----------------------------- MODULE RMemProofs -----------------------------
(***************************************************************************)
(* Proofs about the blocks of the remote memory service, for any number of *)
(* clients, servers and blocks.                                            *)
(***************************************************************************)
EXTENDS RMem, TableProofs
\* The inductive invariant.
BlockInv == TypeOK /\ BlockAccounting /\ FreeBlocksAreClean

-----------------------------------------------------------------------------
(***************************************************************************)
(* The blocks.                                                             *)
(***************************************************************************)

\* The bitmap of a server is finite, and while the count of blocks is below
\* RMEM_NUM_BLOCKS a search for a free block succeeds: the assertion of
\* do_rmem_alloc() holds.
LEMMA FreeBlockFound ==
  ASSUME TypeOK, BlockAccounting, NEW s \in Servers
  PROVE  /\ IsFiniteSet(bitmap[s])
         /\ nblocks[s] # RMEM_NUM_BLOCKS => bitmap_first_free(s) \in Blocks \ bitmap[s]
<1>. USE RMemAssumption
<1>1. IsFiniteSet(Blocks) /\ Cardinality(Blocks) = RMEM_NUM_BLOCKS
  BY FS_Interval DEF Blocks
<1>2. IsFiniteSet(bitmap[s])
  BY Zenon, <1>1, FS_Subset DEF TypeOK
<1>3. ASSUME nblocks[s] # RMEM_NUM_BLOCKS
      PROVE  bitmap_first_free(s) \in Blocks \ bitmap[s]
  <2>1. Blocks \ bitmap[s] # {}
    BY ZenonT(60), <1>1, <1>3 DEF TypeOK, BlockAccounting
  <2>2. Blocks \ bitmap[s] \in SUBSET Nat
    BY DEF Blocks
  <2>. QED
    BY Zenon, <2>1, <2>2, FirstIsLeast DEF bitmap_first_free
<1>. QED
  BY Zenon, <1>2, <1>3

\* What the requests, the replies and the states of a server are made of.
LEMMA MessageTypes ==
  /\ RMEM_NULL \in PageNumbers
  /\ NoMsg \in ReplyMsgs /\ Exit \in RequestMsgs /\ {Idle, Exited} \subseteq ServerStates
  /\ \A op \in {"alloc", "free", "read", "write"}, c \in Clients, p \in PageNumbers :
       Request(op, c, p) \in RequestMsgs
  /\ \A op \in {"alloc", "free", "read", "write", "ack"}, ret \in Codes, p \in PageNumbers :
       Reply(op, ret, p) \in ReplyMsgs
  /\ \A c \in Clients, b \in Blocks, ret \in Codes : Sending(c, b, ret) \in ServerStates
  /\ \A m \in RequestMsgs : m.op # "exit" =>
       /\ m.source \in Clients /\ m.page \in PageNumbers
       /\ RMEM_BLOCK_NUM(m.page) \in Blocks
  /\ \A r \in ReplyMsgs : r # NoMsg => r.ret \in Codes /\ r.page \in PageNumbers
  /\ \A v \in ServerStates : v.pc = "portal" =>
       v.client \in Clients /\ v.block \in Blocks /\ v.ret \in Codes
<1>1. RMEM_NULL \in PageNumbers
  BY RMemAssumption DEF RMEM_NULL, RMEM_BLOCK, Servers, Blocks, PageNumbers
<1>. QED
  BY <1>1 DEF NoMsg, Exit, Idle, Exited, Request, Reply, Sending, RequestMsgs, ReplyMsgs,
     ServerStates, RMEM_BLOCK_NUM, PageNumbers

\* A stub that sends a request keeps what it changes well typed.
LEMMA SendTypes ==
  ASSUME TypeOK, NEW c \in Clients, NEW s, NEW op \in {"alloc", "free", "read", "write"},
         NEW p \in PageNumbers, NEW next \in Points, Send(c, s, op, p, next)
  PROVE  /\ requests' \in [Servers -> SUBSET RequestMsgs]
         /\ ctl' \in [Clients -> Points]
         /\ page' \in [Clients -> PageNumbers]
<1>. DEFINE r == Request(op, c, p)
<1>1. r \in RequestMsgs
  BY Zenon, MessageTypes
<1>2. /\ requests' = [requests EXCEPT ![s] = requests[s] \cup {r}]
      /\ ctl' = [ctl EXCEPT ![c] = next]
      /\ page' = [page EXCEPT ![c] = p]
  BY Zenon DEF Send
<1>3. /\ requests \in [Servers -> SUBSET RequestMsgs]
      /\ ctl \in [Clients -> Points] /\ page \in [Clients -> PageNumbers]
  BY Zenon DEF TypeOK
<1>. HIDE DEF r
<1>4. requests' \in [Servers -> SUBSET RequestMsgs]
  BY ZenonT(60), <1>1, <1>2, <1>3
<1>5. ctl' \in [Clients -> Points] /\ page' \in [Clients -> PageNumbers]
  BY Zenon, <1>2, <1>3
<1>. QED
  BY Zenon, <1>4, <1>5

\* Every step of the clients and of the servers keeps the state well typed.
LEMMA TypeStep ==
  ASSUME BlockInv, [Next]_vars
  PROVE  TypeOK'
<1>. USE RMemAssumption DEF BlockInv, TypeOK, Points, servervars, clientvars
<1>1. ASSUME NEW c \in Clients, ClientCall(c)
      PROVE  TypeOK'
  <2>1. CASE Setup(c)
    <3>1. initialized' \in [Clients -> SUBSET Servers]
      BY <2>1 DEF Setup
    <3>. QED
      BY Zenon, <2>1, <3>1 DEF Setup
  <2>2. CASE Cleanup(c)
    <3>1. initialized' \in [Clients -> SUBSET Servers]
      BY <2>2 DEF Cleanup
    <3>. QED
      BY Zenon, <2>2, <3>1 DEF Cleanup
  <2>3. CASE AllocCall(c)
    <3>1. /\ requests' \in [Servers -> SUBSET RequestMsgs]
          /\ ctl' \in [Clients -> Points] /\ page' \in [Clients -> PageNumbers]
      <4>1. RMEM_NULL \in PageNumbers
        BY Zenon, MessageTypes
      <4>2. PICK s : Send(c, s, "alloc", RMEM_NULL, "alloc")
        BY Zenon, <2>3 DEF AllocCall
      <4>. QED
        BY ZenonT(60), <4>1, <4>2, SendTypes
    <3>. QED
      BY Zenon, <2>3, <3>1 DEF AllocCall
  <2>4. ASSUME NEW p \in Pages, FreeCall(c, p)
        PROVE  TypeOK'
    <3>1. /\ requests' \in [Servers -> SUBSET RequestMsgs]
          /\ ctl' \in [Clients -> Points] /\ page' \in [Clients -> PageNumbers]
      <4>1. p \in PageNumbers
        BY Zenon
      <4>2. PICK s : Send(c, s, "free", p, "free")
        BY Zenon, <2>4 DEF FreeCall
      <4>. QED
        BY ZenonT(60), <4>1, <4>2, SendTypes
    <3>2. held' \in [Clients -> SUBSET PageNumbers]
      BY Zenon, <2>4 DEF FreeCall
    <3>. QED
      BY Zenon, <2>4, <3>1, <3>2 DEF FreeCall
  <2>5. ASSUME NEW p \in Pages, ReadCall(c, p)
        PROVE  TypeOK'
    <3>1. /\ requests' \in [Servers -> SUBSET RequestMsgs]
          /\ ctl' \in [Clients -> Points] /\ page' \in [Clients -> PageNumbers]
      <4>1. p \in PageNumbers
        BY Zenon
      <4>2. PICK s : Send(c, s, "read", p, "ack")
        BY Zenon, <2>5 DEF ReadCall
      <4>. QED
        BY ZenonT(60), <4>1, <4>2, SendTypes
    <3>. QED
      BY Zenon, <2>5, <3>1 DEF ReadCall
  <2>6. ASSUME NEW p \in Pages, NEW v \in Values, WriteCall(c, p, v)
        PROVE  TypeOK'
    <3>1. /\ requests' \in [Servers -> SUBSET RequestMsgs]
          /\ ctl' \in [Clients -> Points] /\ page' \in [Clients -> PageNumbers]
      <4>1. p \in PageNumbers
        BY Zenon
      <4>2. PICK s : Send(c, s, "write", p, "portal_write")
        BY Zenon, <2>6 DEF WriteCall
      <4>. QED
        BY ZenonT(60), <4>1, <4>2, SendTypes
    <3>2. buf' \in [Clients -> Values]
      BY Zenon, <2>6 DEF WriteCall
    <3>. QED
      BY Zenon, <2>6, <3>1, <3>2 DEF WriteCall
  <2>7. CASE Shutdown(c)
    BY SMTT(60), <2>7, MessageTypes DEF Shutdown
  <2>. QED
    BY Zenon, <1>1, <2>1, <2>2, <2>3, <2>4, <2>5, <2>6, <2>7 DEF ClientCall
<1>2. ASSUME NEW c \in Clients, ClientReturn(c)
      PROVE  TypeOK'
  <2>1. CASE AllocReturn(c)
    <3>1. \A s \in Servers : NextServer(s) \in Servers
      BY SMTT(60) DEF NextServer, Servers
    <3>2. inbox[c].page \in PageNumbers
      BY Zenon, <2>1, MessageTypes DEF AllocReturn
    <3>3. CASE inbox[c].ret = "ok"
      <4>1. NoMsg \in ReplyMsgs
        BY Zenon, MessageTypes
      <4>2. view' \in [PageNumbers -> Values]
        <5>1. view' = [view EXCEPT ![inbox[c].page] = Zero]
          BY Zenon, <2>1, <3>3 DEF AllocReturn
        <5>. QED
          BY ZenonT(60), <5>1
      <4>3. held' \in [Clients -> SUBSET PageNumbers]
        <5>1. held' = [held EXCEPT ![c] = held[c] \cup {inbox[c].page}]
          BY Zenon, <2>1, <3>3 DEF AllocReturn
        <5>. QED
          BY Zenon, <3>2, <5>1
      <4>4. nallocs' \in [Clients -> Servers]
        <5>1. NextServer(nallocs[c]) \in Servers
          BY Zenon, <3>1
        <5>2. nallocs' = [nallocs EXCEPT ![c] = NextServer(nallocs[c])]
          BY Zenon, <2>1, <3>3 DEF AllocReturn
        <5>. QED
          BY Zenon, <5>1, <5>2
      <4>. QED
        BY ZenonT(60), <2>1, <4>1, <4>2, <4>3, <4>4 DEF AllocReturn
    <3>4. CASE inbox[c].ret # "ok"
      BY Zenon, <2>1, <3>4, MessageTypes DEF AllocReturn
    <3>. QED
      BY Zenon, <3>3, <3>4
  <2>2. CASE Return(c)
    BY Zenon, <2>2, MessageTypes DEF Return
  <2>3. CASE ReadAck(c)
    BY Zenon, <2>3, MessageTypes DEF ReadAck
  <2>4. CASE WriteReturn(c)
    BY Zenon, <2>4, MessageTypes DEF WriteReturn
  <2>. QED
    BY Zenon, <1>2, <2>1, <2>2, <2>3, <2>4 DEF ClientReturn
<1>3. ASSUME NEW s \in Servers, NEW m \in requests[s], Handle(s, m)
      PROVE  TypeOK'
  <2>. USE DEF Answer, Receive, Codes
  <2>1. CASE do_rmem_alloc(s, m)
    <3>1. nblocks[s] # RMEM_NUM_BLOCKS => bitmap_first_free(s) \in Blocks
      BY Zenon, FreeBlockFound
    <3>2. m.source \in Clients
      BY Zenon, <2>1, MessageTypes DEF do_rmem_alloc
    <3>3. CASE nblocks[s] = RMEM_NUM_BLOCKS
      <4>1. Reply("alloc", "ENOMEM", RMEM_NULL) \in ReplyMsgs
        BY Zenon, MessageTypes
      <4>. QED
        BY ZenonT(60), <2>1, <3>2, <3>3, <4>1 DEF do_rmem_alloc
    <3>4. CASE nblocks[s] # RMEM_NUM_BLOCKS
      <4>1. Reply("alloc", "ok", RMEM_BLOCK(s, bitmap_first_free(s))) \in ReplyMsgs
        BY Zenon, <3>1, <3>4, MessageTypes DEF RMEM_BLOCK, PageNumbers
      <4>2. owners' \in [Servers -> [Blocks -> Clients \cup {0}]]
        <5>1. [owners[s] EXCEPT ![bitmap_first_free(s)] = m.source] \in [Blocks -> Clients \cup {0}]
          BY ZenonT(60), <3>2
        <5>. QED
          BY ZenonT(30), <2>1, <3>4, <5>1 DEF do_rmem_alloc
      <4>3. bitmap' \in [Servers -> SUBSET Blocks]
        BY SMTT(60), <2>1, <3>1, <3>4 DEF do_rmem_alloc
      <4>4. nblocks' \in [Servers -> Nat]
        BY SMTT(60), <2>1, <3>4 DEF do_rmem_alloc
      <4>5. inbox' \in [Clients -> ReplyMsgs]
        BY SMTT(60), <2>1, <3>2, <3>4, <4>1 DEF do_rmem_alloc
      <4>. QED
        BY ZenonT(60), <2>1, <4>2, <4>3, <4>4, <4>5 DEF do_rmem_alloc
    <3>. QED
      BY Zenon, <3>3, <3>4
  <2>2. CASE do_rmem_free(s, m)
    <3>. DEFINE num == RMEM_BLOCK_NUM(m.page)
                ret == FreeCode(s, num, m.source)
    <3>1. ret \in Codes
      BY Zenon DEF FreeCode
    <3>2. ret = "ok" => nblocks[s] - 1 \in Nat
      BY SMTT(60), FS_CardinalityType, FS_EmptySet, FreeBlockFound, MessageTypes DEF FreeCode, BlockAccounting
    <3>3. num \in Blocks /\ m.source \in Clients
      BY Zenon, <2>2, MessageTypes DEF do_rmem_free
    <3>. HIDE DEF num, ret
    <3>4. inbox' \in [Clients -> ReplyMsgs]
      BY Zenon, <2>2, <3>1, <3>3, MessageTypes DEF do_rmem_free, num, ret
    <3>5. CASE ret = "ok"
      <4>1. blocks' \in [Servers -> Contents]
        <5>1. [blocks[s] EXCEPT ![num] = Zero] \in Contents
          BY ZenonT(60) DEF Contents
        <5>. QED
          BY ZenonT(60), <2>2, <3>5, <5>1 DEF do_rmem_free, num, ret, Cleaned
      <4>2. nblocks' \in [Servers -> Nat]
        BY ZenonT(60), <2>2, <3>2, <3>5 DEF do_rmem_free, num, ret
      <4>3. bitmap' \in [Servers -> SUBSET Blocks]
        <5>1. bitmap' = [bitmap EXCEPT ![s] = bitmap[s] \ {num}]
          BY ZenonT(30), <2>2, <3>5 DEF do_rmem_free, num, ret
        <5>2. bitmap \in [Servers -> SUBSET Blocks]
          BY Zenon
        <5>. QED
          BY Zenon, <5>1, <5>2
      <4>4. requests' \in [Servers -> SUBSET RequestMsgs]
        BY Zenon, <2>2 DEF do_rmem_free
      <4>5. UNCHANGED <<owners, srv, clientvars>>
        BY Zenon, <2>2 DEF do_rmem_free
      <4>. QED
        BY Zenon, <3>4, <4>1, <4>2, <4>3, <4>4, <4>5
    <3>6. CASE ret # "ok"
      BY Zenon, <2>2, <3>4, <3>6 DEF do_rmem_free, num, ret
    <3>. QED
      BY Zenon, <3>5, <3>6
  <2>3. CASE do_rmem_write_invalid(s, m)
    BY Zenon, <2>3, MessageTypes DEF do_rmem_write_invalid
  <2>4. CASE do_rmem_write(s, m)
    <3>1. WriteBlock(s, RMEM_BLOCK_NUM(m.page)) \in Blocks
      BY SMTT(60), <2>4, MessageTypes DEF do_rmem_write, WriteBlock, BlockAccounting
    <3>. QED
      BY ZenonT(60), <2>4, <3>1, MessageTypes DEF do_rmem_write, Contents
  <2>5. CASE do_rmem_read_invalid(s, m)
    BY Zenon, <2>5, MessageTypes DEF do_rmem_read_invalid
  <2>6. CASE do_rmem_read(s, m)
    <3>1. 0 \in Blocks
      BY SMTT(60) DEF Blocks
    <3>. QED
      BY ZenonT(30), <2>6, <3>1, MessageTypes DEF do_rmem_read
  <2>. QED
    BY Zenon, <1>3, <2>1, <2>2, <2>3, <2>4, <2>5, <2>6 DEF Handle
<1>4. ASSUME NEW s \in Servers, do_rmem_read_data(s)
      PROVE  TypeOK'
  BY SMTT(60), <1>4, MessageTypes DEF do_rmem_read_data, Answer, Contents
<1>5. ASSUME NEW s \in Servers, do_rmem_exit(s)
      PROVE  TypeOK'
  BY Zenon, <1>5, MessageTypes DEF do_rmem_exit, Receive
<1>6. CASE UNCHANGED vars
  BY Zenon, <1>6 DEF vars
<1>. QED
  BY Zenon, <1>1, <1>2, <1>3, <1>4, <1>5, <1>6 DEF Next, Terminated, ServerStep

\* Of all steps only the handlers of allocations, frees and writes change
\* the blocks of a server.
BlocksUntouched == UNCHANGED <<bitmap, nblocks, blocks>>

\* Only three handlers touch the blocks of a server.
LEMMA OtherSteps ==
  ASSUME [Next]_vars
  PROVE  \/ BlocksUntouched
         \/ \E s \in Servers : \E m \in requests[s] :
              do_rmem_alloc(s, m) \/ do_rmem_free(s, m) \/ do_rmem_write(s, m)
<1>. USE DEF BlocksUntouched, servervars, clientvars
<1>1. ASSUME NEW c \in Clients, ClientCall(c)
      PROVE  BlocksUntouched
  BY Zenon, <1>1 DEF ClientCall, Setup, Cleanup, AllocCall, FreeCall, ReadCall, WriteCall, Shutdown
<1>2. ASSUME NEW c \in Clients, ClientReturn(c)
      PROVE  BlocksUntouched
  BY SMTT(60), <1>2 DEF ClientReturn, AllocReturn, Return, ReadAck, WriteReturn
<1>3. ASSUME NEW s \in Servers, NEW m \in requests[s],
             do_rmem_write_invalid(s, m) \/ do_rmem_read_invalid(s, m) \/ do_rmem_read(s, m)
      PROVE  BlocksUntouched
  BY Zenon, <1>3 DEF do_rmem_write_invalid, do_rmem_read_invalid, do_rmem_read
<1>4. ASSUME NEW s \in Servers, do_rmem_read_data(s) \/ do_rmem_exit(s)
      PROVE  BlocksUntouched
  BY SMTT(60), <1>4 DEF do_rmem_read_data, do_rmem_exit
<1>5. CASE UNCHANGED vars
  BY Zenon, <1>5 DEF vars
<1>. QED
  BY SMTT(60), <1>1, <1>2, <1>3, <1>4, <1>5 DEF Next, Terminated, ServerStep, Handle

\* Every step keeps the count of blocks exact and the free blocks clean.
LEMMA BlockStep ==
  ASSUME BlockInv, [Next]_vars
  PROVE  (BlockAccounting /\ FreeBlocksAreClean)'
<1>. USE DEF BlockInv
<1>1. CASE BlocksUntouched
  BY Zenon, <1>1 DEF BlocksUntouched, BlockAccounting, FreeBlocksAreClean
<1>2. ASSUME NEW s \in Servers, NEW m \in requests[s], do_rmem_alloc(s, m)
      PROVE  (BlockAccounting /\ FreeBlocksAreClean)'
  <2>1. CASE nblocks[s] = RMEM_NUM_BLOCKS
    BY Zenon, <1>2, <2>1 DEF do_rmem_alloc, BlockAccounting, FreeBlocksAreClean
  <2>2. CASE nblocks[s] # RMEM_NUM_BLOCKS
    <3>. DEFINE bit == bitmap_first_free(s)
    <3>1. bit \notin bitmap[s] /\ IsFiniteSet(bitmap[s])
      BY Zenon, <2>2, FreeBlockFound
    <3>2. /\ bitmap' = [bitmap EXCEPT ![s] = bitmap[s] \cup {bit}]
          /\ nblocks' = [nblocks EXCEPT ![s] = nblocks[s] + 1]
          /\ blocks' = blocks
      BY Zenon, <1>2, <2>2 DEF do_rmem_alloc
    <3>3. Cardinality(bitmap[s] \cup {bit}) = Cardinality(bitmap[s]) + 1
      BY ZenonT(60), <3>1, FS_AddElement
    <3>. HIDE DEF bit
    <3>. QED
      BY Zenon, <3>2, <3>3 DEF TypeOK, BlockAccounting, FreeBlocksAreClean
  <2>. QED
    BY Zenon, <2>1, <2>2
<1>3. ASSUME NEW s \in Servers, NEW m \in requests[s], do_rmem_free(s, m)
      PROVE  (BlockAccounting /\ FreeBlocksAreClean)'
  <2>. DEFINE num == RMEM_BLOCK_NUM(m.page)
              ret == FreeCode(s, num, m.source)
  <2>1. CASE ret # "ok"
    BY Zenon, <1>3, <2>1 DEF do_rmem_free, BlockAccounting, FreeBlocksAreClean
  <2>2. CASE ret = "ok"
    <3>1. num \in bitmap[s] \ {0}
      BY Zenon, <2>2 DEF FreeCode
    <3>2. /\ bitmap' = [bitmap EXCEPT ![s] = bitmap[s] \ {num}]
          /\ nblocks' = [nblocks EXCEPT ![s] = nblocks[s] - 1]
          /\ blocks' = [blocks EXCEPT ![s][num] = Zero]
      BY Zenon, <1>3, <2>2 DEF do_rmem_free, Cleaned
    <3>3. Cardinality(bitmap[s] \ {num}) = Cardinality(bitmap[s]) - 1
      BY ZenonT(60), <3>1, FreeBlockFound, FS_RemoveElement
    <3>. HIDE DEF num, ret
    <3>4. BlockAccounting'
      BY Zenon, <3>1, <3>2, <3>3 DEF TypeOK, BlockAccounting
    <3>5. FreeBlocksAreClean'
      BY Zenon, <3>2 DEF TypeOK, Contents, FreeBlocksAreClean
    <3>. QED
      BY Zenon, <3>4, <3>5
  <2>. QED
    BY Zenon, <2>1, <2>2
<1>4. ASSUME NEW s \in Servers, NEW m \in requests[s], do_rmem_write(s, m)
      PROVE  (BlockAccounting /\ FreeBlocksAreClean)'
  <2>. DEFINE dest == WriteBlock(s, RMEM_BLOCK_NUM(m.page))
  <2>1. dest \in bitmap[s]
    BY Zenon DEF WriteBlock, BlockAccounting
  <2>2. /\ blocks' = [blocks EXCEPT ![s][dest] = buf[m.source]]
        /\ UNCHANGED <<bitmap, nblocks>>
    BY Zenon, <1>4 DEF do_rmem_write
  <2>. HIDE DEF dest
  <2>. QED
    BY Zenon, <2>1, <2>2 DEF TypeOK, Contents, BlockAccounting, FreeBlocksAreClean
<1>. QED
  BY SMTT(60), <1>1, <1>2, <1>3, <1>4, OtherSteps

\* The servers start with the null block allocated and everything clean.
LEMMA BlockInit ==
  ASSUME Init
  PROVE  BlockInv
<1>1. 0 \in Servers /\ 0 \in Blocks
  BY SMTT(60), RMemAssumption DEF Servers, Blocks
<1>2. TypeOK
  BY Zenon, <1>1, RMemAssumption, MessageTypes DEF Init, TypeOK, Points, Contents
<1>3. BlockAccounting
  BY ZenonT(60), FS_Singleton DEF Init, BlockAccounting
<1>4. FreeBlocksAreClean
  BY Zenon DEF Init, FreeBlocksAreClean
<1>. QED
  BY Zenon, <1>2, <1>3, <1>4 DEF BlockInv

\* The state of the service stays well typed; the servers' counts agree with
\* their bitmaps, so that an allocation below the limit finds a block and
\* never the null block; and blocks that are free hold zeros.
THEOREM BlocksCorrect == Spec => [](TypeOK /\ BlockAccounting /\ FreeBlocksAreClean)
<1>1. Init => BlockInv
  BY Zenon, BlockInit
<1>2. BlockInv /\ [Next]_vars => BlockInv'
  BY Zenon, TypeStep, BlockStep DEF BlockInv
<1>. QED
  BY <1>1, <1>2, PTL DEF Spec, BlockInv

-----------------------------------------------------------------------------
(***************************************************************************)
(* Who has the blocks: the inductive invariant, and the steps that it      *)
(* takes to get a page.                                                    *)
(***************************************************************************)

\* A request in a mailbox is the only one of its client, which waits for the
\* answer and has none yet.  It went to the server that its page names, and
\* a client that asked to free a page does not hold it.
WaitingAt(op) ==
  CASE op = "alloc" -> "alloc"
    [] op = "free"  -> "free"
    [] op = "read"  -> "ack"
    [] op = "write" -> "portal_write"
RequestsMatch ==
  \A s \in Servers : \A m \in requests[s] \ {Exit} :
    /\ ctl[m.source] = WaitingAt(m.op)
    /\ inbox[m.source] = NoMsg
    /\ m.op # "alloc" => m.page[1] = s
    /\ m.op = "free" => m.page \notin held[m.source]
    /\ \A t \in Servers : \A n \in requests[t] \ {Exit} :
         n.source = m.source => t = s /\ n = m

\* A client gets the answer to an allocation where it waits for one, and the
\* page it gets is allocated to it and not yet in anybody's hands.
RepliesMatch ==
  \A c \in Clients : inbox[c] # NoMsg =>
    /\ ctl[c] \in {"alloc", "free", "ack", "read_reply", "portal_write", "write_reply"}
    /\ inbox[c].op = "alloc" <=> ctl[c] = "alloc"
    /\ inbox[c].op = "alloc" /\ inbox[c].ret = "ok" =>
         LET p == inbox[c].page IN
         /\ p[2] \in bitmap[p[1]] \ {0}
         /\ owners[p[1]][p[2]] = c
         /\ \A d \in Clients : p \notin held[d]

\* A block that is allocated can be freed by the client it is registered to:
\* that client holds it, or is about to get it, or is freeing it.
BlocksTracked ==
  \A s \in Servers : \A b \in bitmap[s] \ {0} :
    LET c == owners[s][b] IN
    /\ c \in Clients
    /\ \/ <<s, b>> \in held[c]
       \/ inbox[c] = Reply("alloc", "ok", <<s, b>>)
       \/ Request("free", c, <<s, b>>) \in requests[s]

\* The inductive invariant.
OwnerInv == BlockInv /\ HeldPagesAreOwned /\ RequestsMatch /\ RepliesMatch /\ BlocksTracked

-----------------------------------------------------------------------------
\* A request other than an exit names a client, which is at a point of its
\* stub where it waits.
LEMMA RequestFacts ==
  ASSUME OwnerInv, NEW s \in Servers, NEW m \in requests[s], m # Exit
  PROVE  /\ m.op \in {"alloc", "free", "read", "write"}
         /\ m.source \in Clients
         /\ m.page \in PageNumbers
         /\ ctl[m.source] = WaitingAt(m.op)
         /\ ctl[m.source] \in {"alloc", "free", "ack", "portal_write"}
         /\ inbox[m.source] = NoMsg
<1>1. m \in [op : {"alloc", "free", "read", "write"}, source : Clients, page : PageNumbers]
  BY Zenon DEF OwnerInv, BlockInv, TypeOK, RequestMsgs
<1>2. ctl[m.source] = WaitingAt(m.op) /\ inbox[m.source] = NoMsg
  BY Zenon DEF OwnerInv, RequestsMatch
<1>. QED
  BY Zenon, <1>1, <1>2 DEF WaitingAt

\* Once a request is out of its mailbox, its client has none left.
LEMMA OtherRequests ==
  ASSUME OwnerInv, NEW s \in Servers, NEW m \in requests[s], m # Exit,
         requests' = [requests EXCEPT ![s] = @ \ {m}]
  PROVE  \A t \in Servers : \A n \in requests'[t] \ {Exit} :
           n \in requests[t] /\ n.source \in Clients \ {m.source}
<1>. SUFFICES ASSUME NEW t \in Servers, NEW n \in requests'[t], n # Exit
              PROVE  n \in requests[t] /\ n.source \in Clients \ {m.source}
  BY Zenon
<1>1. n \in requests[t] /\ (t = s => n # m)
  BY Zenon DEF OwnerInv, BlockInv, TypeOK
<1>2. n.source \in Clients
  BY Zenon, <1>1, RequestFacts
<1>3. n.source = m.source => t = s /\ n = m
  BY SMTT(60), <1>1 DEF OwnerInv, RequestsMatch
<1>. QED
  BY Zenon, <1>1, <1>2, <1>3

\* A stub that sends a request keeps the invariant: its caller was idle, so
\* it has no other request and no answer, and a page it frees leaves its
\* hands.
LEMMA SendStep ==
  ASSUME OwnerInv, NEW c \in Clients, NEW s \in Servers, NEW p \in PageNumbers,
         NEW op \in {"alloc", "free", "read", "write"},
         Send(c, s, op, p, WaitingAt(op)),
         op # "alloc" => p[1] = s,
         held' = IF op = "free" THEN [held EXCEPT ![c] = @ \ {p}] ELSE held,
         UNCHANGED <<bitmap, owners, inbox>>
  PROVE  (HeldPagesAreOwned /\ RequestsMatch /\ RepliesMatch /\ BlocksTracked)'
<1>. DEFINE r == Request(op, c, p)
<1>1. /\ ctl \in [Clients -> Points] /\ held \in [Clients -> SUBSET PageNumbers]
      /\ requests \in [Servers -> SUBSET RequestMsgs]
  BY Zenon DEF OwnerInv, BlockInv, TypeOK
<1>2. /\ ctl[c] = "idle" /\ ctl' = [ctl EXCEPT ![c] = WaitingAt(op)]
      /\ requests' = [requests EXCEPT ![s] = requests[s] \cup {r}]
  BY Zenon DEF Send
<1>3. inbox[c] = NoMsg
  BY Zenon, <1>2 DEF OwnerInv, RepliesMatch
<1>4. \A t \in Servers : \A m \in requests[t] \ {Exit} : m.source # c
  BY Zenon, <1>2, RequestFacts
<1>5. r.op = op /\ r.source = c /\ r.page = p /\ r # Exit
  BY Zenon DEF Request, Exit
<1>6. \A d \in Clients : held'[d] \subseteq held[d]
  BY Zenon, <1>1
<1>7. op = "free" => p \notin held'[c]
  BY Zenon, <1>1
<1>8. HeldPagesAreOwned'
  BY Zenon, <1>6 DEF OwnerInv, HeldPagesAreOwned
<1>9. RepliesMatch'
  BY Zenon, <1>1, <1>2, <1>3, <1>6 DEF OwnerInv, RepliesMatch
<1>10. BlocksTracked'
  <2>. SUFFICES ASSUME NEW t \in Servers, NEW b \in bitmap[t] \ {0}
                PROVE  LET d == owners[t][b] IN
                       /\ d \in Clients
                       /\ \/ <<t, b>> \in held'[d]
                          \/ inbox[d] = Reply("alloc", "ok", <<t, b>>)
                          \/ Request("free", d, <<t, b>>) \in requests'[t]
    BY ZenonT(60) DEF BlocksTracked
  <2>. DEFINE d == owners[t][b]
  <2>1. /\ d \in Clients
        /\ \/ <<t, b>> \in held[d]
           \/ inbox[d] = Reply("alloc", "ok", <<t, b>>)
           \/ Request("free", d, <<t, b>>) \in requests[t]
    BY Zenon DEF OwnerInv, BlocksTracked
  <2>2. requests[t] \subseteq requests'[t]
    BY Zenon, <1>1, <1>2
  <2>3. CASE <<t, b>> \in held[d] /\ <<t, b>> \notin held'[d]
    <3>1. op = "free" /\ d = c /\ p = <<t, b>>
      BY Zenon, <1>1, <2>1, <2>3
    <3>2. t = s
      BY Zenon, <3>1
    <3>. QED
      BY Zenon, <1>1, <1>2, <2>1, <3>1, <3>2
  <2>. QED
    BY Zenon, <2>1, <2>2, <2>3
<1>11. RequestsMatch'
  <2>. SUFFICES ASSUME NEW t \in Servers, NEW m \in requests'[t] \ {Exit}
                PROVE  /\ ctl'[m.source] = WaitingAt(m.op)
                       /\ inbox[m.source] = NoMsg
                       /\ m.op # "alloc" => m.page[1] = t
                       /\ m.op = "free" => m.page \notin held'[m.source]
                       /\ \A u \in Servers : \A n \in requests'[u] \ {Exit} :
                            n.source = m.source => u = t /\ n = m
    BY SMTT(60) DEF RequestsMatch
  <2>. HIDE DEF r
  <2>1. \A u \in Servers : \A n \in requests'[u] : n \in requests[u] \/ (u = s /\ n = r)
    BY Zenon, <1>1, <1>2
  <2>2. CASE t = s /\ m = r
    BY Zenon, <1>1, <1>2, <1>3, <1>4, <1>5, <1>7, <2>1, <2>2
  <2>3. CASE m \in requests[t]
    <3>1. m.source \in Clients /\ m.source # c
      BY Zenon, <1>4, <2>3, RequestFacts
    <3>. QED
      BY SMTT(60), <1>1, <1>2, <1>5, <1>6, <2>1, <2>3, <3>1 DEF OwnerInv, RequestsMatch
  <2>. QED
    BY Zenon, <2>1, <2>2, <2>3
<1>. QED
  BY Zenon, <1>8, <1>9, <1>10, <1>11

\* A stub that receives an answer keeps the invariant: the page that an
\* allocation returns is in nobody's hands before.
LEMMA ReceiveStep ==
  ASSUME OwnerInv, NEW c \in Clients, NEW next \in Points,
         inbox[c] # NoMsg,
         inbox' = [inbox EXCEPT ![c] = NoMsg],
         ctl' = [ctl EXCEPT ![c] = next],
         held' = IF inbox[c].op = "alloc" /\ inbox[c].ret = "ok"
                 THEN [held EXCEPT ![c] = @ \cup {inbox[c].page}] ELSE held,
         UNCHANGED <<bitmap, owners, requests>>
  PROVE  (HeldPagesAreOwned /\ RequestsMatch /\ RepliesMatch /\ BlocksTracked)'
<1>. DEFINE p == inbox[c].page
            Gets == inbox[c].op = "alloc" /\ inbox[c].ret = "ok"
<1>1. /\ ctl \in [Clients -> Points] /\ held \in [Clients -> SUBSET PageNumbers]
      /\ inbox \in [Clients -> ReplyMsgs] /\ bitmap \in [Servers -> SUBSET Blocks]
  BY Zenon DEF OwnerInv, BlockInv, TypeOK
<1>2. \A t \in Servers : \A m \in requests[t] \ {Exit} : m.source \in Clients \ {c}
  BY Zenon, RequestFacts
<1>3. Gets => /\ p[2] \in bitmap[p[1]] \ {0}
              /\ owners[p[1]][p[2]] = c
              /\ \A d \in Clients : p \notin held[d]
  BY Zenon DEF OwnerInv, RepliesMatch
<1>4. \A d \in Clients : \A q \in held'[d] : q \in held[d] \/ (Gets /\ d = c /\ q = p)
  BY Zenon, <1>1
<1>5. \A d \in Clients : held[d] \subseteq held'[d]
  BY Zenon, <1>1
<1>6. Gets => p \in held'[c]
  BY Zenon, <1>1
<1>7. \A d \in Clients \ {c} : held'[d] = held[d] /\ inbox'[d] = inbox[d] /\ ctl'[d] = ctl[d]
  BY Zenon, <1>1
<1>8. inbox'[c] = NoMsg
  BY Zenon, <1>1
<1>9. HeldPagesAreOwned'
  BY SMTT(60), <1>3, <1>4 DEF OwnerInv, HeldPagesAreOwned
<1>10. RequestsMatch'
  BY SMTT(60), <1>2, <1>7 DEF OwnerInv, RequestsMatch
<1>11. RepliesMatch'
  <2>. SUFFICES ASSUME NEW d \in Clients \ {c}, inbox[d] # NoMsg,
                       inbox[d].op = "alloc", inbox[d].ret = "ok"
                PROVE  \A e \in Clients : inbox[d].page \notin held'[e]
    BY SMTT(60), <1>7, <1>8 DEF OwnerInv, RepliesMatch
  <2>. DEFINE q == inbox[d].page
  <2>1. owners[q[1]][q[2]] = d /\ \A e \in Clients : q \notin held[e]
    BY Zenon DEF OwnerInv, RepliesMatch
  <2>. QED
    BY SMTT(60), <1>3, <1>4, <2>1
<1>12. BlocksTracked'
  <2>. SUFFICES ASSUME NEW t \in Servers, NEW b \in bitmap[t] \ {0}
                PROVE  LET d == owners[t][b] IN
                       /\ d \in Clients
                       /\ \/ <<t, b>> \in held'[d]
                          \/ inbox'[d] = Reply("alloc", "ok", <<t, b>>)
                          \/ Request("free", d, <<t, b>>) \in requests[t]
    BY ZenonT(60) DEF BlocksTracked
  <2>. DEFINE d == owners[t][b]
  <2>1. /\ d \in Clients
        /\ \/ <<t, b>> \in held[d]
           \/ inbox[d] = Reply("alloc", "ok", <<t, b>>)
           \/ Request("free", d, <<t, b>>) \in requests[t]
    BY Zenon DEF OwnerInv, BlocksTracked
  <2>2. CASE inbox[d] = Reply("alloc", "ok", <<t, b>>) /\ d = c
    <3>1. Gets /\ p = <<t, b>>
      BY SMTT(60), <2>2 DEF Reply
    <3>. QED
      BY Zenon, <1>6, <2>1, <2>2, <3>1
  <2>. QED
    BY Zenon, <1>5, <1>7, <2>1, <2>2
<1>. QED
  BY Zenon, <1>9, <1>10, <1>11, <1>12

\* A handler that changes no bitmap keeps the invariant: it answers the only
\* request of its client, and it refuses to free a block only if the client
\* is not the one it is registered to.
LEMMA AnswerStep ==
  ASSUME OwnerInv, NEW s \in Servers, NEW m \in requests[s], m # Exit,
         NEW r \in ReplyMsgs, NEW next \in Points,
         r # NoMsg,
         next \in {"alloc", "free", "ack", "read_reply", "portal_write", "write_reply"},
         r.op = "alloc" <=> next = "alloc",
         r.op = "alloc" => r.ret # "ok",
         m.op = "free" => FreeCode(s, RMEM_BLOCK_NUM(m.page), m.source) # "ok",
         requests' = [requests EXCEPT ![s] = @ \ {m}],
         inbox' = [inbox EXCEPT ![m.source] = r],
         ctl' = [ctl EXCEPT ![m.source] = next],
         UNCHANGED <<bitmap, owners, held>>
  PROVE  (HeldPagesAreOwned /\ RequestsMatch /\ RepliesMatch /\ BlocksTracked)'
<1>. DEFINE c == m.source
<1>1. /\ ctl \in [Clients -> Points] /\ inbox \in [Clients -> ReplyMsgs]
      /\ requests \in [Servers -> SUBSET RequestMsgs] /\ bitmap \in [Servers -> SUBSET Blocks]
  BY Zenon DEF OwnerInv, BlockInv, TypeOK
<1>2. c \in Clients /\ inbox[c] = NoMsg /\ m.page \in PageNumbers
  BY Zenon, RequestFacts
<1>3. \A t \in Servers : \A n \in requests'[t] \ {Exit} :
        n \in requests[t] /\ n.source \in Clients \ {c}
  BY ZenonT(60), OtherRequests
<1>4. \A d \in Clients \ {c} : inbox'[d] = inbox[d] /\ ctl'[d] = ctl[d]
  BY Zenon, <1>1
<1>5. inbox'[c] = r /\ ctl'[c] = next
  BY Zenon, <1>1, <1>2
<1>6. HeldPagesAreOwned'
  BY Zenon DEF OwnerInv, HeldPagesAreOwned
<1>7. RequestsMatch'
  BY SMTT(60), <1>3, <1>4 DEF OwnerInv, RequestsMatch
<1>8. RepliesMatch'
  BY SMTT(60), <1>4, <1>5 DEF OwnerInv, RepliesMatch
<1>9. BlocksTracked'
  <2>. SUFFICES ASSUME NEW t \in Servers, NEW b \in bitmap[t] \ {0}
                PROVE  LET d == owners[t][b] IN
                       /\ d \in Clients
                       /\ \/ <<t, b>> \in held[d]
                          \/ inbox'[d] = Reply("alloc", "ok", <<t, b>>)
                          \/ Request("free", d, <<t, b>>) \in requests'[t]
    BY ZenonT(30) DEF BlocksTracked
  <2>. DEFINE d == owners[t][b]
  <2>1. /\ d \in Clients
        /\ \/ <<t, b>> \in held[d]
           \/ inbox[d] = Reply("alloc", "ok", <<t, b>>)
           \/ Request("free", d, <<t, b>>) \in requests[t]
    BY Zenon DEF OwnerInv, BlocksTracked
  <2>2. inbox[d] = Reply("alloc", "ok", <<t, b>>) => d # c
    BY SMTT(60), <1>2 DEF Reply, NoMsg
  <2>3. CASE t = s /\ m = Request("free", d, <<t, b>>)
    <3>1. m.op = "free" /\ m.source = d /\ RMEM_BLOCK_NUM(m.page) = b
      BY ZenonT(30), <2>3 DEF Request, RMEM_BLOCK_NUM
    <3>2. b \in 0 .. RMEM_NUM_BLOCKS - 1
      BY Zenon, <1>1 DEF Blocks
    <3>3. nblocks[s] # 1
      <4>1. 0 \in bitmap[s] /\ b \in bitmap[s] /\ b # 0
        BY Zenon, <2>3 DEF OwnerInv, BlockInv, BlockAccounting
      <4>2. IsFiniteSet(bitmap[s]) /\ nblocks[s] = Cardinality(bitmap[s])
        BY Zenon, FreeBlockFound DEF OwnerInv, BlockInv, BlockAccounting
      <4>. QED
        BY SMTT(60), <4>1, <4>2, FS_Singleton
    <3>4. FreeCode(s, b, d) = "ok"
      BY SMTT(60), <2>3, <3>2, <3>3, RMemAssumption DEF FreeCode
    <3>. QED
      BY Zenon, <3>1, <3>4
  <2>4. CASE ~(t = s /\ m = Request("free", d, <<t, b>>))
    BY Zenon, <1>1, <1>4, <2>1, <2>2, <2>4
  <2>. QED
    BY Zenon, <2>3, <2>4
<1>. QED
  BY Zenon, <1>6, <1>7, <1>8, <1>9

\* do_rmem_alloc() keeps the invariant: the block that it hands out was
\* free, so nobody has it.
LEMMA AllocStep ==
  ASSUME OwnerInv, NEW s \in Servers, NEW m \in requests[s],
         do_rmem_alloc(s, m), nblocks[s] # RMEM_NUM_BLOCKS
  PROVE  (HeldPagesAreOwned /\ RequestsMatch /\ RepliesMatch /\ BlocksTracked)'
<1>. DEFINE c == m.source
            bit == bitmap_first_free(s)
            r == Reply("alloc", "ok", <<s, bit>>)
<1>1. /\ inbox \in [Clients -> ReplyMsgs] /\ requests \in [Servers -> SUBSET RequestMsgs]
      /\ bitmap \in [Servers -> SUBSET Blocks] /\ held \in [Clients -> SUBSET PageNumbers]
      /\ owners \in [Servers -> [Blocks -> Clients \cup {0}]]
  BY Zenon DEF OwnerInv, BlockInv, TypeOK
<1>2. m # Exit /\ m.op = "alloc"
  BY DEF do_rmem_alloc, Exit
<1>3. c \in Clients /\ inbox[c] = NoMsg /\ ctl[c] = "alloc"
  BY Zenon, <1>2, RequestFacts DEF WaitingAt
<1>4. bit \in Blocks /\ bit \notin bitmap[s] /\ bit # 0
  BY ZenonT(30), FreeBlockFound DEF OwnerInv, BlockInv, BlockAccounting
<1>5. /\ requests' = [requests EXCEPT ![s] = requests[s] \ {m}]
      /\ inbox' = [inbox EXCEPT ![c] = r]
      /\ bitmap' = [bitmap EXCEPT ![s] = bitmap[s] \cup {bit}]
      /\ owners' = [owners EXCEPT ![s] = [owners[s] EXCEPT ![bit] = c]]
      /\ ctl' = ctl /\ held' = held
  BY Zenon DEF do_rmem_alloc, Receive, Answer, clientvars, RMEM_BLOCK
<1>6. r # NoMsg /\ r.op = "alloc" /\ r.ret = "ok" /\ r.page = <<s, bit>>
  BY Zenon DEF Reply, NoMsg
<1>. HIDE DEF c, bit, r
<1>7. \A t \in Servers : \A n \in requests'[t] \ {Exit} :
        n \in requests[t] /\ n.source \in Clients \ {c}
  BY ZenonT(60), <1>2, <1>5, OtherRequests DEF c
<1>8. \A d \in Clients \ {c} : inbox'[d] = inbox[d]
  BY Zenon, <1>1, <1>5
<1>9. \A t \in Servers, b \in Blocks : <<t, b>> # <<s, bit>> =>
        owners'[t][b] = owners[t][b] /\ (b \in bitmap'[t] <=> b \in bitmap[t])
  BY Zenon, <1>1, <1>4, <1>5
<1>10. owners'[s][bit] = c /\ bit \in bitmap'[s] /\ inbox'[c] = r
  BY Zenon, <1>1, <1>3, <1>4, <1>5
<1>11. \A d \in Clients : <<s, bit>> \notin held[d]
  BY SMTT(60), <1>4 DEF OwnerInv, HeldPagesAreOwned
<1>12. \A q \in PageNumbers : q[1] \in Servers /\ q[2] \in Blocks /\ q = <<q[1], q[2]>>
  BY SMTT(60) DEF PageNumbers
<1>13. HeldPagesAreOwned'
  <2>. SUFFICES ASSUME NEW d \in Clients, NEW p \in held[d]
                PROVE  p[2] \in bitmap'[p[1]] \ {0} /\ owners'[p[1]][p[2]] = d
    BY Zenon, <1>5 DEF HeldPagesAreOwned
  <2>1. p[2] \in bitmap[p[1]] \ {0} /\ owners[p[1]][p[2]] = d /\ p \in PageNumbers
    BY Zenon, <1>1 DEF OwnerInv, HeldPagesAreOwned
  <2>. QED
    BY SMTT(60), <1>9, <1>11, <1>12, <2>1
<1>14. RequestsMatch'
  BY SMTT(60), <1>5, <1>7, <1>8 DEF OwnerInv, RequestsMatch
<1>15. RepliesMatch'
  <2>. SUFFICES ASSUME NEW d \in Clients, inbox'[d] # NoMsg
                PROVE  /\ ctl[d] \in {"alloc", "free", "ack", "read_reply", "portal_write", "write_reply"}
                       /\ inbox'[d].op = "alloc" <=> ctl[d] = "alloc"
                       /\ inbox'[d].op = "alloc" /\ inbox'[d].ret = "ok" =>
                            LET p == inbox'[d].page IN
                            /\ p[2] \in bitmap'[p[1]] \ {0}
                            /\ owners'[p[1]][p[2]] = d
                            /\ \A e \in Clients : p \notin held[e]
    BY SMTT(60), <1>5 DEF RepliesMatch
  <2>1. CASE d = c
    BY SMTT(60), <1>3, <1>4, <1>6, <1>10, <1>11, <2>1
  <2>2. CASE d # c
    <3>1. inbox[d].page \in PageNumbers
      BY Zenon, <1>1, <1>8, <2>2, MessageTypes
    <3>2. inbox[d].op = "alloc" /\ inbox[d].ret = "ok" => inbox[d].page # <<s, bit>>
      BY SMTT(60), <1>4, <1>8, <2>2 DEF OwnerInv, RepliesMatch
    <3>. QED
      BY SMTT(60), <1>8, <1>9, <1>12, <2>2, <3>1, <3>2 DEF OwnerInv, RepliesMatch
  <2>. QED
    BY Zenon, <2>1, <2>2
<1>16. BlocksTracked'
  <2>. SUFFICES ASSUME NEW t \in Servers, NEW b \in bitmap'[t] \ {0}
                PROVE  LET d == owners'[t][b] IN
                       /\ d \in Clients
                       /\ \/ <<t, b>> \in held[d]
                          \/ inbox'[d] = Reply("alloc", "ok", <<t, b>>)
                          \/ Request("free", d, <<t, b>>) \in requests'[t]
    BY Zenon, <1>5 DEF BlocksTracked
  <2>1. CASE t = s /\ b = bit
    BY ZenonT(30), <1>3, <1>10, <2>1 DEF r
  <2>2. CASE ~(t = s /\ b = bit)
    <3>. DEFINE d == owners[t][b]
    <3>1. b \in bitmap[t] /\ b \in Blocks /\ owners'[t][b] = d
      BY SMTT(60), <1>1, <1>4, <1>5, <1>9, <2>2
    <3>2. /\ d \in Clients
          /\ \/ <<t, b>> \in held[d]
             \/ inbox[d] = Reply("alloc", "ok", <<t, b>>)
             \/ Request("free", d, <<t, b>>) \in requests[t]
      BY Zenon, <3>1 DEF OwnerInv, BlocksTracked
    <3>3. inbox[d] = Reply("alloc", "ok", <<t, b>>) => d # c
      BY SMTT(60), <1>3 DEF Reply, NoMsg
    <3>4. Request("free", d, <<t, b>>) # m
      BY SMTT(60), <1>2 DEF Request
    <3>. QED
      BY SMTT(60), <1>1, <1>5, <1>8, <3>1, <3>2, <3>3, <3>4
  <2>. QED
    BY Zenon, <2>1, <2>2
<1>. QED
  BY Zenon, <1>13, <1>14, <1>15, <1>16

-----------------------------------------------------------------------------
(***************************************************************************)
(* Who has the blocks: the steps that it takes to give a page back, and    *)
(* the theorems.                                                           *)
(***************************************************************************)

\* do_rmem_free() keeps the invariant: the block that it takes back was
\* registered to the client that asked, and so in nobody else's hands.
LEMMA FreeStep ==
  ASSUME OwnerInv, NEW s \in Servers, NEW m \in requests[s], do_rmem_free(s, m),
         FreeCode(s, RMEM_BLOCK_NUM(m.page), m.source) = "ok"
  PROVE  (HeldPagesAreOwned /\ RequestsMatch /\ RepliesMatch /\ BlocksTracked)'
<1>. DEFINE c == m.source
            num == m.page[2]
            r == Reply("free", "ok", RMEM_NULL)
<1>1. /\ inbox \in [Clients -> ReplyMsgs] /\ requests \in [Servers -> SUBSET RequestMsgs]
      /\ bitmap \in [Servers -> SUBSET Blocks] /\ held \in [Clients -> SUBSET PageNumbers]
  BY Zenon DEF OwnerInv, BlockInv, TypeOK
<1>2. m # Exit /\ m.op = "free"
  BY SMTT(60) DEF do_rmem_free, Exit
<1>3. /\ c \in Clients /\ inbox[c] = NoMsg /\ ctl[c] = "free"
      /\ m.page \in PageNumbers /\ m.page[1] = s /\ m.page \notin held[c]
  BY ZenonT(60), <1>2, RequestFacts DEF WaitingAt, OwnerInv, RequestsMatch
<1>4. owners[s][num] = c
  BY Zenon DEF FreeCode, RMEM_BLOCK_NUM
<1>5. /\ requests' = [requests EXCEPT ![s] = requests[s] \ {m}]
      /\ inbox' = [inbox EXCEPT ![c] = r]
      /\ bitmap' = [bitmap EXCEPT ![s] = bitmap[s] \ {num}]
      /\ owners' = owners /\ ctl' = ctl /\ held' = held
  BY Zenon DEF do_rmem_free, Receive, Answer, clientvars, RMEM_BLOCK_NUM
<1>6. r # NoMsg /\ r.op = "free"
  BY Zenon DEF Reply, NoMsg
<1>7. \A q \in PageNumbers : q[1] \in Servers /\ q[2] \in Blocks /\ q = <<q[1], q[2]>>
  BY SMTT(60) DEF PageNumbers
<1>8. m.page = <<s, num>>
  BY Zenon, <1>3, <1>7
<1>. HIDE DEF c, num, r
<1>9. \A t \in Servers : \A n \in requests'[t] \ {Exit} :
        n \in requests[t] /\ n.source \in Clients \ {c}
  BY ZenonT(60), <1>2, <1>5, OtherRequests DEF c
<1>10. /\ \A d \in Clients \ {c} : inbox'[d] = inbox[d]
       /\ inbox'[c] = r
  BY Zenon, <1>1, <1>3, <1>5
<1>11. \A t \in Servers, b \in Blocks :
         (b \in bitmap'[t] <=> b \in bitmap[t] /\ <<t, b>> # <<s, num>>)
  BY Zenon, <1>1, <1>5
<1>12. HeldPagesAreOwned'
  <2>. SUFFICES ASSUME NEW d \in Clients, NEW p \in held[d]
                PROVE  p[2] \in bitmap'[p[1]] \ {0} /\ owners[p[1]][p[2]] = d
    BY Zenon, <1>5 DEF HeldPagesAreOwned
  <2>1. p[2] \in bitmap[p[1]] \ {0} /\ owners[p[1]][p[2]] = d /\ p \in PageNumbers
    BY Zenon, <1>1 DEF OwnerInv, HeldPagesAreOwned
  <2>2. p # <<s, num>>
    BY SMTT(60), <1>3, <1>4, <1>8, <2>1
  <2>. QED
    BY Zenon, <1>7, <1>11, <2>1, <2>2
<1>13. RequestsMatch'
  BY SMTT(60), <1>5, <1>9, <1>10 DEF OwnerInv, RequestsMatch
<1>14. RepliesMatch'
  <2>. SUFFICES ASSUME NEW d \in Clients, inbox'[d] # NoMsg
                PROVE  /\ ctl[d] \in {"alloc", "free", "ack", "read_reply", "portal_write", "write_reply"}
                       /\ inbox'[d].op = "alloc" <=> ctl[d] = "alloc"
                       /\ inbox'[d].op = "alloc" /\ inbox'[d].ret = "ok" =>
                            LET p == inbox'[d].page IN
                            /\ p[2] \in bitmap'[p[1]] \ {0}
                            /\ owners[p[1]][p[2]] = d
                            /\ \A e \in Clients : p \notin held[e]
    BY Zenon, <1>5 DEF RepliesMatch
  <2>1. CASE d = c
    BY Zenon, <1>3, <1>6, <1>10, <2>1
  <2>2. CASE d # c
    <3>1. inbox[d].page \in PageNumbers
      BY Zenon, <1>1, <1>10, <2>2, MessageTypes
    <3>2. inbox[d].op = "alloc" /\ inbox[d].ret = "ok" => inbox[d].page # <<s, num>>
      BY SMTT(60), <1>4, <1>10, <2>2 DEF OwnerInv, RepliesMatch
    <3>. QED
      BY SMTT(60), <1>7, <1>10, <1>11, <2>2, <3>1, <3>2 DEF OwnerInv, RepliesMatch
  <2>. QED
    BY Zenon, <2>1, <2>2
<1>15. BlocksTracked'
  <2>. SUFFICES ASSUME NEW t \in Servers, NEW b \in bitmap'[t] \ {0}
                PROVE  LET d == owners[t][b] IN
                       /\ d \in Clients
                       /\ \/ <<t, b>> \in held[d]
                          \/ inbox'[d] = Reply("alloc", "ok", <<t, b>>)
                          \/ Request("free", d, <<t, b>>) \in requests'[t]
    BY ZenonT(30), <1>5 DEF BlocksTracked
  <2>. DEFINE d == owners[t][b]
  <2>1. b \in bitmap[t] /\ <<t, b>> # <<s, num>>
    BY Zenon, <1>1, <1>5, <1>11
  <2>2. /\ d \in Clients
        /\ \/ <<t, b>> \in held[d]
           \/ inbox[d] = Reply("alloc", "ok", <<t, b>>)
           \/ Request("free", d, <<t, b>>) \in requests[t]
    BY ZenonT(60), <2>1 DEF OwnerInv, BlocksTracked
  <2>3. inbox[d] = Reply("alloc", "ok", <<t, b>>) => d # c
    <3>1. Reply("alloc", "ok", <<t, b>>).op = "alloc"
      BY Zenon DEF Reply
    <3>2. inbox[c].op = "none"
      BY SMTT(60), <1>3 DEF NoMsg
    <3>3. "alloc" # "none"
      BY Zenon
    <3>. QED
      BY ONLY SMTT(60), <3>1, <3>2, <3>3
  <2>4. Request("free", d, <<t, b>>) # m
    BY SMTT(60), <1>8, <2>1 DEF Request
  <2>. QED
    BY Zenon, <1>1, <1>5, <1>10, <2>2, <2>3, <2>4
<1>. QED
  BY Zenon, <1>12, <1>13, <1>14, <1>15

\* A step that takes no page, no answer to an allocation and no free request
\* away keeps every block tracked.
LEMMA TrackedStep ==
  ASSUME OwnerInv, UNCHANGED <<bitmap, owners, held>>,
         \A d \in Clients, p \in PageNumbers :
           inbox[d] = Reply("alloc", "ok", p) => inbox'[d] = inbox[d],
         \A t \in Servers, d \in Clients, p \in PageNumbers :
           Request("free", d, p) \in requests[t] => Request("free", d, p) \in requests'[t]
  PROVE  HeldPagesAreOwned' /\ BlocksTracked'
<1>1. HeldPagesAreOwned'
  BY Zenon DEF OwnerInv, HeldPagesAreOwned
<1>2. ASSUME NEW t \in Servers, NEW b \in bitmap[t] \ {0}
      PROVE  LET d == owners[t][b] IN
             /\ d \in Clients
             /\ \/ <<t, b>> \in held[d]
                \/ inbox'[d] = Reply("alloc", "ok", <<t, b>>)
                \/ Request("free", d, <<t, b>>) \in requests'[t]
  <2>1. <<t, b>> \in PageNumbers
    BY Zenon DEF OwnerInv, BlockInv, TypeOK, PageNumbers
  <2>2. LET d == owners[t][b] IN
        /\ d \in Clients
        /\ \/ <<t, b>> \in held[d]
           \/ inbox[d] = Reply("alloc", "ok", <<t, b>>)
           \/ Request("free", d, <<t, b>>) \in requests[t]
    BY Zenon DEF OwnerInv, BlocksTracked
  <2>. QED
    BY Zenon, <2>1, <2>2
<1>. QED
  BY Zenon, <1>1, <1>2 DEF BlocksTracked

\* Every step of the clients and of the servers keeps the invariant.
LEMMA OwnerStep ==
  ASSUME OwnerInv, [Next]_vars
  PROVE  (HeldPagesAreOwned /\ RequestsMatch /\ RepliesMatch /\ BlocksTracked)'
<1>. DEFINE Goal == (HeldPagesAreOwned /\ RequestsMatch /\ RepliesMatch /\ BlocksTracked)'
<1>. USE DEF servervars, clientvars
<1>1. ASSUME UNCHANGED <<bitmap, owners, requests, ctl, inbox, held>>
      PROVE  Goal
  <2>1. RequestsMatch'
    BY SMTT(60), <1>1 DEF OwnerInv, RequestsMatch
  <2>2. RepliesMatch'
    BY Zenon, <1>1 DEF OwnerInv, RepliesMatch
  <2>. QED
    BY Zenon, <1>1, <2>1, <2>2, TrackedStep
<1>. HIDE DEF Goal
<1>2. ASSUME NEW c \in Clients, ClientCall(c)
      PROVE  Goal
  <2>0. /\ Pages \subseteq PageNumbers /\ RMEM_NULL \in PageNumbers
        /\ nallocs[c] \in Servers
        /\ \A p \in PageNumbers : RMEM_BLOCK_SERVER(p) \in Servers /\ RMEM_BLOCK_SERVER(p) = p[1]
    BY Zenon, RMemAssumption, MessageTypes DEF PageNumbers, RMEM_BLOCK_SERVER, OwnerInv, BlockInv, TypeOK
  <2>1. CASE Setup(c) \/ Cleanup(c)
    BY Zenon, <1>1, <2>1 DEF Setup, Cleanup
  <2>2. CASE AllocCall(c)
    BY Zenon, <2>0, <2>2, SendStep DEF AllocCall, WaitingAt, Goal
  <2>3. ASSUME NEW p \in Pages, FreeCall(c, p)
        PROVE  Goal
    BY ZenonT(30), <2>0, <2>3, SendStep DEF FreeCall, WaitingAt, Goal
  <2>4. ASSUME NEW p \in Pages, ReadCall(c, p)
        PROVE  Goal
    BY Zenon, <2>0, <2>4, SendStep DEF ReadCall, WaitingAt, Goal
  <2>5. ASSUME NEW p \in Pages, NEW v \in Values, WriteCall(c, p, v)
        PROVE  Goal
    BY Zenon, <2>0, <2>5, SendStep DEF WriteCall, WaitingAt, Goal
  <2>6. CASE Shutdown(c)
    <3>1. \A s \in Servers : requests[s] \subseteq {Exit}
      BY Zenon, <2>6, RequestFacts DEF Shutdown
    <3>2. \A d \in Clients : inbox[d] = NoMsg
      BY Zenon, <2>6 DEF Shutdown, OwnerInv, RepliesMatch
    <3>3. /\ \A s \in Servers : requests'[s] = requests[s] \cup {Exit}
          /\ UNCHANGED <<bitmap, owners, inbox, held>>
      BY Zenon, <2>6 DEF Shutdown
    <3>4. RequestsMatch' /\ RepliesMatch'
      BY SMTT(60), <3>1, <3>2, <3>3 DEF RequestsMatch, RepliesMatch
    <3>5. HeldPagesAreOwned' /\ BlocksTracked'
      BY Zenon, <3>3, TrackedStep
    <3>. QED
      BY Zenon, <3>4, <3>5 DEF Goal
  <2>. QED
    BY Zenon, <1>2, <2>1, <2>2, <2>3, <2>4, <2>5, <2>6 DEF ClientCall
<1>3. ASSUME NEW c \in Clients, ClientReturn(c)
      PROVE  Goal
  <2>1. inbox[c] # NoMsg => (inbox[c].op = "alloc" <=> ctl[c] = "alloc")
    BY Zenon DEF OwnerInv, RepliesMatch
  <2>2. CASE AllocReturn(c)
    BY ZenonT(30), <2>1, <2>2, ReceiveStep DEF AllocReturn, Points, Goal
  <2>3. CASE Return(c)
    BY ZenonT(30), <2>1, <2>3, ReceiveStep DEF Return, Points, Goal
  <2>4. CASE ReadAck(c)
    BY ZenonT(30), <2>1, <2>4, ReceiveStep DEF ReadAck, Points, Goal
  <2>5. CASE WriteReturn(c)
    BY ZenonT(30), <2>1, <2>5, ReceiveStep DEF WriteReturn, Points, Goal
  <2>. QED
    BY Zenon, <1>3, <2>2, <2>3, <2>4, <2>5 DEF ClientReturn
<1>4. ASSUME NEW s \in Servers, NEW m \in requests[s], Handle(s, m)
      PROVE  Goal
  <2>1. m # Exit
    BY SMTT(60), <1>4 DEF Handle, do_rmem_alloc, do_rmem_free, do_rmem_write_invalid, do_rmem_write,
       do_rmem_read_invalid, do_rmem_read, Exit
  <2>2. m.source \in Clients /\ ctl[m.source] = WaitingAt(m.op) /\ RMEM_NULL \in PageNumbers
    BY ZenonT(30), <2>1, RequestFacts, MessageTypes
  <2>3. ctl = [ctl EXCEPT ![m.source] = ctl[m.source]]
    BY Zenon DEF OwnerInv, BlockInv, TypeOK
  <2>4. \A op \in {"alloc", "free", "read", "write", "ack"}, ret \in Codes :
          LET r == Reply(op, ret, RMEM_NULL) IN
          r \in ReplyMsgs /\ r # NoMsg /\ r.op = op /\ r.ret = ret
    BY ZenonT(30), <2>2, MessageTypes DEF Reply, NoMsg
  <2>5. CASE do_rmem_alloc(s, m)
    <3>1. CASE nblocks[s] = RMEM_NUM_BLOCKS
      <4>1. /\ requests' = [requests EXCEPT ![s] = @ \ {m}]
            /\ inbox' = [inbox EXCEPT ![m.source] = Reply("alloc", "ENOMEM", RMEM_NULL)]
            /\ ctl' = [ctl EXCEPT ![m.source] = "alloc"]
            /\ UNCHANGED <<bitmap, owners, held>> /\ m.op = "alloc"
        BY Zenon, <2>2, <2>3, <2>5, <3>1 DEF do_rmem_alloc, Receive, Answer, WaitingAt
      <4>. QED
        BY ZenonT(30), <2>1, <2>4, <4>1, AnswerStep DEF Codes, Points, Goal
    <3>2. CASE nblocks[s] # RMEM_NUM_BLOCKS
      BY ZenonT(30), <2>5, <3>2, AllocStep DEF Goal
    <3>. QED
      BY Zenon, <3>1, <3>2
  <2>6. CASE do_rmem_free(s, m)
    <3>. DEFINE ret == FreeCode(s, RMEM_BLOCK_NUM(m.page), m.source)
    <3>1. CASE ret = "ok"
      BY Zenon, <2>6, <3>1, FreeStep DEF Goal
    <3>2. CASE ret # "ok"
      <4>1. ret \in Codes
        BY Zenon DEF FreeCode, Codes
      <4>. HIDE DEF ret
      <4>. QED
        <5>1. /\ requests' = [requests EXCEPT ![s] = @ \ {m}]
              /\ inbox' = [inbox EXCEPT ![m.source] = Reply("free", ret, RMEM_NULL)]
              /\ ctl' = [ctl EXCEPT ![m.source] = "free"]
              /\ UNCHANGED <<bitmap, owners, held>>
          BY Zenon, <2>2, <2>3, <2>6, <3>2 DEF do_rmem_free, Receive, Answer, WaitingAt, ret
        <5>2. LET r == Reply("free", ret, RMEM_NULL) IN
              r \in ReplyMsgs /\ r # NoMsg /\ r.op = "free"
          BY Zenon, <2>4, <4>1
        <5>3. FreeCode(s, RMEM_BLOCK_NUM(m.page), m.source) # "ok"
          BY Zenon, <3>2 DEF ret
        <5>. QED
          BY ZenonT(30), <2>1, <5>1, <5>2, <5>3, AnswerStep DEF Points, Goal
    <3>. QED
      BY Zenon, <3>1, <3>2
  <2>7. CASE do_rmem_write_invalid(s, m)
    <3>1. /\ requests' = [requests EXCEPT ![s] = @ \ {m}]
          /\ inbox' = [inbox EXCEPT ![m.source] = Reply("write", "EINVAL", RMEM_NULL)]
          /\ ctl' = [ctl EXCEPT ![m.source] = "portal_write"]
          /\ UNCHANGED <<bitmap, owners, held>> /\ m.op = "write"
      BY Zenon, <2>2, <2>3, <2>7 DEF do_rmem_write_invalid, Receive, Answer, WaitingAt
    <3>. QED
      BY ZenonT(30), <2>1, <2>4, <3>1, AnswerStep DEF Codes, Points, Goal
  <2>8. CASE do_rmem_write(s, m)
    BY ZenonT(30), <2>1, <2>2, <2>3, <2>4, <2>8, AnswerStep
    DEF do_rmem_write, Receive, Answer, WaitingAt, Codes, Points, Goal
  <2>9. CASE do_rmem_read_invalid(s, m)
    BY ZenonT(60), <2>1, <2>2, <2>3, <2>4, <2>9, AnswerStep
    DEF do_rmem_read_invalid, Receive, Answer, WaitingAt, Codes, Points, Goal
  <2>10. CASE do_rmem_read(s, m)
    BY ZenonT(60), <2>1, <2>2, <2>3, <2>4, <2>10, AnswerStep
    DEF do_rmem_read, Receive, Answer, WaitingAt, Codes, Points, Goal
  <2>. QED
    BY SMTT(60), <1>4, <2>5, <2>6, <2>7, <2>8, <2>9, <2>10 DEF Handle
<1>5. ASSUME NEW s \in Servers, do_rmem_read_data(s)
      PROVE  Goal
  <2>. DEFINE c == srv[s].client
  <2>1. /\ c \in Clients /\ srv[s].ret \in Codes
        /\ ctl \in [Clients -> Points] /\ inbox \in [Clients -> ReplyMsgs]
    BY ZenonT(30), <1>5, MessageTypes DEF do_rmem_read_data, OwnerInv, BlockInv, TypeOK
  <2>2. ctl[c] = "portal_read" /\ inbox[c] = NoMsg
    BY ZenonT(60), <1>5, <2>1 DEF do_rmem_read_data, OwnerInv, RepliesMatch
  <2>3. \A t \in Servers : \A m \in requests[t] \ {Exit} : m.source \in Clients \ {c}
    BY Zenon, <2>2, RequestFacts
  <2>4. /\ ctl' = [ctl EXCEPT ![c] = "read_reply"]
        /\ inbox' = [inbox EXCEPT ![c] = Reply("read", srv[s].ret, RMEM_NULL)]
        /\ UNCHANGED <<bitmap, owners, requests, held>>
    BY Zenon, <1>5 DEF do_rmem_read_data, Answer
  <2>5. /\ Reply("read", srv[s].ret, RMEM_NULL).op = "read"
        /\ \A p : inbox[c] # Reply("alloc", "ok", p)
    BY SMTT(60), <2>2 DEF Reply, NoMsg
  <2>. HIDE DEF c
  <2>6. RequestsMatch'
    <3>1. \A d \in Clients \ {c} : ctl'[d] = ctl[d] /\ inbox'[d] = inbox[d]
      BY Zenon, <2>1, <2>4
    <3>2. \A t \in Servers : \A m \in requests[t] \ {Exit} :
            ctl'[m.source] = ctl[m.source] /\ inbox'[m.source] = inbox[m.source]
      BY ZenonT(60), Zenon, <2>3, <3>1
    <3>3. requests' = requests /\ held' = held
      BY Zenon, <2>4
    <3>4. RequestsMatch
      BY Zenon DEF OwnerInv
    <3>. SUFFICES ASSUME NEW t \in Servers, NEW m \in requests[t] \ {Exit}
                  PROVE  /\ ctl'[m.source] = WaitingAt(m.op)
                         /\ inbox'[m.source] = NoMsg
                         /\ m.op # "alloc" => m.page[1] = t
                         /\ m.op = "free" => m.page \notin held[m.source]
                         /\ \A u \in Servers : \A n \in requests[u] \ {Exit} :
                              n.source = m.source => u = t /\ n = m
      BY <3>3 DEF RequestsMatch
    <3>5. ctl'[m.source] = WaitingAt(m.op) /\ inbox'[m.source] = NoMsg
      BY ZenonT(60), Zenon, <3>2, <3>4 DEF RequestsMatch
    <3>. QED
      BY ONLY ZenonT(60), <3>4, <3>5, t \in Servers, m \in requests[t] \ {Exit} DEF RequestsMatch
  <2>7. RepliesMatch'
    BY ZenonT(30), <2>1, <2>4, <2>5 DEF OwnerInv, RepliesMatch
  <2>8. HeldPagesAreOwned' /\ BlocksTracked'
    BY ZenonT(30), <2>1, <2>4, <2>5, TrackedStep
  <2>. QED
    BY Zenon, <2>6, <2>7, <2>8 DEF Goal
<1>6. ASSUME NEW s \in Servers, do_rmem_exit(s)
      PROVE  Goal
  <2>1. /\ requests' = [requests EXCEPT ![s] = requests[s] \ {Exit}]
        /\ UNCHANGED <<bitmap, owners, ctl, inbox, held>>
    BY Zenon, <1>6 DEF do_rmem_exit, Receive
  <2>2. \A t \in Servers : requests'[t] \ {Exit} = requests[t] \ {Exit}
    BY Zenon, <2>1 DEF OwnerInv, BlockInv, TypeOK
  <2>3. \A d, p : Request("free", d, p) # Exit
    BY Zenon DEF Request, Exit
  <2>4. RequestsMatch'
    BY ZenonT(60), <2>1, <2>2 DEF OwnerInv, RequestsMatch
  <2>5. RepliesMatch'
    BY ZenonT(30), <2>1 DEF OwnerInv, RepliesMatch
  <2>6. HeldPagesAreOwned' /\ BlocksTracked'
    BY Zenon, <2>1, <2>2, <2>3, TrackedStep
  <2>. QED
    BY Zenon, <2>4, <2>5, <2>6 DEF Goal
<1>7. CASE UNCHANGED vars
  BY Zenon, <1>1, <1>7 DEF vars, Goal
<1>. QED
  BY Zenon, <1>2, <1>3, <1>4, <1>5, <1>6, <1>7 DEF Next, Terminated, ServerStep, Goal

\* At the start no block is handed out and no message is on its way.
LEMMA OwnerInit ==
  ASSUME Init
  PROVE  OwnerInv
<1>1. BlockInv
  BY Zenon, BlockInit
<1>2. HeldPagesAreOwned /\ RequestsMatch /\ RepliesMatch /\ BlocksTracked
  BY ZenonT(30) DEF Init, HeldPagesAreOwned, RequestsMatch, RepliesMatch, BlocksTracked
<1>. QED
  BY Zenon, <1>1, <1>2 DEF OwnerInv

\* Blocks are neither shared nor lost, for any number of clients and servers
\* and whatever page numbers the clients pass: a page that a client holds is
\* allocated and registered to it, and every allocated block is in the hands
\* of a client, or on its way to or from one.
THEOREM BlocksOwned == Spec => [](HeldPagesAreOwned /\ NoLeakedBlock)
<1>1. Init => OwnerInv
  BY Zenon, OwnerInit
<1>2. OwnerInv /\ [Next]_vars => OwnerInv'
  BY Zenon, TypeStep, BlockStep, OwnerStep DEF OwnerInv, BlockInv
<1>3. OwnerInv => HeldPagesAreOwned /\ NoLeakedBlock
  BY ZenonT(30) DEF OwnerInv, BlocksTracked, NoLeakedBlock
<1>. QED
  BY <1>1, <1>2, <1>3, PTL DEF Spec

-----------------------------------------------------------------------------
(***************************************************************************)
(* What a client reads: the inductive invariant.                           *)
(***************************************************************************)

\* The contents that the holder of a page put there: what a write that the
\* server carried out and the stub did not return from yet stored, or else
\* what the last call that returned left.
Stored(c, p) == IF ctl[c] = "write_reply" /\ page[c] = p THEN buf[c] ELSE view[p]

\* Client c reads and writes pages that it holds, or strays.  The blocks of
\* the pages it holds have the contents it stored there, a page that is on
\* its way to it is clean, and a read or a write of a page that only it may
\* name succeeds.
ClientData(c) ==
  /\ ctl[c] \in {"ack", "portal_read", "read_reply", "portal_write", "write_reply"} =>
       page[c] \in held[c] \cup Strays
  /\ \A p \in held[c] \ Strays : blocks[p[1]][p[2]] = Stored(c, p)
  /\ inbox[c].op = "alloc" /\ inbox[c].ret = "ok" /\ inbox[c].page \notin Strays =>
       LET p == inbox[c].page IN blocks[p[1]][p[2]] = Zero
  /\ ctl[c] = "write_reply" /\ page[c] \notin Strays => inbox[c].ret = "ok"
  /\ ctl[c] = "read_reply" /\ page[c] \notin Strays =>
       inbox[c].ret = "ok" /\ buf[c] = view[page[c]]

\* A request to read or to write is about the page of its client's call.
RequestsName(s) ==
  \A m \in requests[s] \ {Exit} : m.op \in {"read", "write"} => m.page = page[m.source]

\* A server that sends a block sends the one its client asked for, and the
\* client waits for it or has the acknowledge in its mailbox.
PortalMatches(s) ==
  srv[s].pc = "portal" =>
    LET c == srv[s].client IN
    /\ ctl[c] \in {"ack", "portal_read"}
    /\ ctl[c] = "ack" => inbox[c].op = "ack"
    /\ page[c][1] = s
    /\ page[c] \notin Strays => srv[s].block = page[c][2] /\ srv[s].ret = "ok"

DataMatch ==
  /\ \A c \in Clients : ClientData(c)
  /\ \A s \in Servers : RequestsName(s) /\ PortalMatches(s)

\* The inductive invariant.
DataInv == OwnerInv /\ DataMatch

\* Client d holds page p, or is about to get it.
Has(d, p) ==
  p \in held[d] \/ (inbox[d].op = "alloc" /\ inbox[d].ret = "ok" /\ inbox[d].page = p)

-----------------------------------------------------------------------------
\* A page that a client has is allocated and registered to that client.
LEMMA HasOne ==
  ASSUME OwnerInv, NEW d \in Clients, NEW p, Has(d, p)
  PROVE  /\ p \in PageNumbers /\ p = <<p[1], p[2]>>
         /\ p[1] \in Servers /\ p[2] \in Blocks
         /\ p[2] \in bitmap[p[1]] \ {0}
         /\ owners[p[1]][p[2]] = d
<1>1. /\ held \in [Clients -> SUBSET PageNumbers] /\ inbox \in [Clients -> ReplyMsgs]
  BY Zenon DEF OwnerInv, BlockInv, TypeOK
<1>2. inbox[d].op = "alloc" => inbox[d] # NoMsg
  BY DEF NoMsg
<1>3. p \in PageNumbers
  BY Zenon, <1>1, <1>2, MessageTypes DEF Has
<1>4. p[2] \in bitmap[p[1]] \ {0} /\ owners[p[1]][p[2]] = d
  BY Zenon, <1>2 DEF Has, OwnerInv, HeldPagesAreOwned, RepliesMatch
<1>. QED
  BY SMT, <1>3, <1>4 DEF PageNumbers

\* A step that leaves a client alone, and the pages that it has, keeps what
\* the invariant says of it.
LEMMA OtherData ==
  ASSUME NEW d \in Clients, ClientData(d),
         ctl'[d] = ctl[d], page'[d] = page[d], buf'[d] = buf[d], inbox'[d] = inbox[d],
         held'[d] = held[d],
         \A p \in PageNumbers \ Strays : Has(d, p) =>
           view'[p] = view[p] /\ blocks'[p[1]][p[2]] = blocks[p[1]][p[2]],
         OwnerInv
  PROVE  ClientData(d)'
<1>. SUFFICES
       /\ ctl[d] \in {"ack", "portal_read", "read_reply", "portal_write", "write_reply"} =>
            page[d] \in held[d] \cup Strays
       /\ \A p \in held[d] \ Strays : blocks'[p[1]][p[2]] =
            IF ctl[d] = "write_reply" /\ page[d] = p THEN buf[d] ELSE view'[p]
       /\ inbox[d].op = "alloc" /\ inbox[d].ret = "ok" /\ inbox[d].page \notin Strays =>
            LET p == inbox[d].page IN blocks'[p[1]][p[2]] = Zero
       /\ ctl[d] = "write_reply" /\ page[d] \notin Strays => inbox[d].ret = "ok"
       /\ ctl[d] = "read_reply" /\ page[d] \notin Strays =>
            inbox[d].ret = "ok" /\ buf[d] = view'[page[d]]
  BY SMTT(30) DEF ClientData, Stored
<1>1. \A p : Has(d, p) => p \in PageNumbers
  BY Zenon, HasOne
<1>2. \A p \in held[d] \ Strays :
        view'[p] = view[p] /\ blocks'[p[1]][p[2]] = blocks[p[1]][p[2]]
  BY Zenon, <1>1 DEF Has
<1>3. inbox[d].op = "alloc" /\ inbox[d].ret = "ok" /\ inbox[d].page \notin Strays =>
        LET p == inbox[d].page IN blocks'[p[1]][p[2]] = blocks[p[1]][p[2]]
  BY Zenon, <1>1 DEF Has
<1>. QED
  BY ZenonT(40), <1>2, <1>3 DEF ClientData, Stored

\* A stub that sends a request keeps the invariant: its caller was idle, and
\* it names a page that it holds or a stray.
LEMMA SendData ==
  ASSUME DataInv, NEW c \in Clients, NEW s \in Servers, NEW p \in PageNumbers,
         NEW op \in {"alloc", "free", "read", "write"},
         Send(c, s, op, p, WaitingAt(op)),
         op \in {"read", "write"} => p \in held'[c] \cup Strays,
         held'[c] \subseteq held[c],
         \A d \in Clients \ {c} : held'[d] = held[d] /\ buf'[d] = buf[d],
         UNCHANGED <<blocks, srv, inbox, view>>
  PROVE  DataMatch'
<1>. DEFINE r == Request(op, c, p)
<1>1. /\ ctl \in [Clients -> Points] /\ page \in [Clients -> PageNumbers]
      /\ requests \in [Servers -> SUBSET RequestMsgs]
      /\ srv \in [Servers -> ServerStates]
  BY Zenon DEF DataInv, OwnerInv, BlockInv, TypeOK
<1>2. /\ ctl[c] = "idle" /\ ctl' = [ctl EXCEPT ![c] = WaitingAt(op)]
      /\ page' = [page EXCEPT ![c] = p]
      /\ requests' = [requests EXCEPT ![s] = requests[s] \cup {r}]
  BY Zenon DEF Send
<1>3. inbox[c] = NoMsg
  BY Zenon, <1>2 DEF DataInv, OwnerInv, RepliesMatch
<1>4. \A t \in Servers : \A m \in requests[t] \ {Exit} : m.source \in Clients \ {c}
  BY Zenon, <1>2, RequestFacts DEF DataInv
<1>5. r.op = op /\ r.source = c /\ r.page = p
  BY Zenon DEF Request
<1>6. /\ ctl'[c] = WaitingAt(op) /\ page'[c] = p
      /\ \A d \in Clients \ {c} : ctl'[d] = ctl[d] /\ page'[d] = page[d]
  BY Zenon, <1>1, <1>2
<1>. HIDE DEF r
<1>7. ASSUME NEW d \in Clients PROVE ClientData(d)'
  <2>1. CASE d # c
    BY Zenon, <1>6, <2>1, OtherData DEF DataInv, DataMatch
  <2>2. CASE d = c
    <3>1. NoMsg.op # "alloc"
      BY DEF NoMsg
    <3>2. WaitingAt(op) \in {"alloc", "free", "ack", "portal_write"}
      BY Zenon DEF WaitingAt
    <3>3. WaitingAt(op) \in {"ack", "portal_write"} => op \in {"read", "write"}
      BY DEF WaitingAt
    <3>4. \A q \in held[c] \ Strays : blocks[q[1]][q[2]] = view[q]
      BY SMT, <1>2 DEF DataInv, DataMatch, ClientData, Stored
    <3>. QED
      BY SMT, <1>3, <1>6, <2>2, <3>1, <3>2, <3>3, <3>4 DEF ClientData, Stored
  <2>. QED
    BY Zenon, <2>1, <2>2
<1>8. ASSUME NEW t \in Servers PROVE RequestsName(t)'
  <2>. SUFFICES ASSUME NEW m \in requests'[t] \ {Exit}, m.op \in {"read", "write"}
                PROVE  m.page = page'[m.source]
    BY Zenon DEF RequestsName
  <2>1. m \in requests[t] \/ m = r
    BY Zenon, <1>1, <1>2
  <2>2. CASE m \in requests[t]
    BY ZenonT(40), <1>4, <1>6, <2>2 DEF DataInv, DataMatch, RequestsName
  <2>. QED
    BY Zenon, <1>5, <1>6, <2>1, <2>2
<1>9. ASSUME NEW t \in Servers PROVE PortalMatches(t)'
  <2>. SUFFICES ASSUME srv[t].pc = "portal" PROVE PortalMatches(t)'
    BY Zenon DEF PortalMatches
  <2>1. srv[t].client \in Clients
    BY Zenon, <1>1, MessageTypes
  <2>2. PortalMatches(t)
    BY Zenon DEF DataInv, DataMatch
  <2>3. srv[t].client # c
    BY Zenon, <1>2, <2>2 DEF PortalMatches
  <2>. QED
    BY SMT, <1>6, <2>1, <2>2, <2>3 DEF PortalMatches
<1>. QED
  BY Zenon, <1>7, <1>8, <1>9 DEF DataMatch

\* A stub that receives an answer, other than to an allocation or to a
\* write, keeps the invariant.
LEMMA ReceiveData ==
  ASSUME DataInv, NEW c \in Clients, NEW next,
         inbox[c] # NoMsg,
         inbox' = [inbox EXCEPT ![c] = NoMsg],
         ctl' = [ctl EXCEPT ![c] = next],
         \/ ctl[c] \in {"free", "read_reply"} /\ next = "idle"
         \/ ctl[c] = "ack" /\ next = IF inbox[c].op = "ack" THEN "portal_read" ELSE "panic",
         UNCHANGED <<blocks, srv, requests, page, buf, held, view>>
  PROVE  DataMatch'
<1>1. /\ ctl \in [Clients -> Points] /\ inbox \in [Clients -> ReplyMsgs]
      /\ srv \in [Servers -> ServerStates]
  BY Zenon DEF DataInv, OwnerInv, BlockInv, TypeOK
<1>2. /\ ctl'[c] = next /\ inbox'[c] = NoMsg
      /\ \A d \in Clients \ {c} : ctl'[d] = ctl[d] /\ inbox'[d] = inbox[d]
  BY Zenon, <1>1
<1>3. ASSUME NEW d \in Clients PROVE ClientData(d)'
  <2>1. CASE d # c
    BY Zenon, <1>2, <2>1, OtherData DEF DataInv, DataMatch
  <2>2. CASE d = c
    <3>1. NoMsg.op # "alloc"
      BY DEF NoMsg
    <3>2. ClientData(c)
      BY Zenon DEF DataInv, DataMatch
    <3>. QED
      BY SMT, <1>2, <2>2, <3>1, <3>2 DEF ClientData, Stored
  <2>. QED
    BY Zenon, <2>1, <2>2
<1>4. ASSUME NEW t \in Servers PROVE RequestsName(t)'
  BY Zenon DEF DataInv, DataMatch, RequestsName
<1>5. ASSUME NEW t \in Servers PROVE PortalMatches(t)'
  <2>. SUFFICES ASSUME srv[t].pc = "portal" PROVE PortalMatches(t)'
    BY Zenon DEF PortalMatches
  <2>1. srv[t].client \in Clients
    BY Zenon, <1>1, MessageTypes
  <2>2. PortalMatches(t)
    BY Zenon DEF DataInv, DataMatch
  <2>. QED
    BY SMT, <1>2, <2>1, <2>2 DEF PortalMatches
<1>. QED
  BY Zenon, <1>3, <1>4, <1>5 DEF DataMatch

\* nanvix_rmem_write() keeps the invariant when it returns: what the server
\* stored is now what the caller last wrote.
LEMMA WriteReturnData ==
  ASSUME DataInv, NEW c \in Clients, WriteReturn(c)
  PROVE  DataMatch'
<1>1. /\ ctl \in [Clients -> Points] /\ inbox \in [Clients -> ReplyMsgs]
      /\ srv \in [Servers -> ServerStates] /\ view \in [PageNumbers -> Values]
      /\ page \in [Clients -> PageNumbers]
  BY Zenon DEF DataInv, OwnerInv, BlockInv, TypeOK
<1>2. /\ ctl[c] = "write_reply"
      /\ view' = [view EXCEPT ![page[c]] = IF inbox[c].ret = "ok" THEN buf[c] ELSE view[page[c]]]
      /\ ctl' = [ctl EXCEPT ![c] = "idle"] /\ inbox' = [inbox EXCEPT ![c] = NoMsg]
      /\ UNCHANGED <<blocks, srv, requests, page, buf, held>>
  BY Zenon DEF WriteReturn, servervars
<1>3. /\ ctl'[c] = "idle" /\ inbox'[c] = NoMsg
      /\ \A d \in Clients \ {c} : ctl'[d] = ctl[d] /\ inbox'[d] = inbox[d]
  BY Zenon, <1>1, <1>2
<1>4. /\ \A p \in PageNumbers : p # page[c] => view'[p] = view[p]
      /\ view'[page[c]] = IF inbox[c].ret = "ok" THEN buf[c] ELSE view[page[c]]
  BY Zenon, <1>1, <1>2
<1>5. ClientData(c)
  BY Zenon DEF DataInv, DataMatch
<1>6. page[c] \notin Strays => page[c] \in held[c] /\ inbox[c].ret = "ok"
  BY Zenon, <1>2, <1>5 DEF ClientData
<1>7. ASSUME NEW d \in Clients PROVE ClientData(d)'
  <2>1. CASE d # c
    <3>1. \A p \in PageNumbers \ Strays : Has(d, p) => p # page[c]
      <4>. SUFFICES ASSUME page[c] \notin Strays, Has(d, page[c]) PROVE FALSE
        BY Zenon
      <4>1. Has(c, page[c])
        BY Zenon, <1>6 DEF Has
      <4>2. owners[page[c][1]][page[c][2]] = c
        BY Zenon, <4>1, HasOne DEF DataInv
      <4>3. owners[page[c][1]][page[c][2]] = d
        BY Zenon, HasOne DEF DataInv
      <4>. QED
        BY Zenon, <2>1, <4>2, <4>3
    <3>2. \A p \in PageNumbers \ Strays : Has(d, p) =>
            view'[p] = view[p] /\ blocks'[p[1]][p[2]] = blocks[p[1]][p[2]]
      BY Zenon, <1>2, <1>4, <3>1
    <3>. QED
      BY Zenon, <1>2, <1>3, <2>1, <3>2, OtherData DEF DataInv, DataMatch
  <2>2. CASE d = c
    <3>1. NoMsg.op # "alloc"
      BY DEF NoMsg
    <3>2. \A p \in held[c] \ Strays : blocks[p[1]][p[2]] = view'[p]
      <4>. SUFFICES ASSUME NEW p \in held[c] \ Strays
                    PROVE  blocks[p[1]][p[2]] = view'[p]
        BY Zenon
      <4>1. p \in PageNumbers
        BY Zenon, HasOne DEF Has, DataInv
      <4>2. blocks[p[1]][p[2]] = IF page[c] = p THEN buf[c] ELSE view[p]
        BY Zenon, <1>2, <1>5 DEF ClientData, Stored
      <4>. QED
        BY Zenon, <1>4, <1>6, <4>1, <4>2
    <3>. QED
      BY SMT, <1>2, <1>3, <2>2, <3>1, <3>2 DEF ClientData, Stored
  <2>. QED
    BY Zenon, <2>1, <2>2
<1>8. ASSUME NEW t \in Servers PROVE RequestsName(t)'
  BY Zenon, <1>2 DEF DataInv, DataMatch, RequestsName
<1>9. ASSUME NEW t \in Servers PROVE PortalMatches(t)'
  <2>. SUFFICES ASSUME srv[t].pc = "portal" PROVE PortalMatches(t)'
    BY Zenon, <1>2 DEF PortalMatches
  <2>1. srv[t].client \in Clients
    BY Zenon, <1>1, MessageTypes
  <2>2. PortalMatches(t)
    BY Zenon DEF DataInv, DataMatch
  <2>. QED
    BY SMT, <1>2, <1>3, <2>1, <2>2 DEF PortalMatches
<1>. QED
  BY Zenon, <1>7, <1>8, <1>9 DEF DataMatch

\* nanvix_rmem_alloc() keeps the invariant when it returns: the page is
\* clean, and nobody else has it.
LEMMA AllocReturnData ==
  ASSUME DataInv, NEW c \in Clients, AllocReturn(c)
  PROVE  DataMatch'
<1>. DEFINE q == inbox[c].page
<1>1. /\ ctl \in [Clients -> Points] /\ inbox \in [Clients -> ReplyMsgs]
      /\ srv \in [Servers -> ServerStates] /\ view \in [PageNumbers -> Values]
      /\ held \in [Clients -> SUBSET PageNumbers]
  BY Zenon DEF DataInv, OwnerInv, BlockInv, TypeOK
<1>2. /\ ctl[c] = "alloc" /\ inbox[c] # NoMsg
      /\ ctl' = [ctl EXCEPT ![c] = "idle"] /\ inbox' = [inbox EXCEPT ![c] = NoMsg]
      /\ UNCHANGED <<blocks, srv, requests, page, buf>>
  BY Zenon DEF AllocReturn, servervars
<1>3. /\ ctl'[c] = "idle" /\ inbox'[c] = NoMsg
      /\ \A d \in Clients \ {c} : ctl'[d] = ctl[d] /\ inbox'[d] = inbox[d]
  BY Zenon, <1>1, <1>2
<1>4. inbox[c].op = "alloc"
  BY Zenon, <1>2 DEF DataInv, OwnerInv, RepliesMatch
<1>5. inbox[c].ret = "ok" => Has(c, q)
  BY Zenon, <1>4 DEF Has
<1>6. inbox[c].ret = "ok" => q \in PageNumbers
  BY Zenon, <1>5, HasOne DEF DataInv
<1>7. /\ \A d \in Clients \ {c} : held'[d] = held[d]
      /\ inbox[c].ret # "ok" => held'[c] = held[c] /\ view' = view
      /\ inbox[c].ret = "ok" => /\ held'[c] = held[c] \cup {q} /\ view'[q] = Zero
                                /\ \A p \in PageNumbers : p # q => view'[p] = view[p]
  <2>1. CASE inbox[c].ret # "ok"
    BY Zenon, <2>1 DEF AllocReturn
  <2>2. CASE inbox[c].ret = "ok"
    <3>1. /\ held' = [held EXCEPT ![c] = held[c] \cup {q}]
          /\ view' = [view EXCEPT ![q] = Zero]
      BY Zenon, <2>2 DEF AllocReturn
    <3>. QED
      BY Zenon, <1>1, <1>6, <2>2, <3>1
  <2>. QED
    BY Zenon, <2>1, <2>2
<1>8. ClientData(c)
  BY Zenon DEF DataInv, DataMatch
<1>9. ASSUME NEW d \in Clients PROVE ClientData(d)'
  <2>1. CASE d # c
    <3>1. \A p : Has(d, p) => inbox[c].ret # "ok" \/ p # q
      <4>. SUFFICES ASSUME inbox[c].ret = "ok", Has(d, q) PROVE FALSE
        BY Zenon
      <4>1. Has(c, q)
        BY Zenon, <1>5
      <4>2. owners[q[1]][q[2]] = c
        BY Zenon, <4>1, HasOne DEF DataInv
      <4>3. owners[q[1]][q[2]] = d
        BY Zenon, HasOne DEF DataInv
      <4>. QED
        BY Zenon, <2>1, <4>2, <4>3
    <3>2. \A p \in PageNumbers \ Strays : Has(d, p) =>
            view'[p] = view[p] /\ blocks'[p[1]][p[2]] = blocks[p[1]][p[2]]
      BY Zenon, <1>2, <1>7, <3>1
    <3>. QED
      BY Zenon, <1>2, <1>3, <1>7, <2>1, <3>2, OtherData DEF DataInv, DataMatch
  <2>2. CASE d = c
    <3>1. NoMsg.op # "alloc"
      BY DEF NoMsg
    <3>2. \A p \in held'[c] \ Strays : blocks[p[1]][p[2]] = view'[p]
      <4>. SUFFICES ASSUME NEW p \in held'[c] \ Strays
                    PROVE  blocks[p[1]][p[2]] = view'[p]
        BY Zenon
      <4>1. CASE inbox[c].ret = "ok" /\ p = q
        BY Zenon, <1>4, <1>7, <1>8, <4>1 DEF ClientData
      <4>2. CASE ~(inbox[c].ret = "ok" /\ p = q)
        <5>1. p \in held[c] /\ p \in PageNumbers
          BY Zenon, <1>1, <1>7, <4>2
        <5>2. blocks[p[1]][p[2]] = view[p]
          BY SMT, <1>2, <1>8, <5>1 DEF ClientData, Stored
        <5>. QED
          BY Zenon, <1>7, <4>2, <5>1, <5>2
      <4>. QED
        BY Zenon, <4>1, <4>2
    <3>. QED
      BY SMT, <1>2, <1>3, <2>2, <3>1, <3>2 DEF ClientData, Stored
  <2>. QED
    BY Zenon, <2>1, <2>2
<1>10. ASSUME NEW t \in Servers PROVE RequestsName(t)'
  BY Zenon, <1>2 DEF DataInv, DataMatch, RequestsName
<1>11. ASSUME NEW t \in Servers PROVE PortalMatches(t)'
  <2>. SUFFICES ASSUME srv[t].pc = "portal" PROVE PortalMatches(t)'
    BY Zenon, <1>2 DEF PortalMatches
  <2>1. srv[t].client \in Clients
    BY Zenon, <1>1, MessageTypes
  <2>2. PortalMatches(t)
    BY Zenon DEF DataInv, DataMatch
  <2>. QED
    BY SMT, <1>2, <1>3, <2>1, <2>2 DEF PortalMatches
<1>. QED
  BY Zenon, <1>9, <1>10, <1>11 DEF DataMatch

\* The client whose request a server takes has no block sent to it.
LEMMA NoPortal ==
  ASSUME DataInv, NEW s \in Servers, NEW m \in requests[s], m # Exit,
         NEW t \in Servers, srv[t].pc = "portal"
  PROVE  srv[t].client \in Clients \ {m.source}
<1>1. srv[t].client \in Clients
  BY Zenon, MessageTypes DEF DataInv, OwnerInv, BlockInv, TypeOK
<1>2. inbox[m.source] = NoMsg /\ ctl[m.source] \in {"alloc", "free", "ack", "portal_write"}
  BY Zenon, RequestFacts DEF DataInv
<1>3. PortalMatches(t)
  BY Zenon DEF DataInv, DataMatch
<1>4. NoMsg.op # "ack"
  BY DEF NoMsg
<1>. QED
  BY Zenon, <1>1, <1>2, <1>3, <1>4 DEF PortalMatches

\* Taking a request out of a mailbox keeps the others about the pages of
\* their clients' calls.
LEMMA TakeRequest ==
  ASSUME DataInv, NEW s \in Servers, NEW m,
         requests' = [requests EXCEPT ![s] = @ \ {m}], page' = page
  PROVE  \A t \in Servers : RequestsName(t)'
<1>1. \A t \in Servers : requests'[t] \subseteq requests[t]
  BY Zenon DEF DataInv, OwnerInv, BlockInv, TypeOK
<1>. QED
  BY Zenon, <1>1 DEF DataInv, DataMatch, RequestsName

\* A handler that answers a request and moves no data keeps the invariant,
\* if it leaves the pages that clients have alone and hands out clean pages.
LEMMA AnswerData ==
  ASSUME DataInv, NEW s \in Servers, NEW m \in requests[s], m # Exit, NEW r,
         requests' = [requests EXCEPT ![s] = @ \ {m}],
         inbox' = [inbox EXCEPT ![m.source] = r],
         UNCHANGED <<srv, ctl, page, buf, held, view>>,
         \A d \in Clients, p \in PageNumbers \ Strays : Has(d, p) =>
           blocks'[p[1]][p[2]] = blocks[p[1]][p[2]],
         r.op = "alloc" /\ r.ret = "ok" => blocks'[r.page[1]][r.page[2]] = Zero
  PROVE  DataMatch'
<1>. DEFINE c == m.source
<1>1. inbox \in [Clients -> ReplyMsgs]
  BY Zenon DEF DataInv, OwnerInv, BlockInv, TypeOK
<1>2. c \in Clients /\ ctl[c] \in {"alloc", "free", "ack", "portal_write"}
  BY Zenon, RequestFacts DEF DataInv
<1>3. inbox'[c] = r /\ \A d \in Clients \ {c} : inbox'[d] = inbox[d]
  BY Zenon, <1>1, <1>2
<1>. HIDE DEF c
<1>4. ASSUME NEW d \in Clients PROVE ClientData(d)'
  <2>1. CASE d # c
    <3>1. \A p \in PageNumbers \ Strays : Has(d, p) =>
            view'[p] = view[p] /\ blocks'[p[1]][p[2]] = blocks[p[1]][p[2]]
      BY ZenonT(40)
    <3>. QED
      BY Zenon, <1>3, <2>1, <3>1, OtherData DEF DataInv, DataMatch
  <2>2. CASE d = c
    <3>1. ClientData(c)
      BY Zenon, <1>2 DEF DataInv, DataMatch
    <3>2. \A p \in held[c] \ Strays : blocks'[p[1]][p[2]] = view[p]
      <4>. SUFFICES ASSUME NEW p \in held[c] \ Strays
                    PROVE  blocks'[p[1]][p[2]] = view[p]
        BY Zenon
      <4>1. Has(c, p)
        BY Zenon DEF Has
      <4>2. p \in PageNumbers
        BY ZenonT(40), <1>2, <4>1, HasOne DEF DataInv
      <4>3. blocks[p[1]][p[2]] = view[p]
        BY SMT, <1>2, <3>1 DEF ClientData, Stored
      <4>. QED
        BY Zenon, <1>2, <4>1, <4>2, <4>3
    <3>. QED
      BY SMT, <1>2, <1>3, <2>2, <3>1, <3>2 DEF ClientData, Stored
  <2>. QED
    BY Zenon, <2>1, <2>2
<1>5. ASSUME NEW t \in Servers PROVE PortalMatches(t)'
  <2>. SUFFICES ASSUME srv[t].pc = "portal" PROVE PortalMatches(t)'
    BY Zenon DEF PortalMatches
  <2>1. srv[t].client \in Clients \ {c}
    BY Zenon, NoPortal DEF c
  <2>2. PortalMatches(t)
    BY Zenon DEF DataInv, DataMatch
  <2>. QED
    BY SMT, <1>3, <2>1, <2>2 DEF PortalMatches
<1>. QED
  BY Zenon, <1>4, <1>5, TakeRequest DEF DataMatch

\* do_rmem_write() keeps the invariant: a page that only one client may name
\* is written by that client only, and a stray write does not reach it.
LEMMA WriteData ==
  ASSUME DataInv, NEW s \in Servers, NEW m \in requests[s], m # Exit,
         do_rmem_write(s, m)
  PROVE  DataMatch'
<1>. DEFINE c == m.source
            num == RMEM_BLOCK_NUM(m.page)
            dest == WriteBlock(s, num)
            ret == IF num \in bitmap[s] THEN "ok" ELSE "EFAULT"
            r == Reply("write", ret, RMEM_NULL)
<1>1. /\ inbox \in [Clients -> ReplyMsgs] /\ ctl \in [Clients -> Points]
      /\ blocks \in [Servers -> Contents] /\ bitmap \in [Servers -> SUBSET Blocks]
  BY Zenon DEF DataInv, OwnerInv, BlockInv, TypeOK
<1>2. c \in Clients /\ m.page \in PageNumbers
  BY Zenon, RequestFacts DEF DataInv
<1>3. m.op = "write" /\ ctl[c] = "portal_write" /\ num # 0
  BY Zenon DEF do_rmem_write
<1>4. m.page = page[c] /\ m.page[1] = s
  BY SMT, <1>3 DEF DataInv, DataMatch, RequestsName, OwnerInv, RequestsMatch
<1>5. /\ requests' = [requests EXCEPT ![s] = requests[s] \ {m}]
      /\ inbox' = [inbox EXCEPT ![c] = r]
      /\ ctl' = [ctl EXCEPT ![c] = "write_reply"]
      /\ blocks' = [blocks EXCEPT ![s] = [blocks[s] EXCEPT ![dest] = buf[c]]]
      /\ UNCHANGED <<srv, page, buf, held, view>>
  BY Zenon DEF do_rmem_write, Receive, Answer
<1>6. r.op = "write" /\ r.ret = ret
  BY Zenon DEF Reply
<1>7. m.page = <<s, num>> /\ num \in Blocks
  BY SMT, <1>2, <1>4 DEF PageNumbers, RMEM_BLOCK_NUM
<1>8. dest = IF num \in bitmap[s] THEN num ELSE 0
  BY Zenon DEF WriteBlock
<1>9. ClientData(c)
  BY Zenon, <1>2 DEF DataInv, DataMatch
<1>. HIDE DEF c, num, dest, ret, r
<1>10. /\ inbox'[c] = r /\ ctl'[c] = "write_reply"
       /\ \A d \in Clients \ {c} : inbox'[d] = inbox[d] /\ ctl'[d] = ctl[d]
  BY Zenon, <1>1, <1>2, <1>5
<1>11. page[c] \notin Strays => page[c] \in held[c]
  BY Zenon, <1>3, <1>9 DEF ClientData
<1>12. page[c] \notin Strays => num \in bitmap[s]
  <2>. SUFFICES ASSUME page[c] \notin Strays PROVE num \in bitmap[s]
    BY Zenon
  <2>1. Has(c, page[c])
    BY Zenon, <1>11 DEF Has
  <2>2. page[c][2] \in bitmap[page[c][1]]
    BY Zenon, <1>2, <2>1, HasOne DEF DataInv
  <2>. QED
    BY SMT, <1>4, <1>7, <2>2
<1>13. \A p \in PageNumbers \ Strays, d \in Clients : Has(d, p) =>
         blocks'[p[1]][p[2]] = IF p = page[c] THEN buf[c] ELSE blocks[p[1]][p[2]]
  <2>. SUFFICES ASSUME NEW p \in PageNumbers \ Strays, NEW d \in Clients, Has(d, p)
                PROVE  blocks'[p[1]][p[2]] = IF p = page[c] THEN buf[c] ELSE blocks[p[1]][p[2]]
    BY Zenon
  <2>1. /\ p = <<p[1], p[2]>> /\ p[1] \in Servers /\ p[2] \in Blocks
        /\ p[2] \in bitmap[p[1]] \ {0}
    BY Zenon, HasOne DEF DataInv
  <2>2. CASE p = page[c]
    <3>0. dest = num
      BY Zenon, <1>8, <1>12, <2>2
    <3>1. p = <<s, num>>
      BY Zenon, <1>4, <1>7, <2>2
    <3>2. <<s, num>>[1] = s /\ <<s, num>>[2] = num
      OBVIOUS
    <3>3. p[1] = s /\ p[2] = num
      BY Zenon, <3>1, <3>2
    <3>4. blocks'[s][num] = buf[c]
      BY Zenon, <1>1, <1>5, <1>7, <3>0 DEF Contents
    <3>. QED
      BY Zenon, <2>2, <3>3, <3>4
  <2>3. CASE p # page[c]
    <3>1. ~(p[1] = s /\ p[2] = dest)
      BY Zenon, <1>4, <1>7, <1>8, <2>1, <2>3
    <3>. QED
      BY Zenon, <1>1, <1>5, <2>1, <2>3, <3>1 DEF Contents
  <2>. QED
    BY Zenon, <2>2, <2>3
<1>14. ASSUME NEW d \in Clients PROVE ClientData(d)'
  <2>1. CASE d # c
    <3>1. \A p \in PageNumbers \ Strays : Has(d, p) => p # page[c]
      <4>. SUFFICES ASSUME page[c] \notin Strays, Has(d, page[c]) PROVE FALSE
        BY Zenon
      <4>1. Has(c, page[c])
        BY Zenon, <1>11 DEF Has
      <4>2. owners[page[c][1]][page[c][2]] = c
        BY Zenon, <1>2, <4>1, HasOne DEF DataInv
      <4>3. owners[page[c][1]][page[c][2]] = d
        BY Zenon, HasOne DEF DataInv
      <4>. QED
        BY Zenon, <2>1, <4>2, <4>3
    <3>2. \A p \in PageNumbers \ Strays : Has(d, p) =>
            view'[p] = view[p] /\ blocks'[p[1]][p[2]] = blocks[p[1]][p[2]]
      BY Zenon, <1>5, <1>13, <3>1
    <3>. QED
      BY Zenon, <1>5, <1>10, <2>1, <3>2, OtherData DEF DataInv, DataMatch
  <2>2. CASE d = c
    <3>1. \A p \in held[c] \ Strays :
            blocks'[p[1]][p[2]] = IF page[c] = p THEN buf[c] ELSE view[p]
      <4>. SUFFICES ASSUME NEW p \in held[c] \ Strays
                    PROVE  blocks'[p[1]][p[2]] = IF page[c] = p THEN buf[c] ELSE view[p]
        BY Zenon
      <4>1. Has(c, p)
        BY Zenon DEF Has
      <4>2. p \in PageNumbers
        BY Zenon, <1>2, <4>1, HasOne DEF DataInv
      <4>3. blocks[p[1]][p[2]] = view[p]
        BY SMT, <1>3, <1>9 DEF ClientData, Stored
      <4>. QED
        BY Zenon, <1>2, <1>13, <4>1, <4>2, <4>3
    <3>2. page[c] \in held[c] \cup Strays
      BY Zenon, <1>11
    <3>3. page[c] \notin Strays => r.ret = "ok"
      BY Zenon, <1>6, <1>12 DEF ret
    <3>. QED
      BY SMT, <1>5, <1>6, <1>10, <2>2, <3>1, <3>2, <3>3 DEF ClientData, Stored
  <2>. QED
    BY Zenon, <2>1, <2>2
<1>15. ASSUME NEW t \in Servers PROVE PortalMatches(t)'
  <2>. SUFFICES ASSUME srv[t].pc = "portal" PROVE PortalMatches(t)'
    BY Zenon, <1>5 DEF PortalMatches
  <2>1. srv[t].client \in Clients \ {c}
    BY Zenon, NoPortal DEF c
  <2>2. PortalMatches(t)
    BY Zenon DEF DataInv, DataMatch
  <2>. QED
    BY SMT, <1>5, <1>10, <2>1, <2>2 DEF PortalMatches
<1>. QED
  BY Zenon, <1>5, <1>14, <1>15, TakeRequest DEF DataMatch

\* do_rmem_read() keeps the invariant when it starts to send a block.
LEMMA ReadData ==
  ASSUME DataInv, NEW s \in Servers, NEW m \in requests[s], m # Exit,
         do_rmem_read(s, m)
  PROVE  DataMatch'
<1>. DEFINE c == m.source
            num == RMEM_BLOCK_NUM(m.page)
            v == IF num \in bitmap[s] THEN Sending(c, num, "ok") ELSE Sending(c, 0, "EFAULT")
            r == Reply("ack", "ok", RMEM_NULL)
<1>1. /\ inbox \in [Clients -> ReplyMsgs] /\ srv \in [Servers -> ServerStates]
  BY Zenon DEF DataInv, OwnerInv, BlockInv, TypeOK
<1>2. c \in Clients /\ m.page \in PageNumbers
  BY Zenon, RequestFacts DEF DataInv
<1>3. m.op = "read" /\ ctl[c] = "ack"
  BY Zenon, RequestFacts DEF do_rmem_read, WaitingAt, DataInv
<1>4. m.page = page[c] /\ m.page[1] = s
  BY SMT, <1>3 DEF DataInv, DataMatch, RequestsName, OwnerInv, RequestsMatch
<1>5. /\ requests' = [requests EXCEPT ![s] = requests[s] \ {m}]
      /\ inbox' = [inbox EXCEPT ![c] = r]
      /\ srv' = [srv EXCEPT ![s] = v]
      /\ UNCHANGED <<blocks, ctl, page, buf, held, view>>
  BY Zenon DEF do_rmem_read, Receive, Answer, clientvars
<1>6. r.op = "ack"
  BY Zenon DEF Reply
<1>7. /\ v.client = c
      /\ num \in bitmap[s] => v.block = num /\ v.ret = "ok"
  BY DEF Sending
<1>8. ClientData(c)
  BY Zenon, <1>2 DEF DataInv, DataMatch
<1>9. page[c][2] = num
  BY Zenon, <1>4 DEF RMEM_BLOCK_NUM
<1>. HIDE DEF c, num, v, r
<1>10. /\ inbox'[c] = r /\ srv'[s] = v
       /\ \A d \in Clients \ {c} : inbox'[d] = inbox[d]
       /\ \A t \in Servers \ {s} : srv'[t] = srv[t]
  BY Zenon, <1>1, <1>2, <1>5
<1>11. page[c] \notin Strays => num \in bitmap[s]
  <2>. SUFFICES ASSUME page[c] \notin Strays PROVE num \in bitmap[s]
    BY Zenon
  <2>1. Has(c, page[c])
    BY Zenon, <1>3, <1>8 DEF Has, ClientData
  <2>2. page[c][2] \in bitmap[page[c][1]]
    BY Zenon, <1>2, <2>1, HasOne DEF DataInv
  <2>. QED
    BY Zenon, <1>4, <1>9, <2>2
<1>12. ASSUME NEW d \in Clients PROVE ClientData(d)'
  <2>1. CASE d # c
    BY ZenonT(40), <1>5, <1>10, <2>1, OtherData DEF DataInv, DataMatch
  <2>2. CASE d = c
    BY SMT, <1>3, <1>5, <1>6, <1>8, <1>10, <2>2 DEF ClientData, Stored
  <2>. QED
    BY Zenon, <2>1, <2>2
<1>13. ASSUME NEW t \in Servers PROVE PortalMatches(t)'
  <2>1. CASE t = s
    BY SMTT(30), <1>3, <1>4, <1>5, <1>6, <1>7, <1>9, <1>10, <1>11, <2>1 DEF PortalMatches
  <2>2. CASE t # s
    <3>. SUFFICES ASSUME srv[t].pc = "portal" PROVE PortalMatches(t)'
      BY Zenon, <1>10, <2>2 DEF PortalMatches
    <3>1. srv[t].client \in Clients \ {c}
      BY Zenon, NoPortal DEF c
    <3>2. PortalMatches(t)
      BY Zenon DEF DataInv, DataMatch
    <3>. QED
      BY SMT, <1>5, <1>10, <2>2, <3>1, <3>2 DEF PortalMatches
  <2>. QED
    BY Zenon, <2>1, <2>2
<1>. QED
  BY Zenon, <1>5, <1>12, <1>13, TakeRequest DEF DataMatch

\* do_rmem_read() keeps the invariant when its client takes the block: it is
\* the block of the page that the client reads.
LEMMA PortalData ==
  ASSUME DataInv, NEW s \in Servers, do_rmem_read_data(s)
  PROVE  DataMatch'
<1>. DEFINE c == srv[s].client
            r == Reply("read", srv[s].ret, RMEM_NULL)
<1>1. /\ inbox \in [Clients -> ReplyMsgs] /\ srv \in [Servers -> ServerStates]
      /\ ctl \in [Clients -> Points] /\ buf \in [Clients -> Values]
  BY Zenon DEF DataInv, OwnerInv, BlockInv, TypeOK
<1>2. srv[s].pc = "portal" /\ ctl[c] = "portal_read"
  BY Zenon DEF do_rmem_read_data
<1>3. c \in Clients
  BY Zenon, <1>1, <1>2, MessageTypes
<1>4. /\ buf' = [buf EXCEPT ![c] = blocks[s][srv[s].block]]
      /\ ctl' = [ctl EXCEPT ![c] = "read_reply"]
      /\ inbox' = [inbox EXCEPT ![c] = r]
      /\ srv' = [srv EXCEPT ![s] = Idle]
      /\ UNCHANGED <<blocks, requests, page, held, view>>
  BY Zenon DEF do_rmem_read_data, Answer
<1>5. r.op = "read" /\ r.ret = srv[s].ret
  BY Zenon DEF Reply
<1>6. /\ page[c][1] = s
      /\ page[c] \notin Strays => srv[s].block = page[c][2] /\ srv[s].ret = "ok"
  BY Zenon, <1>2 DEF DataInv, DataMatch, PortalMatches
<1>7. ClientData(c)
  BY Zenon, <1>3 DEF DataInv, DataMatch
<1>. HIDE DEF c, r
<1>8. /\ inbox'[c] = r /\ ctl'[c] = "read_reply" /\ buf'[c] = blocks[s][srv[s].block]
      /\ \A d \in Clients \ {c} : inbox'[d] = inbox[d] /\ ctl'[d] = ctl[d] /\ buf'[d] = buf[d]
      /\ srv'[s] = Idle /\ \A t \in Servers \ {s} : srv'[t] = srv[t]
  BY Zenon, <1>1, <1>3, <1>4
<1>9. page[c] \notin Strays => blocks[s][srv[s].block] = view[page[c]]
  BY Zenon, <1>2, <1>6, <1>7 DEF ClientData, Stored
<1>10. ASSUME NEW d \in Clients PROVE ClientData(d)'
  <2>1. CASE d # c
    BY ZenonT(40), <1>4, <1>8, <2>1, OtherData DEF DataInv, DataMatch
  <2>2. CASE d = c
    BY SMT, <1>2, <1>4, <1>5, <1>6, <1>7, <1>8, <1>9, <2>2 DEF ClientData, Stored
  <2>. QED
    BY Zenon, <2>1, <2>2
<1>11. ASSUME NEW t \in Servers PROVE RequestsName(t)'
  BY Zenon, <1>4 DEF DataInv, DataMatch, RequestsName
<1>12. ASSUME NEW t \in Servers PROVE PortalMatches(t)'
  <2>1. CASE t = s
    <3>1. Idle.pc # "portal"
      BY DEF Idle
    <3>. QED
      BY Zenon, <1>8, <2>1, <3>1 DEF PortalMatches
  <2>2. CASE t # s
    <3>. SUFFICES ASSUME srv[t].pc = "portal" PROVE PortalMatches(t)'
      BY Zenon, <1>8, <2>2 DEF PortalMatches
    <3>1. PortalMatches(t)
      BY Zenon DEF DataInv, DataMatch
    <3>2. srv[t].client \in Clients
      BY Zenon, <1>1, MessageTypes
    <3>3. srv[t].client # c
      BY Zenon, <1>6, <2>2, <3>1 DEF PortalMatches
    <3>. QED
      BY SMT, <1>4, <1>8, <2>2, <3>1, <3>2, <3>3 DEF PortalMatches
  <2>. QED
    BY Zenon, <2>1, <2>2
<1>. QED
  BY Zenon, <1>10, <1>11, <1>12 DEF DataMatch

\* Every step of the clients and of the servers keeps the invariant.
LEMMA DataStep ==
  ASSUME DataInv, [Next]_vars
  PROVE  DataMatch'
<1>. USE DEF servervars, clientvars
<1>1. ASSUME UNCHANGED <<blocks, srv, requests, ctl, page, buf, inbox, held, view>>
      PROVE  DataMatch'
  <2>1. \A d \in Clients : ClientData(d)'
    BY ZenonT(40), <1>1 DEF DataInv, DataMatch, ClientData, Stored
  <2>2. \A t \in Servers : RequestsName(t)' /\ PortalMatches(t)'
    BY SMTT(30), <1>1 DEF DataInv, DataMatch, RequestsName, PortalMatches
  <2>. QED
    BY Zenon, <2>1, <2>2 DEF DataMatch
<1>2. ASSUME NEW c \in Clients, ClientCall(c)
      PROVE  DataMatch'
  <2>0. /\ Pages \subseteq PageNumbers /\ RMEM_NULL \in PageNumbers
        /\ nallocs[c] \in Servers
        /\ \A p \in PageNumbers : RMEM_BLOCK_SERVER(p) \in Servers /\ RMEM_BLOCK_SERVER(p) = p[1]
    BY Zenon, RMemAssumption, MessageTypes
    DEF PageNumbers, RMEM_BLOCK_SERVER, DataInv, OwnerInv, BlockInv, TypeOK
  <2>1. CASE Setup(c) \/ Cleanup(c)
    BY Zenon, <1>1, <2>1 DEF Setup, Cleanup
  <2>2. CASE AllocCall(c)
    BY Zenon, <2>0, <2>2, SendData DEF AllocCall, WaitingAt
  <2>3. ASSUME NEW p \in Pages, FreeCall(c, p)
        PROVE  DataMatch'
    <3>1. held'[c] \subseteq held[c] /\ \A d \in Clients \ {c} : held'[d] = held[d]
      BY Zenon, <2>3 DEF FreeCall, DataInv, OwnerInv, BlockInv, TypeOK
    <3>. QED
      BY ZenonT(30), <2>0, <2>3, <3>1, SendData DEF FreeCall, WaitingAt
  <2>4. ASSUME NEW p \in Pages, ReadCall(c, p)
        PROVE  DataMatch'
    BY ZenonT(30), <2>0, <2>4, SendData DEF ReadCall, WaitingAt, MayName
  <2>5. ASSUME NEW p \in Pages, NEW v \in Values, WriteCall(c, p, v)
        PROVE  DataMatch'
    <3>1. \A d \in Clients \ {c} : buf'[d] = buf[d]
      BY Zenon, <2>5 DEF WriteCall, DataInv, OwnerInv, BlockInv, TypeOK
    <3>. QED
      BY ZenonT(30), <2>0, <2>5, <3>1, SendData DEF WriteCall, WaitingAt, MayName
  <2>6. CASE Shutdown(c)
    <3>1. \A d \in Clients : ctl[d] = "idle" /\ ctl'[d] = "done"
      BY Zenon, <2>6 DEF Shutdown
    <3>2. /\ \A s \in Servers : requests'[s] \ {Exit} = requests[s] \ {Exit}
          /\ UNCHANGED <<blocks, srv, page, buf, inbox, held, view>>
      BY Zenon, <2>6 DEF Shutdown
    <3>3. ASSUME NEW d \in Clients PROVE ClientData(d)'
      <4>1. ClientData(d)
        BY Zenon DEF DataInv, DataMatch
      <4>. QED
        BY SMT, <3>1, <3>2, <4>1 DEF ClientData, Stored
    <3>4. ASSUME NEW t \in Servers PROVE RequestsName(t)'
      BY Zenon, <3>2 DEF DataInv, DataMatch, RequestsName
    <3>5. ASSUME NEW t \in Servers PROVE PortalMatches(t)'
      <4>1. srv[t].pc = "portal" => srv[t].client \in Clients
        BY Zenon, MessageTypes DEF DataInv, OwnerInv, BlockInv, TypeOK
      <4>2. PortalMatches(t)
        BY Zenon DEF DataInv, DataMatch
      <4>. QED
        BY Zenon, <3>1, <3>2, <4>1, <4>2 DEF PortalMatches
    <3>. QED
      BY Zenon, <3>3, <3>4, <3>5 DEF DataMatch
  <2>. QED
    BY Zenon, <1>2, <2>1, <2>2, <2>3, <2>4, <2>5, <2>6 DEF ClientCall
<1>3. ASSUME NEW c \in Clients, ClientReturn(c)
      PROVE  DataMatch'
  <2>1. CASE Return(c)
    BY ZenonT(30), <2>1, ReceiveData DEF Return
  <2>2. CASE ReadAck(c)
    BY ZenonT(30), <2>2, ReceiveData DEF ReadAck
  <2>. QED
    BY Zenon, <1>3, <2>1, <2>2, AllocReturnData, WriteReturnData DEF ClientReturn
<1>4. ASSUME NEW s \in Servers, NEW m \in requests[s], Handle(s, m)
      PROVE  DataMatch'
  <2>1. m # Exit
    BY SMTT(60), <1>4 DEF Handle, do_rmem_alloc, do_rmem_free, do_rmem_write_invalid, do_rmem_write,
       do_rmem_read_invalid, do_rmem_read, Exit
  <2>2. \A op, ret, p : LET r == Reply(op, ret, p) IN r.op = op /\ r.ret = ret /\ r.page = p
    BY DEF Reply
  <2>3. ASSUME NEW r,
               requests' = [requests EXCEPT ![s] = @ \ {m}],
               inbox' = [inbox EXCEPT ![m.source] = r],
               UNCHANGED <<blocks, srv, ctl, page, buf, held, view>>,
               r.op = "alloc" /\ r.ret = "ok" => blocks[r.page[1]][r.page[2]] = Zero
        PROVE  DataMatch'
    BY ZenonT(30), <2>1, <2>3, AnswerData
  <2>4. CASE do_rmem_alloc(s, m)
    <3>1. PICK r : /\ inbox' = [inbox EXCEPT ![m.source] = r]
                   /\ r.op = "alloc" /\ r.ret = "ok" => blocks[r.page[1]][r.page[2]] = Zero
      <4>1. CASE nblocks[s] = RMEM_NUM_BLOCKS
        <5>1. Reply("alloc", "ENOMEM", RMEM_NULL).ret # "ok"
          BY DEF Reply
        <5>. QED
          BY Zenon, <2>4, <4>1, <5>1 DEF do_rmem_alloc, Answer
      <4>2. CASE nblocks[s] # RMEM_NUM_BLOCKS
        <5>. DEFINE bit == bitmap_first_free(s)
                    r == Reply("alloc", "ok", RMEM_BLOCK(s, bit))
        <5>1. blocks[s][bit] = Zero
          <6>1. bit \in Blocks \ bitmap[s]
            BY Zenon, <4>2, FreeBlockFound DEF DataInv, OwnerInv, BlockInv
          <6>. QED
            BY Zenon, <6>1 DEF DataInv, OwnerInv, BlockInv, FreeBlocksAreClean
        <5>2. inbox' = [inbox EXCEPT ![m.source] = r]
          BY Zenon, <2>4, <4>2 DEF do_rmem_alloc, Answer
        <5>3. r.page[1] = s /\ r.page[2] = bit
          BY DEF Reply, RMEM_BLOCK
        <5>. QED
          BY Zenon, <5>1, <5>2, <5>3
      <4>. QED
        BY Zenon, <4>1, <4>2
    <3>. QED
      BY Zenon, <2>3, <2>4, <3>1 DEF do_rmem_alloc, Receive
  <2>5. CASE do_rmem_free(s, m)
    <3>. DEFINE num == RMEM_BLOCK_NUM(m.page)
                ret == FreeCode(s, num, m.source)
                r == Reply("free", ret, RMEM_NULL)
    <3>1. r.op # "alloc"
      BY DEF Reply
    <3>2. /\ requests' = [requests EXCEPT ![s] = @ \ {m}]
          /\ inbox' = [inbox EXCEPT ![m.source] = r]
          /\ UNCHANGED <<srv, ctl, page, buf, held, view>>
      BY Zenon, <2>5 DEF do_rmem_free, Receive, Answer
    <3>3. CASE ret # "ok"
      BY Zenon, <2>3, <2>5, <3>1, <3>2, <3>3 DEF do_rmem_free
    <3>4. CASE ret = "ok"
      <4>1. blocks' = [blocks EXCEPT ![s] = [blocks[s] EXCEPT ![num] = Zero]]
        BY Zenon, <2>5, <3>4 DEF do_rmem_free, Cleaned
      <4>2. owners[s][num] = m.source
        BY Zenon, <3>4 DEF FreeCode
      <4>3. /\ m.source \in Clients /\ m.page \in PageNumbers /\ inbox[m.source] = NoMsg
            /\ m.op = "free" /\ m.page[1] = s /\ m.page \notin held[m.source]
        BY ZenonT(30), <2>1, <2>5, RequestFacts
        DEF do_rmem_free, DataInv, OwnerInv, RequestsMatch
      <4>4. m.page = <<s, num>>
        BY SMT, <4>3 DEF PageNumbers, RMEM_BLOCK_NUM
      <4>5. NoMsg.op # "alloc"
        BY DEF NoMsg
      <4>6. ASSUME NEW d \in Clients, NEW p \in PageNumbers, Has(d, p)
            PROVE  blocks'[p[1]][p[2]] = blocks[p[1]][p[2]]
        <5>1. /\ p = <<p[1], p[2]>> /\ p[1] \in Servers /\ p[2] \in Blocks
              /\ owners[p[1]][p[2]] = d
          BY Zenon, <4>6, HasOne DEF DataInv
        <5>2. ~(p[1] = s /\ p[2] = num)
          BY Zenon, <4>2, <4>3, <4>4, <4>5, <4>6, <5>1 DEF Has
        <5>. QED
          BY Zenon, <4>1, <5>1, <5>2 DEF DataInv, OwnerInv, BlockInv, TypeOK, Contents
      <4>. HIDE DEF r
      <4>. QED
        BY ZenonT(30), <2>1, <3>1, <3>2, <4>6, AnswerData
    <3>. QED
      BY Zenon, <3>3, <3>4
  <2>6. CASE do_rmem_write_invalid(s, m)
    <3>1. Reply("write", "EINVAL", RMEM_NULL).op # "alloc"
      BY DEF Reply
    <3>. QED
      BY Zenon, <2>3, <2>6, <3>1 DEF do_rmem_write_invalid, Receive, Answer
  <2>7. CASE do_rmem_read_invalid(s, m)
    <3>1. Reply("read", "EINVAL", RMEM_NULL).op # "alloc"
      BY DEF Reply
    <3>. QED
      BY Zenon, <2>3, <2>7, <3>1 DEF do_rmem_read_invalid, Receive, Answer
  <2>. QED
    BY ZenonT(40), <1>4, <2>1, <2>4, <2>5, <2>6, <2>7, WriteData, ReadData DEF Handle
<1>5. ASSUME NEW s \in Servers, do_rmem_exit(s)
      PROVE  DataMatch'
  <2>1. /\ requests' = [requests EXCEPT ![s] = requests[s] \ {Exit}]
        /\ srv' = [srv EXCEPT ![s] = Exited]
        /\ UNCHANGED <<blocks, ctl, page, buf, inbox, held, view>>
    BY Zenon, <1>5 DEF do_rmem_exit, Receive
  <2>2. srv'[s] = Exited /\ \A t \in Servers \ {s} : srv'[t] = srv[t]
    BY Zenon, <2>1 DEF DataInv, OwnerInv, BlockInv, TypeOK
  <2>3. Exited.pc # "portal"
    BY DEF Exited
  <2>4. \A d \in Clients : ClientData(d)'
    BY ZenonT(40), <2>1 DEF DataInv, DataMatch, ClientData, Stored
  <2>5. \A t \in Servers : PortalMatches(t)'
    BY SMTT(30), <2>1, <2>2, <2>3 DEF DataInv, DataMatch, PortalMatches
  <2>. QED
    BY Zenon, <2>1, <2>4, <2>5, TakeRequest DEF DataMatch
<1>6. CASE UNCHANGED vars
  BY Zenon, <1>1, <1>6 DEF vars
<1>. QED
  BY Zenon, <1>2, <1>3, <1>4, <1>5, <1>6, PortalData DEF Next, Terminated, ServerStep

\* A client that reads a page which only it may name receives what it last
\* wrote there, or zeros, for any number of clients and servers and whatever
\* the clients do to other pages.
THEOREM ReadsCorrect == Spec => []ReadYourWrites
<1>1. Init => DataInv
  <2>. SUFFICES ASSUME Init PROVE DataInv
    BY Zenon
  <2>1. OwnerInv
    BY Zenon, OwnerInit
  <2>2. Idle.pc # "portal" /\ NoMsg.op # "alloc"
    BY DEF Idle, NoMsg
  <2>3. \A c \in Clients : ClientData(c)
    BY Zenon, <2>2 DEF Init, ClientData
  <2>4. \A s \in Servers : RequestsName(s) /\ PortalMatches(s)
    BY Zenon, <2>2 DEF Init, RequestsName, PortalMatches
  <2>. QED
    BY Zenon, <2>1, <2>3, <2>4 DEF DataInv, DataMatch
<1>2. DataInv /\ [Next]_vars => DataInv'
  BY Zenon, TypeStep, BlockStep, OwnerStep, DataStep DEF DataInv, OwnerInv, BlockInv
<1>3. DataInv => ReadYourWrites
  BY Zenon DEF DataInv, DataMatch, ClientData, ReadYourWrites
<1>. QED
  BY <1>1, <1>2, <1>3, PTL DEF Spec

=============================================================================

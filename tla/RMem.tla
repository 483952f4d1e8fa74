-------------------------------- MODULE RMem --------------------------------
(***************************************************************************)
(* The remote memory service: the servers of src/sys/mm/rmem/main.c and    *)
(* the client stub of libruntime/mm/stub.c that every process links in.    *)
(*                                                                         *)
(* A client call is a synchronous remote procedure call.  The stub sends a *)
(* request to a server's input mailbox and blocks; block contents travel   *)
(* through portals, which are rendezvous channels.  A server is a single   *)
(* thread that takes one request at a time from its mailbox.  Requests of  *)
(* different clients reach it in any order, so its mailbox is a set.       *)
(*                                                                         *)
(* A page number is the pair <<server, block>> that RMEM_BLOCK() packs in  *)
(* one word (8 and 24 bits).                                               *)
(***************************************************************************)
EXTENDS FiniteSets, TableScan

CONSTANTS Clients,           \* node numbers of the client processes
          RMEM_SERVERS_NUM,  \* number of servers
          RMEM_NUM_BLOCKS,   \* blocks per server, the null block included
          Values,            \* contents a client may write in a block
          Zero,              \* the contents of a block filled with zeros
          Pages,             \* page numbers that clients pass to the stub
          Strays             \* pages that a client may name without holding them

Servers == 0 .. RMEM_SERVERS_NUM - 1
Blocks == 0 .. RMEM_NUM_BLOCKS - 1

PageNumbers == Servers \X Blocks
RMEM_BLOCK(server, num) == <<server, num>>
RMEM_BLOCK_SERVER(page) == page[1]
RMEM_BLOCK_NUM(page) == page[2]
RMEM_NULL == RMEM_BLOCK(0, 0)

ASSUME RMemAssumption ==
  /\ Clients \subseteq Nat
  /\ RMEM_SERVERS_NUM \in Nat \ {0}
  /\ RMEM_NUM_BLOCKS \in Nat \ {0, 1}
  /\ Zero \in Values
  /\ Pages \subseteq PageNumbers
  /\ Strays \subseteq PageNumbers

\* Return codes, as far as a caller tells them apart.
Codes == {"ok", "EINVAL", "EFAULT", "ENOMEM"}
Contents == [Blocks -> Values]

VARIABLES
  bitmap,       \* bitmap[s]: the blocks whose bit is set in server s
  owners,       \* owners[s][b]: node that block b was last allocated to
  nblocks,      \* nblocks[s]: the server's count of allocated blocks
  blocks,       \* blocks[s][b]: contents of block b
  srv,          \* srv[s]: what server s is doing
  requests,     \* requests[s]: messages in the input mailbox of server s
  initialized,  \* initialized[c]: servers that client c is connected to
  nallocs,      \* nallocs[c]: successful allocations, modulo the servers
  ctl,          \* ctl[c]: where client c is in the stub
  page,         \* page[c]: page number of the call in progress
  buf,          \* buf[c]: the block buffer of the call in progress
  inbox,        \* inbox[c]: the message in the mailbox of client c
  held,         \* held[c]: pages that calls returned to c and c did not free
  view          \* view[p]: what the holder of page p last stored in it

servervars == <<bitmap, owners, nblocks, blocks, srv>>
clientvars == <<initialized, nallocs, ctl, page, buf, held, view>>
vars == <<bitmap, owners, nblocks, blocks, srv, requests,
          initialized, nallocs, ctl, page, buf, inbox, held, view>>

Idle == [pc |-> "loop"]
Exited == [pc |-> "exit"]
Sending(c, b, ret) == [pc |-> "portal", client |-> c, block |-> b, ret |-> ret]

NoMsg == [op |-> "none"]
Reply(op, ret, p) == [op |-> op, ret |-> ret, page |-> p]
Request(op, c, p) == [op |-> op, source |-> c, page |-> p]
Exit == [op |-> "exit"]

-----------------------------------------------------------------------------
\* do_rmem_startup(): the first block is special, and all blocks are clean.
Init ==
  /\ bitmap = [s \in Servers |-> {0}]
  /\ owners = [s \in Servers |-> [b \in Blocks |-> 0]]
  /\ nblocks = [s \in Servers |-> 1]
  /\ blocks = [s \in Servers |-> [b \in Blocks |-> Zero]]
  /\ srv = [s \in Servers |-> Idle]
  /\ requests = [s \in Servers |-> {}]
  /\ initialized = [c \in Clients |-> {}]
  /\ nallocs = [c \in Clients |-> 0]
  /\ ctl = [c \in Clients |-> "idle"]
  /\ page = [c \in Clients |-> RMEM_NULL]
  /\ buf = [c \in Clients |-> Zero]
  /\ inbox = [c \in Clients |-> NoMsg]
  /\ held = [c \in Clients |-> {}]
  /\ view = [p \in PageNumbers |-> Zero]

-----------------------------------------------------------------------------
(***************************************************************************)
(* The client stub.                                                        *)
(***************************************************************************)

\* __nanvix_rmem_setup(): connects to the servers in order; opening the
\* mailbox or the portal of server k may fail, and the call then gives up.
Setup(c) ==
  /\ ctl[c] = "idle"
  /\ \E k \in 0 .. RMEM_SERVERS_NUM :
       initialized' = [initialized EXCEPT ![c] = @ \cup {s \in Servers : s < k}]
  /\ UNCHANGED <<servervars, requests, nallocs, ctl, page, buf, inbox, held, view>>

\* __nanvix_rmem_cleanup(): disconnects in order, and gives up at an error.
Cleanup(c) ==
  /\ ctl[c] = "idle"
  /\ \E k \in 0 .. RMEM_SERVERS_NUM :
       initialized' = [initialized EXCEPT ![c] = @ \ {s \in Servers : s < k}]
  /\ UNCHANGED <<servervars, requests, nallocs, ctl, page, buf, inbox, held, view>>

\* A stub sends its request and goes to wait at point "next".
Send(c, s, op, p, next) ==
  /\ ctl[c] = "idle"
  /\ s \in initialized[c]
  /\ requests' = [requests EXCEPT ![s] = @ \cup {Request(op, c, p)}]
  /\ ctl' = [ctl EXCEPT ![c] = next]
  /\ page' = [page EXCEPT ![c] = p]

\* The checks that the stubs make on a page number before they send it.
StubAccepts(p) == p # RMEM_NULL /\ RMEM_BLOCK_NUM(p) < RMEM_NUM_BLOCKS

\* Pages a client may pass to the stub.
MayName(c, p) == p \in Pages /\ StubAccepts(p) /\ (p \in Strays \/ p \in held[c])

\* nanvix_rmem_alloc(), up to the receive: servers are used round robin.
AllocCall(c) ==
  /\ Send(c, nallocs[c], "alloc", RMEM_NULL, "alloc")
  /\ UNCHANGED <<servervars, initialized, nallocs, buf, inbox, held, view>>

\* nanvix_rmem_free(), up to the receive: the caller gives the page up.
FreeCall(c, p) ==
  /\ MayName(c, p)
  /\ Send(c, RMEM_BLOCK_SERVER(p), "free", p, "free")
  /\ held' = [held EXCEPT ![c] = @ \ {p}]
  /\ UNCHANGED <<servervars, initialized, nallocs, buf, inbox, view>>

\* nanvix_rmem_read(), up to the wait for the acknowledge.
ReadCall(c, p) ==
  /\ MayName(c, p)
  /\ Send(c, RMEM_BLOCK_SERVER(p), "read", p, "ack")
  /\ UNCHANGED <<servervars, initialized, nallocs, buf, inbox, held, view>>

\* nanvix_rmem_write(), up to the portal write, which blocks until the
\* server reads the portal.
WriteCall(c, p, v) ==
  /\ MayName(c, p)
  /\ Send(c, RMEM_BLOCK_SERVER(p), "write", p, "portal_write")
  /\ buf' = [buf EXCEPT ![c] = v]
  /\ UNCHANGED <<servervars, initialized, nallocs, inbox, held, view>>

\* nanvix_rmem_alloc(): the server that the next allocation uses.
NextServerMutant(s) == s + 1
NextServer(s) == (s + 1) % RMEM_SERVERS_NUM

\* nanvix_rmem_alloc(), from the receive on.
AllocReturn(c) ==
  /\ ctl[c] = "alloc" /\ inbox[c] # NoMsg
  /\ \/ /\ inbox[c].ret # "ok"
        /\ UNCHANGED <<nallocs, held, view>>
     \/ /\ inbox[c].ret = "ok"
        /\ nallocs' = [nallocs EXCEPT ![c] = NextServer(@)]
        /\ held' = [held EXCEPT ![c] = @ \cup {inbox[c].page}]
        /\ view' = [view EXCEPT ![inbox[c].page] = Zero]
  /\ ctl' = [ctl EXCEPT ![c] = "idle"]
  /\ inbox' = [inbox EXCEPT ![c] = NoMsg]
  /\ UNCHANGED <<servervars, requests, initialized, page, buf>>

\* nanvix_rmem_free() and nanvix_rmem_read(), from the last receive on.
Return(c) ==
  /\ ctl[c] \in {"free", "read_reply"} /\ inbox[c] # NoMsg
  /\ ctl' = [ctl EXCEPT ![c] = "idle"]
  /\ inbox' = [inbox EXCEPT ![c] = NoMsg]
  /\ UNCHANGED <<servervars, requests, initialized, nallocs, page, buf, held, view>>

\* nanvix_rmem_read(): the message received must be an acknowledge.
ReadAck(c) ==
  /\ ctl[c] = "ack" /\ inbox[c] # NoMsg
  /\ ctl' = [ctl EXCEPT ![c] = IF inbox[c].op = "ack" THEN "portal_read" ELSE "panic"]
  /\ inbox' = [inbox EXCEPT ![c] = NoMsg]
  /\ UNCHANGED <<servervars, requests, initialized, nallocs, page, buf, held, view>>

\* nanvix_rmem_write(), from the receive on.
WriteReturn(c) ==
  /\ ctl[c] = "write_reply" /\ inbox[c] # NoMsg
  /\ view' = [view EXCEPT ![page[c]] = IF inbox[c].ret = "ok" THEN buf[c] ELSE @]
  /\ ctl' = [ctl EXCEPT ![c] = "idle"]
  /\ inbox' = [inbox EXCEPT ![c] = NoMsg]
  /\ UNCHANGED <<servervars, requests, initialized, nallocs, page, buf, held>>

\* nanvix_rmem_shutdown(), which nanvix_shutdown() calls on one node after
\* a fence of all processes: no call is in progress any more.
Shutdown(c) ==
  /\ initialized[c] = Servers
  /\ \A d \in Clients : ctl[d] = "idle"
  /\ requests' = [s \in Servers |-> requests[s] \cup {Exit}]
  /\ ctl' = [d \in Clients |-> "done"]
  /\ UNCHANGED <<servervars, initialized, nallocs, page, buf, inbox, held, view>>

-----------------------------------------------------------------------------
(***************************************************************************)
(* The server: do_rmem_loop() and its handlers.                            *)
(***************************************************************************)

\* The loop takes request m out of the mailbox of server s.
Receive(s, m) ==
  /\ srv[s] = Idle
  /\ m \in requests[s]
  /\ requests' = [requests EXCEPT ![s] = @ \ {m}]

AnswerMutant(c, op, ret, p) ==
  inbox' = IF ret = "ok" THEN [inbox EXCEPT ![c] = Reply(op, ret, p)] ELSE inbox
Answer(c, op, ret, p) == inbox' = [inbox EXCEPT ![c] = Reply(op, ret, p)]

\* bitmap_first_free()
bitmap_first_free_mutant(s) == First(Blocks \ bitmap[s]) - 1
bitmap_first_free(s) == First(Blocks \ bitmap[s])

\* do_rmem_alloc()
do_rmem_alloc(s, m) ==
  /\ m.op = "alloc"
  /\ Receive(s, m)
  /\ \/ /\ nblocks[s] = RMEM_NUM_BLOCKS
        /\ Answer(m.source, "alloc", "ENOMEM", RMEM_NULL)
        /\ UNCHANGED <<bitmap, owners, nblocks>>
     \/ /\ nblocks[s] # RMEM_NUM_BLOCKS
        /\ LET bit == bitmap_first_free(s) IN
             /\ nblocks' = [nblocks EXCEPT ![s] = @ + 1]
             /\ bitmap' = [bitmap EXCEPT ![s] = @ \cup {bit}]
             /\ owners' = [owners EXCEPT ![s][bit] = m.source]
             /\ Answer(m.source, "alloc", "ok", RMEM_BLOCK(s, bit))
  /\ UNCHANGED <<blocks, srv, clientvars>>

\* The checks of do_rmem_free(), in order.  The mutants leave one out, or
\* move the bound by one.
FreeCodeAnyOwner(s, num, owner) ==
  CASE num = 0 \/ num >= RMEM_NUM_BLOCKS -> "EINVAL"
    [] nblocks[s] = 1                    -> "EFAULT"
    [] num \notin bitmap[s]              -> "EFAULT"
    [] OTHER                             -> "ok"
FreeCodeNotLast(s, num, owner) ==
  CASE num = 0 \/ num >= RMEM_NUM_BLOCKS - 1 -> "EINVAL"
    [] nblocks[s] = 1                        -> "EFAULT"
    [] num \notin bitmap[s]                  -> "EFAULT"
    [] owners[s][num] # owner                -> "EFAULT"
    [] OTHER                                 -> "ok"
FreeCode(s, num, owner) ==
  CASE num = 0 \/ num >= RMEM_NUM_BLOCKS -> "EINVAL"
    [] nblocks[s] = 1                    -> "EFAULT"
    [] num \notin bitmap[s]              -> "EFAULT"
    [] owners[s][num] # owner            -> "EFAULT"
    [] OTHER                             -> "ok"

\* do_rmem_free(): the block is cleaned.
CleanedMutant(s, num) == blocks
Cleaned(s, num) == [blocks EXCEPT ![s][num] = Zero]

\* do_rmem_free()
do_rmem_free(s, m) ==
  LET num == RMEM_BLOCK_NUM(m.page)
      ret == FreeCode(s, num, m.source) IN
  /\ m.op = "free"
  /\ Receive(s, m)
  /\ \/ /\ ret = "ok"
        /\ blocks' = Cleaned(s, num)
        /\ nblocks' = [nblocks EXCEPT ![s] = @ - 1]
        /\ bitmap' = [bitmap EXCEPT ![s] = @ \ {num}]
     \/ /\ ret # "ok"
        /\ UNCHANGED <<blocks, nblocks, bitmap>>
  /\ Answer(m.source, "free", ret, RMEM_NULL)
  /\ UNCHANGED <<owners, srv, clientvars>>

\* do_rmem_write() on an invalid block number: the portal is not read.
do_rmem_write_invalid(s, m) ==
  /\ m.op = "write"
  /\ RMEM_BLOCK_NUM(m.page) = 0
  /\ Receive(s, m)
  /\ Answer(m.source, "write", "EINVAL", RMEM_NULL)
  /\ UNCHANGED <<servervars, clientvars>>

\* do_rmem_write(): the block that receives the data.
WriteBlockMutant(s, num) == num
WriteBlock(s, num) == IF num \in bitmap[s] THEN num ELSE 0

\* do_rmem_write(): the data is read from the portal in any case, and goes
\* to the null block when the block is not allocated.
do_rmem_write(s, m) ==
  LET num == RMEM_BLOCK_NUM(m.page)
      dest == WriteBlock(s, num)
      ret == IF num \in bitmap[s] THEN "ok" ELSE "EFAULT" IN
  /\ m.op = "write"
  /\ num # 0
  /\ ctl[m.source] = "portal_write"
  /\ Receive(s, m)
  /\ blocks' = [blocks EXCEPT ![s][dest] = buf[m.source]]
  /\ ctl' = [ctl EXCEPT ![m.source] = "write_reply"]
  /\ Answer(m.source, "write", ret, RMEM_NULL)
  /\ UNCHANGED <<bitmap, owners, nblocks, srv, initialized, nallocs, page, buf,
                 held, view>>

\* do_rmem_read() on an invalid block number: no acknowledge is sent.
do_rmem_read_invalid(s, m) ==
  /\ m.op = "read"
  /\ RMEM_BLOCK_NUM(m.page) = 0
  /\ Receive(s, m)
  /\ Answer(m.source, "read", "EINVAL", RMEM_NULL)
  /\ UNCHANGED <<servervars, clientvars>>

\* do_rmem_read(), up to the portal write: the null block stands for a
\* block that is not allocated.
do_rmem_read(s, m) ==
  LET num == RMEM_BLOCK_NUM(m.page) IN
  /\ m.op = "read"
  /\ num # 0
  /\ Receive(s, m)
  /\ srv' = [srv EXCEPT ![s] = IF num \in bitmap[s]
                               THEN Sending(m.source, num, "ok")
                               ELSE Sending(m.source, 0, "EFAULT")]
  /\ Answer(m.source, "ack", "ok", RMEM_NULL)
  /\ UNCHANGED <<bitmap, owners, nblocks, blocks, clientvars>>

\* do_rmem_read(), from the portal write on: the client reads the portal,
\* and the loop replies.
do_rmem_read_data(s) ==
  LET c == srv[s].client IN
  /\ srv[s].pc = "portal"
  /\ ctl[c] = "portal_read"
  /\ buf' = [buf EXCEPT ![c] = blocks[s][srv[s].block]]
  /\ ctl' = [ctl EXCEPT ![c] = "read_reply"]
  /\ Answer(c, "read", srv[s].ret, RMEM_NULL)
  /\ srv' = [srv EXCEPT ![s] = Idle]
  /\ UNCHANGED <<bitmap, owners, nblocks, blocks, requests, initialized, nallocs,
                 page, held, view>>

\* RMEM_EXIT: the loop ends without a reply.
do_rmem_exit(s) ==
  /\ Receive(s, Exit)
  /\ srv' = [srv EXCEPT ![s] = Exited]
  /\ UNCHANGED <<bitmap, owners, nblocks, blocks, clientvars, inbox>>

-----------------------------------------------------------------------------
Handle(s, m) ==
  \/ do_rmem_alloc(s, m)
  \/ do_rmem_free(s, m)
  \/ do_rmem_write_invalid(s, m)
  \/ do_rmem_write(s, m)
  \/ do_rmem_read_invalid(s, m)
  \/ do_rmem_read(s, m)

ServerStep(s) ==
  \/ \E m \in requests[s] : Handle(s, m)
  \/ do_rmem_read_data(s)
  \/ do_rmem_exit(s)

ClientCall(c) ==
  \/ Setup(c)
  \/ Cleanup(c)
  \/ AllocCall(c)
  \/ \E p \in Pages :
       \/ FreeCall(c, p)
       \/ ReadCall(c, p)
       \/ \E v \in Values : WriteCall(c, p, v)
  \/ Shutdown(c)

ClientReturn(c) == AllocReturn(c) \/ Return(c) \/ ReadAck(c) \/ WriteReturn(c)

\* All servers have left their loops.
Terminated == (\A s \in Servers : srv[s] = Exited) /\ UNCHANGED vars

Next ==
  \/ \E s \in Servers : ServerStep(s)
  \/ \E c \in Clients : ClientCall(c) \/ ClientReturn(c)
  \/ Terminated

Spec == Init /\ [][Next]_vars

\* The server threads and the threads inside a stub keep running, and a
\* mailbox hands messages over in order of arrival, so that a request is not
\* overtaken for ever.  Nothing obliges a program to call the service.
FairSpec ==
  /\ Spec
  /\ \A s \in Servers :
       /\ WF_vars(ServerStep(s))
       /\ \A c \in Clients :
            SF_vars(\E m \in requests[s] : m # Exit /\ m.source = c /\ Handle(s, m))
  /\ \A c \in Clients : WF_vars(ClientReturn(c))

-----------------------------------------------------------------------------
(***************************************************************************)
(* Properties.                                                             *)
(***************************************************************************)

Points == {"idle", "alloc", "free", "ack", "portal_read", "read_reply",
           "portal_write", "write_reply", "panic", "done"}
ServerStates == {Idle, Exited} \cup
  [pc : {"portal"}, client : Clients, block : Blocks, ret : Codes]
RequestMsgs == {Exit} \cup
  [op : {"alloc", "free", "read", "write"}, source : Clients, page : PageNumbers]
ReplyMsgs == {NoMsg} \cup
  [op : {"alloc", "free", "read", "write", "ack"}, ret : Codes, page : PageNumbers]

\* The state of the servers, of the mailboxes and of the stubs is well typed.
TypeOK ==
  /\ bitmap \in [Servers -> SUBSET Blocks]
  /\ owners \in [Servers -> [Blocks -> Clients \cup {0}]]
  /\ nblocks \in [Servers -> Nat]
  /\ blocks \in [Servers -> Contents]
  /\ srv \in [Servers -> ServerStates]
  /\ requests \in [Servers -> SUBSET RequestMsgs]
  /\ initialized \in [Clients -> SUBSET Servers]
  /\ nallocs \in [Clients -> Servers]
  /\ ctl \in [Clients -> Points]
  /\ page \in [Clients -> PageNumbers]
  /\ buf \in [Clients -> Values]
  /\ inbox \in [Clients -> ReplyMsgs]
  /\ held \in [Clients -> SUBSET PageNumbers]
  /\ view \in [PageNumbers -> Values]

\* The counter that do_rmem_alloc() and do_rmem_free() consult agrees with
\* the bitmap, and the null block stays reserved.  So the test against
\* RMEM_NUM_BLOCKS is enough for bitmap_first_free() to find a block (the
\* assertion in do_rmem_alloc()), and block 0 is never handed out.
BlockAccounting ==
  \A s \in Servers : 0 \in bitmap[s] /\ nblocks[s] = Cardinality(bitmap[s])

\* A page that a client got from nanvix_rmem_alloc() and did not free is
\* allocated and registered to that client, whatever the other clients call
\* meanwhile.  In particular two clients never hold the same page.
HeldPagesAreOwned ==
  \A c \in Clients : \A p \in held[c] :
    /\ p[2] \in bitmap[p[1]] \ {0}
    /\ owners[p[1]][p[2]] = c

\* No block is lost: an allocated block is in the hands of a client, or on
\* its way to one in a reply, or on its way back in a free request.
NoLeakedBlock ==
  \A s \in Servers : \A b \in bitmap[s] \ {0} :
    \E c \in Clients :
      \/ <<s, b>> \in held[c]
      \/ inbox[c] = Reply("alloc", "ok", <<s, b>>)
      \/ Request("free", c, <<s, b>>) \in requests[s]

\* A free block holds zeros: do_rmem_free() cleans it, and a stray write to
\* it lands in the null block.  So a new page never shows what its former
\* holder, or anybody else, stored in it.
FreeBlocksAreClean ==
  \A s \in Servers : \A b \in Blocks \ bitmap[s] : blocks[s][b] = Zero

\* A client that reads a page it holds receives what it last wrote there,
\* or zeros if it wrote nothing since the page was allocated.  This takes a
\* page that nobody else names, since the server checks ownership on free
\* only; what clients do to other pages does no harm.
ReadYourWrites ==
  \A c \in Clients :
    ctl[c] = "read_reply" /\ page[c] \in held[c] \ Strays =>
      /\ inbox[c].ret = "ok"
      /\ buf[c] = view[page[c]]

\* Every call to the service returns.
CallsReturn == \A c \in Clients : (ctl[c] \notin {"idle", "done"}) ~> (ctl[c] = "idle")

=============================================================================

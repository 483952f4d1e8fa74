----------------------------- MODULE NameServer -----------------------------
(***************************************************************************)
(* The name service: the server of src/sys/pm/name/main.c and the client   *)
(* functions of libruntime/pm/name.c.                                      *)
(*                                                                         *)
(* A client is a thread, known to the server by the node it runs on and by *)
(* the number of its input mailbox port, both taken from the header of its *)
(* messages.  Lookup, link and unlink wait for a reply; a heartbeat does   *)
(* not.  The server takes messages in order of arrival.                    *)
(***************************************************************************)
EXTENDS Sequences, FiniteSets, TableScan

CONSTANTS Clients,           \* clients, as pairs <<node, port>>
          Server,            \* the pair of the server itself
          Names,             \* the names that clients use
          NANVIX_PNAME_MAX,  \* entries of the lookup table
          Stray,             \* may a client unlink a name it did not link?
          MaxBeats           \* bound: heartbeats a client has in flight

ServerName == "/io0"
NoName == ""
AllNames == Names \cup {ServerName}
Index == 0 .. NANVIX_PNAME_MAX - 1
Node(c) == c[1]
Port(c) == c[2]

ASSUME NameAssumption ==
  /\ Server \in Nat \X Nat
  /\ Clients \subseteq Nat \X Nat
  /\ NoName \notin Names
  /\ NANVIX_PNAME_MAX \in Nat \ {0}
  /\ Stray \in BOOLEAN
  /\ MaxBeats \in Nat

VARIABLES
  procs,            \* the lookup table
  nr_registration,  \* the number of registrations
  up,               \* is the server in its loop, gone, or stopped by an assertion?
  inbox,            \* the messages in the input mailbox of the server
  call,             \* call[c]: the request that client c waits for, if any
  reply,            \* reply[c]: the answer in the mailbox of client c
  linked            \* linked[c][n]: links of n that c was told of, less unlinks

servervars == <<procs, nr_registration, up>>
vars == <<procs, nr_registration, up, inbox, call, reply, linked>>

\* The timestamp of an entry is kept as the node whose heartbeat it is.
FreeEntry == [nodenum |-> -1, port_nr |-> -1, name |-> NoName,
              refcount |-> 0, timestamp |-> -1]

Msg(op, c, n) == [op |-> op, source |-> c, name |-> n]
NoCall == [op |-> "none"]
NoReply == [errcode |-> "none", nodenum |-> -1]
Answered(errcode, node) == [errcode |-> errcode, nodenum |-> node]

-----------------------------------------------------------------------------
\* do_name_init()
Init ==
  /\ procs = [i \in Index |->
                IF i = 0
                THEN [nodenum |-> Node(Server), port_nr |-> Port(Server),
                      name |-> ServerName, refcount |-> 1, timestamp |-> -1]
                ELSE FreeEntry]
  /\ nr_registration = 0
  /\ up = "loop"
  /\ inbox = <<>>
  /\ call = [c \in Clients |-> NoCall]
  /\ reply = [c \in Clients |-> NoReply]
  /\ linked = [c \in Clients |-> [n \in AllNames |-> 0]]

-----------------------------------------------------------------------------
(***************************************************************************)
(* The client functions.                                                   *)
(***************************************************************************)

Beats(c) == Cardinality({i \in DOMAIN inbox : inbox[i] = Msg("alive", c, NoName)})
Stopping == \E i \in DOMAIN inbox : inbox[i].op = "exit"

\* nanvix_name_lookup(), nanvix_name_link() and nanvix_name_unlink(), up to
\* the receive.
Call(c, op, n) ==
  /\ up # "exit" /\ ~Stopping
  /\ call[c] = NoCall
  /\ op = "unlink" => Stray \/ linked[c][n] > 0
  /\ inbox' = Append(inbox, Msg(op, c, n))
  /\ call' = [call EXCEPT ![c] = Msg(op, c, n)]
  /\ UNCHANGED <<servervars, reply, linked>>

\* The same functions, from the receive on.
Return(c) ==
  LET n == call[c].name IN
  /\ call[c] # NoCall /\ reply[c] # NoReply
  /\ linked' = IF reply[c].errcode # "ok" THEN linked
               ELSE CASE call[c].op = "link"   -> [linked EXCEPT ![c][n] = @ + 1]
                      [] call[c].op = "unlink" -> [linked EXCEPT ![c][n] = @ - 1]
                      [] OTHER                 -> linked
  /\ call' = [call EXCEPT ![c] = NoCall]
  /\ reply' = [reply EXCEPT ![c] = NoReply]
  /\ UNCHANGED <<servervars, inbox>>

\* nanvix_name_heartbeat(), called by a thread that has a name linked.
Heartbeat(c) ==
  /\ up # "exit" /\ ~Stopping
  /\ call[c] = NoCall
  /\ \E n \in AllNames : linked[c][n] > 0
  /\ Beats(c) < MaxBeats
  /\ inbox' = Append(inbox, Msg("alive", c, NoName))
  /\ UNCHANGED <<servervars, call, reply, linked>>

\* nanvix_name_shutdown(), which nanvix_shutdown() calls on one node after a
\* fence of all processes: no call is in progress any more.
Shutdown(c) ==
  /\ up # "exit" /\ ~Stopping
  /\ \A d \in Clients : call[d] = NoCall
  /\ inbox' = Append(inbox, Msg("exit", c, NoName))
  /\ UNCHANGED <<servervars, call, reply, linked>>

-----------------------------------------------------------------------------
(***************************************************************************)
(* The server: do_name_server() and its handlers.                          *)
(***************************************************************************)

Entries(n) == {i \in Index : procs[i].name = n}
FreeEntries == {i \in Index : procs[i].nodenum < 0}
EntriesOfNode(node) == {i \in Index : procs[i].nodenum = node}

\* The loop takes the next message, which is m, and it asks for op.
Receive(m, op) ==
  /\ up = "loop"
  /\ inbox # <<>>
  /\ m = Head(inbox)
  /\ m.op = op
  /\ inbox' = Tail(inbox)

AnswerMutant(c, errcode, node) ==
  reply' = IF errcode = "ok" THEN [reply EXCEPT ![c] = Answered(errcode, node)] ELSE reply
Answer(c, errcode, node) == reply' = [reply EXCEPT ![c] = Answered(errcode, node)]

\* do_name_lookup()
do_name_lookup(m) ==
  /\ Receive(m, "lookup")
  /\ \/ /\ Entries(m.name) # {}
        /\ Answer(m.source, "ok", procs[First(Entries(m.name))].nodenum)
     \/ /\ Entries(m.name) = {}
        /\ Answer(m.source, "ENOENT", -1)
  /\ UNCHANGED <<servervars, call, linked>>

\* Did this client link entry i?
Linker(i, c) == procs[i].nodenum = Node(c) /\ procs[i].port_nr = Port(c)

\* do_name_link(): there are too many registrations, or the name is in use
\* by another client, or the table is full.  The mutant confirms the port
\* only.
LinkRefusedMutant(c, n) ==
  \/ nr_registration >= NANVIX_PNAME_MAX
  \/ Entries(n) # {} /\ procs[First(Entries(n))].port_nr # Port(c)
  \/ Entries(n) = {} /\ FreeEntries = {}
LinkRefused(c, n) ==
  \/ nr_registration >= NANVIX_PNAME_MAX
  \/ Entries(n) # {} /\ ~Linker(First(Entries(n)), c)
  \/ Entries(n) = {} /\ FreeEntries = {}

\* do_name_link(): the entry that is used.
LinkIndex(n) == First(IF Entries(n) # {} THEN Entries(n) ELSE FreeEntries)

\* do_name_link(): what becomes of entry e.
LinkedEntry(c, n, e) ==
  IF e.name = n THEN [e EXCEPT !.refcount = @ + 1]
  ELSE [e EXCEPT !.name = n, !.nodenum = Node(c), !.port_nr = Port(c),
                 !.refcount = @ + 1]

\* do_name_link(): the count of registrations.  The mutant counts names.
RegisteredMutant(n) == IF Entries(n) = {} THEN nr_registration + 1 ELSE nr_registration
Registered(n) == nr_registration + 1

\* do_name_link()
do_name_link(m) ==
  LET i == LinkIndex(m.name) IN
  /\ Receive(m, "link")
  /\ \/ /\ LinkRefused(m.source, m.name)
        /\ Answer(m.source, "EINVAL", -1)
        /\ UNCHANGED <<procs, nr_registration>>
     \/ /\ ~LinkRefused(m.source, m.name)
        /\ procs' = [procs EXCEPT ![i] = LinkedEntry(m.source, m.name, procs[i])]
        /\ nr_registration' = Registered(m.name)
        /\ Answer(m.source, "ok", -1)
  /\ UNCHANGED <<up, call, linked>>

\* do_name_unlink(): the test that the caller linked the name.
MayUnlink(c, i) == procs[i].port_nr = Port(c)

\* do_name_unlink(): an entry that lost its last reference.  The mutant
\* keeps the name.
FreedMutant(e) == [e EXCEPT !.nodenum = -1, !.port_nr = -1, !.refcount = 0]
Freed(e) == [e EXCEPT !.name = NoName, !.nodenum = -1, !.port_nr = -1, !.refcount = 0]

\* do_name_unlink(): what becomes of entry e.  The mutant drops all references.
UnlinkedEntryMutant(e) == Freed(e)
UnlinkedEntry(e) == IF e.refcount = 1 THEN Freed(e) ELSE [e EXCEPT !.refcount = @ - 1]

\* do_name_unlink()
do_name_unlink(m) ==
  LET found == Entries(m.name) \ FreeEntries
      i == First(found) IN
  /\ Receive(m, "unlink")
  /\ \/ /\ found = {}
        /\ Answer(m.source, "ENOENT", -1)
        /\ UNCHANGED <<procs, nr_registration>>
     \/ /\ found # {} /\ ~MayUnlink(m.source, i)
        /\ Answer(m.source, "EINVAL", -1)
        /\ UNCHANGED <<procs, nr_registration>>
     \/ /\ found # {} /\ MayUnlink(m.source, i)
        /\ nr_registration' = nr_registration - 1
        /\ procs' = [procs EXCEPT ![i] = UnlinkedEntry(@)]
        /\ Answer(m.source, "ok", -1)
  /\ UNCHANGED <<up, call, linked>>

\* do_name_heartbeat() and the assertion on its result in the loop.
do_name_heartbeat(m) ==
  LET found == EntriesOfNode(Node(m.source)) IN
  /\ Receive(m, "alive")
  /\ \/ /\ found # {}
        /\ procs' = [procs EXCEPT ![First(found)].timestamp = Node(m.source)]
        /\ UNCHANGED up
     \/ /\ found = {}
        /\ up' = "panic"
        /\ UNCHANGED procs
  /\ UNCHANGED <<nr_registration, call, reply, linked>>

\* NAME_EXIT: the loop ends without a reply.
do_name_exit(m) ==
  /\ Receive(m, "exit")
  /\ up' = "exit"
  /\ UNCHANGED <<procs, nr_registration, call, reply, linked>>

-----------------------------------------------------------------------------
ServerStep ==
  \E m \in {inbox[i] : i \in DOMAIN inbox} :
    \/ do_name_lookup(m)
    \/ do_name_link(m)
    \/ do_name_unlink(m)
    \/ do_name_heartbeat(m)
    \/ do_name_exit(m)

Terminated == up = "exit" /\ UNCHANGED vars

Next ==
  \/ ServerStep
  \/ \E c \in Clients :
       \/ \E op \in {"lookup", "link", "unlink"}, n \in AllNames : Call(c, op, n)
       \/ Return(c)
       \/ Heartbeat(c)
       \/ Shutdown(c)
  \/ Terminated

Spec == Init /\ [][Next]_vars

\* The server thread and the threads that wait for it keep running.
FairSpec == Spec /\ WF_vars(ServerStep) /\ \A c \in Clients : WF_vars(Return(c))

-----------------------------------------------------------------------------
(***************************************************************************)
(* Properties.                                                             *)
(***************************************************************************)

Nodes == {Node(c) : c \in Clients \cup {Server}}
Ports == {Port(c) : c \in Clients \cup {Server}}
EntryType == [nodenum : Nodes \cup {-1}, port_nr : Ports \cup {-1},
              name : AllNames \cup {NoName}, refcount : Nat,
              timestamp : Nodes \cup {-1}]
CallType == [op : {"lookup", "link", "unlink"}, source : Clients, name : AllNames]
MsgType == CallType \cup [op : {"alive", "exit"}, source : Clients, name : {NoName}]
ReplyType == [errcode : {"none", "ok", "EINVAL", "ENOENT"}, nodenum : Nodes \cup {-1}]

\* The table, the counter, the mailboxes and the callers are well typed.
TypeOK ==
  /\ procs \in [Index -> EntryType]
  /\ nr_registration \in Int
  /\ up \in {"loop", "exit", "panic"}
  /\ inbox \in Seq(MsgType)
  /\ call \in [Clients -> CallType \cup {NoCall}]
  /\ reply \in [Clients -> ReplyType]
  /\ linked \in [Clients -> [AllNames -> Int]]

\* The marks that the handlers use for a free entry agree: do_name_link()
\* goes by the node number, do_name_lookup() by the name alone, and
\* do_name_unlink() by the reference count.
EntriesCoherent ==
  \A i \in Index :
    /\ procs[i].nodenum < 0 <=> procs[i].name = NoName
    /\ procs[i].nodenum < 0 <=> procs[i].refcount = 0
    /\ procs[i].nodenum < 0 <=> procs[i].port_nr < 0

\* No two entries of the table have the same name, so that the first match
\* that a handler finds is the only one.
NamesUnique ==
  \A i, j \in Index : procs[i].name = procs[j].name /\ procs[i].name # NoName => i = j

\* The owner and the number of references of a name in a table.
NoProcess == <<-1, -1>>
OwnerIn(table, n) ==
  LET S == {i \in Index : table[i].name = n} IN
  IF S = {} THEN NoProcess ELSE <<table[First(S)].nodenum, table[First(S)].port_nr>>
CountIn(table, n) ==
  LET S == {i \in Index : table[i].name = n} IN
  IF S = {} THEN 0 ELSE table[First(S)].refcount

\* References that client c has on name n in the table.
Refs(c, n) == IF OwnerIn(procs, n) = c THEN CountIn(procs, n) ELSE 0

\* A client that is not in a call has exactly the references in the table
\* that it was told of: a name it linked is there, with its node, until it
\* unlinked it as often as it linked it, whatever the others do meanwhile.
LinksAreKept ==
  \A c \in Clients : call[c] = NoCall =>
    \A n \in AllNames : linked[c][n] = Refs(c, n)

\* nr_registration, which bounds the links, counts the references of all
\* entries but the one that do_name_init() makes; repeated links and unlinks
\* keep it exact, so that it does not drift towards NANVIX_PNAME_MAX.
RegistrationsCounted ==
  nr_registration = Total([i \in Index |-> procs[i].refcount]) - 1

\* The assertion on do_name_heartbeat() in the loop never fails: a heartbeat
\* sent while the sender has a name linked is handled while its node is in
\* the table.
ServerNeverPanics == up # "panic"

\* Every lookup, link and unlink returns.
CallsReturn == \A c \in Clients : (call[c] # NoCall) ~> (call[c] = NoCall)

\* The table implements the registry: the name service is an atomic map from
\* names to the processes that linked them, with a count of references.
Registry == INSTANCE NameRegistry WITH
  Processes <- Clients \cup {Server}, Names <- AllNames,
  FirstName <- ServerName, FirstOwner <- Server,
  owner <- [n \in AllNames |-> OwnerIn(procs, n)],
  count <- [n \in AllNames |-> CountIn(procs, n)]
ImplementsRegistry == Registry!Spec

=============================================================================

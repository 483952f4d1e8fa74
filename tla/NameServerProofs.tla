-------------------------- MODULE NameServerProofs --------------------------
(***************************************************************************)
(* Proofs about the name service, for any clients, names and table size.   *)
(***************************************************************************)
EXTENDS NameServer, TableProofs

\* An entry in use belongs to a client, or to the server itself.
OwnersKnown ==
  \A i \in Index : procs[i].nodenum >= 0 =>
    <<procs[i].nodenum, procs[i].port_nr>> \in Clients \cup {Server}

\* The inductive invariant of the table.
TableInv == TypeOK /\ EntriesCoherent /\ NamesUnique /\ OwnersKnown

-----------------------------------------------------------------------------
\* The indexes of the table are natural numbers, clients are pairs of them,
\* and no name is the empty string.
LEMMA Basics ==
  /\ Index \subseteq Nat /\ 0 \in Index
  /\ \A c \in Clients \cup {Server} :
       /\ Node(c) \in Nodes /\ Port(c) \in Ports
       /\ Node(c) \in Nat /\ Port(c) \in Nat /\ c = <<Node(c), Port(c)>>
  /\ Nodes \subseteq Nat /\ Ports \subseteq Nat
  /\ NoName \notin AllNames /\ ServerName \in AllNames
<1>1. Index \subseteq Nat /\ 0 \in Index
  BY NameAssumption DEF Index
<1>2. ASSUME NEW c \in Clients \cup {Server}
      PROVE  Node(c) \in Nat /\ Port(c) \in Nat /\ c = <<Node(c), Port(c)>>
  <2>1. c \in Nat \X Nat
    BY Zenon, NameAssumption
  <2>. QED
    BY <2>1 DEF Node, Port
<1>3. NoName \notin AllNames /\ ServerName \in AllNames
  BY ZenonT(60), NameAssumption DEF NoName, AllNames, ServerName
<1>4. Nodes \subseteq Nat /\ Ports \subseteq Nat
  BY Zenon, <1>2 DEF Nodes, Ports
<1>5. \A c \in Clients \cup {Server} : Node(c) \in Nodes /\ Port(c) \in Ports
  BY Zenon DEF Nodes, Ports
<1>. QED
  BY Zenon, <1>1, <1>2, <1>3, <1>4, <1>5

\* What the messages in the mailbox are made of.
LEMMA MessageTypes ==
  /\ \A op \in {"lookup", "link", "unlink"}, c \in Clients, n \in AllNames :
       Msg(op, c, n) \in CallType
  /\ \A op \in {"alive", "exit"}, c \in Clients : Msg(op, c, NoName) \in MsgType
  /\ CallType \subseteq MsgType
  /\ \A m \in MsgType : m.source \in Clients /\ (m.op \in {"lookup", "link", "unlink"} => m.name \in AllNames)
  /\ \A e \in {"ok", "EINVAL", "ENOENT"}, k \in Nodes \cup {-1} : Answered(e, k) \in ReplyType
  /\ NoReply \in ReplyType
BY Zenon DEF Msg, CallType, MsgType, Answered, NoReply, ReplyType

\* What the entries of the table are made of, and what the handlers make of
\* them.
LEMMA EntryTypes ==
  /\ FreeEntry \in EntryType
  /\ \A e \in EntryType :
       /\ e.nodenum \in Int /\ e.port_nr \in Int /\ e.refcount \in Nat
       /\ e.nodenum \in Nodes \cup {-1} /\ e.name \in AllNames \cup {NoName}
       /\ Freed(e) \in EntryType
       /\ e.refcount > 0 => UnlinkedEntry(e) \in EntryType
       /\ \A c \in Clients, n \in AllNames : LinkedEntry(c, n, e) \in EntryType
       /\ \A k \in Nodes : [e EXCEPT !.timestamp = k] \in EntryType
<1>1. FreeEntry \in EntryType
  BY Zenon DEF FreeEntry, EntryType
<1>2. ASSUME NEW e \in EntryType
      PROVE  /\ e.nodenum \in Nodes \cup {-1} /\ e.port_nr \in Ports \cup {-1}
             /\ e.refcount \in Nat /\ e.name \in AllNames \cup {NoName}
             /\ Freed(e) \in EntryType
             /\ \A k \in Nodes : [e EXCEPT !.timestamp = k] \in EntryType
  BY ZenonT(60) DEF EntryType, Freed
<1>3. ASSUME NEW e \in EntryType, e.refcount > 0
      PROVE  UnlinkedEntry(e) \in EntryType
  <2>1. e.refcount - 1 \in Nat
    BY <1>2, <1>3
  <2>2. [e EXCEPT !.refcount = @ - 1] \in EntryType
    BY Zenon, <2>1 DEF EntryType
  <2>. QED
    BY Zenon, <1>2, <2>2 DEF UnlinkedEntry
<1>4. ASSUME NEW e \in EntryType, NEW c \in Clients, NEW n \in AllNames
      PROVE  LinkedEntry(c, n, e) \in EntryType
  <2>1. e.refcount + 1 \in Nat /\ Node(c) \in Nodes /\ Port(c) \in Ports
    BY <1>2, Basics
  <2>. QED
    BY ZenonT(60), <2>1 DEF EntryType, LinkedEntry
<1>5. ASSUME NEW e \in EntryType
      PROVE  e.nodenum \in Int /\ e.port_nr \in Int
  BY <1>2, Basics
<1>. QED
  BY Zenon, <1>1, <1>2, <1>3, <1>4, <1>5

\* The server takes well typed messages out of its mailbox.
LEMMA ReceiveTypes ==
  ASSUME TypeOK, NEW m, NEW op, Receive(m, op)
  PROVE  /\ m \in MsgType /\ m.op = op /\ m.source \in Clients
         /\ op \in {"lookup", "link", "unlink"} => m.name \in AllNames
         /\ inbox' \in Seq(MsgType)
<1>1. m \in MsgType /\ inbox' \in Seq(MsgType) /\ m.op = op
  BY SMTT(60) DEF Receive, TypeOK
<1>. QED
  BY Zenon, <1>1, MessageTypes

\* do_name_link() takes the entry of the name, or a free one.
LEMMA LinkEffect ==
  ASSUME TableInv, NEW m, do_name_link(m), ~LinkRefused(m.source, m.name)
  PROVE  \E i \in Index :
           /\ procs' = [procs EXCEPT ![i] = LinkedEntry(m.source, m.name, procs[i])]
           /\ \/ procs[i].name = m.name /\ Linker(i, m.source)
              \/ Entries(m.name) = {} /\ procs[i].nodenum < 0
<1>. DEFINE i == LinkIndex(m.name)
            S == IF Entries(m.name) # {} THEN Entries(m.name) ELSE FreeEntries
<1>1. S # {} /\ S \subseteq Index /\ S \in SUBSET Nat
  BY ZenonT(60), Basics DEF LinkRefused, Entries, FreeEntries
<1>2. i \in S
  BY Zenon, <1>1, FirstIsLeast DEF LinkIndex
<1>3. procs' = [procs EXCEPT ![i] = LinkedEntry(m.source, m.name, procs[i])]
  BY Zenon DEF do_name_link
<1>. QED
  BY ZenonT(60), <1>1, <1>2, <1>3 DEF LinkRefused, LinkIndex, Entries, FreeEntries

\* do_name_unlink() gives up a reference of the entry of the name, or, if the
\* caller may not, changes nothing.
LEMMA UnlinkEffect ==
  ASSUME TableInv, NEW m, do_name_unlink(m)
  PROVE  \/ /\ procs' = procs /\ nr_registration' = nr_registration
            /\ \A i \in Index : procs[i].name = m.name /\ procs[i].nodenum >= 0 =>
                                ~MayUnlink(m.source, i)
         \/ \E i \in Index :
              /\ procs' = [procs EXCEPT ![i] = UnlinkedEntry(procs[i])]
              /\ nr_registration' = nr_registration - 1
              /\ Answer(m.source, "ok", -1)
              /\ procs[i].name = m.name /\ procs[i].nodenum >= 0
<1>. DEFINE found == Entries(m.name) \ FreeEntries
            i == First(found)
<1>1. ASSUME NEW j \in Index
      PROVE  j \in found <=> procs[j].name = m.name /\ procs[j].nodenum >= 0
  <2>1. procs[j].nodenum \in Int
    BY Zenon, EntryTypes DEF TableInv, TypeOK
  <2>2. ~(procs[j].nodenum < 0) <=> procs[j].nodenum >= 0
    BY <2>1
  <2>. QED
    BY Zenon, <2>2 DEF Entries, FreeEntries
<1>2. found \in SUBSET Nat /\ found \subseteq Index
  BY ZenonT(60), Basics DEF Entries
<1>3. CASE found # {} /\ MayUnlink(m.source, i)
  <2>1. i \in found
    BY Zenon, <1>2, <1>3, FirstIsLeast
  <2>2. /\ procs' = [procs EXCEPT ![i] = UnlinkedEntry(procs[i])]
        /\ nr_registration' = nr_registration - 1 /\ Answer(m.source, "ok", -1)
    BY Zenon, <1>3 DEF do_name_unlink
  <2>. HIDE DEF found, i
  <2>. QED
    BY Zenon, <1>1, <1>2, <2>1, <2>2
<1>4. CASE ~(found # {} /\ MayUnlink(m.source, i))
  <2>1. procs' = procs /\ nr_registration' = nr_registration
    BY Zenon, <1>4 DEF do_name_unlink
  <2>2. ASSUME NEW j \in Index, procs[j].name = m.name, procs[j].nodenum >= 0
        PROVE  ~MayUnlink(m.source, j)
    <3>1. j \in found
      BY Zenon, <1>1, <2>2
    <3>2. i \in found
      BY Zenon, <1>2, <3>1, FirstIsLeast
    <3>3. procs[j].name # NoName
      <4>1. ~(procs[j].nodenum < 0)
        BY Zenon, <3>1 DEF FreeEntries
      <4>. QED
        BY Zenon, <4>1 DEF TableInv, EntriesCoherent
    <3>4. i = j
      <4>. HIDE DEF i, found
      <4>. QED
        BY Zenon, <1>1, <1>2, <2>2, <3>2, <3>3 DEF TableInv, NamesUnique
    <3>. QED
      BY Zenon, <1>4, <3>1, <3>4
  <2>. HIDE DEF found, i
  <2>. QED
    BY Zenon, <2>1, <2>2
<1>. QED
  BY Zenon, <1>3, <1>4

-----------------------------------------------------------------------------
\* The table is well formed after do_name_link() used an entry.
LEMMA LinkKeepsTable ==
  ASSUME TableInv, NEW c \in Clients, NEW n \in AllNames, NEW i \in Index,
         procs' = [procs EXCEPT ![i] = LinkedEntry(c, n, procs[i])],
         \/ procs[i].name = n /\ Linker(i, c)
         \/ Entries(n) = {} /\ procs[i].nodenum < 0
  PROVE  /\ procs' \in [Index -> EntryType]
         /\ EntriesCoherent' /\ NamesUnique' /\ OwnersKnown'
<1>. DEFINE e == LinkedEntry(c, n, procs[i])
<1>1. procs \in [Index -> EntryType] /\ procs[i] \in EntryType /\ e \in EntryType
  BY Zenon, EntryTypes DEF TableInv, TypeOK
<1>2. procs' \in [Index -> EntryType]
  BY Zenon, <1>1
<1>3. procs'[i] = e /\ \A j \in Index \ {i} : procs'[j] = procs[j]
  BY Zenon, <1>1
<1>4. n # NoName /\ c = <<Node(c), Port(c)>> /\ Node(c) \in Nat /\ Port(c) \in Nat
  BY Zenon, Basics
<1>5. /\ e.name = n /\ e.nodenum = Node(c) /\ e.port_nr = Port(c)
      /\ e.refcount = procs[i].refcount + 1
  <2>1. CASE procs[i].name = n /\ Linker(i, c)
    BY Zenon, <1>1, <2>1 DEF LinkedEntry, Linker, EntryType
  <2>2. CASE Entries(n) = {} /\ procs[i].nodenum < 0
    <3>1. procs[i].name # n
      BY Zenon, <2>2 DEF Entries
    <3>. QED
      BY Zenon, <1>1, <3>1 DEF LinkedEntry, EntryType
  <2>. QED
    BY Zenon, <2>1, <2>2
<1>6. procs[i].refcount \in Nat
  BY Zenon, <1>1, EntryTypes
<1>. HIDE DEF e
<1>7. EntriesCoherent'
  BY <1>3, <1>4, <1>5, <1>6 DEF EntriesCoherent, TableInv
<1>8. \A j \in Index \ {i} : procs[j].name # n
  BY Zenon, <1>4 DEF Entries, TableInv, NamesUnique
<1>9. NamesUnique'
  BY <1>3, <1>5, <1>8 DEF NamesUnique, TableInv
<1>10. OwnersKnown'
  BY Zenon, <1>3, <1>4, <1>5 DEF OwnersKnown, TableInv
<1>. QED
  BY Zenon, <1>2, <1>7, <1>9, <1>10

\* The table is well formed after do_name_unlink() gave up a reference.
LEMMA UnlinkKeepsTable ==
  ASSUME TableInv, NEW i \in Index, procs[i].nodenum >= 0,
         procs' = [procs EXCEPT ![i] = UnlinkedEntry(procs[i])]
  PROVE  /\ procs' \in [Index -> EntryType]
         /\ EntriesCoherent' /\ NamesUnique' /\ OwnersKnown'
<1>. DEFINE e == UnlinkedEntry(procs[i])
<1>1. procs \in [Index -> EntryType] /\ procs[i] \in EntryType
  BY Zenon DEF TableInv, TypeOK
<1>2. procs[i].refcount \in Nat /\ procs[i].refcount > 0 /\ procs[i].nodenum \in Int
  BY <1>1, EntryTypes DEF TableInv, EntriesCoherent
<1>3. procs' \in [Index -> EntryType]
  BY Zenon, <1>1, <1>2, EntryTypes
<1>4. procs'[i] = e /\ \A j \in Index \ {i} : procs'[j] = procs[j]
  BY Zenon, <1>1
<1>5. \/ e.name = NoName /\ e.nodenum = -1 /\ e.port_nr = -1 /\ e.refcount = 0
      \/ /\ e.name = procs[i].name /\ e.nodenum = procs[i].nodenum
         /\ e.port_nr = procs[i].port_nr /\ e.refcount = procs[i].refcount - 1
         /\ procs[i].refcount # 1
  BY Zenon, <1>1 DEF UnlinkedEntry, Freed, EntryType
<1>. HIDE DEF e
<1>6. EntriesCoherent'
  BY <1>2, <1>4, <1>5 DEF EntriesCoherent, TableInv
<1>7. NamesUnique'
  BY <1>4, <1>5 DEF NamesUnique, TableInv
<1>8. OwnersKnown'
  BY <1>4, <1>5 DEF OwnersKnown, TableInv
<1>. QED
  BY Zenon, <1>3, <1>6, <1>7, <1>8

\* A heartbeat only changes a timestamp.
LEMMA HeartbeatKeepsTable ==
  ASSUME TableInv, NEW m, do_name_heartbeat(m), m.source \in Clients
  PROVE  /\ procs' \in [Index -> EntryType]
         /\ \A i \in Index : /\ procs'[i].nodenum = procs[i].nodenum
                             /\ procs'[i].port_nr = procs[i].port_nr
                             /\ procs'[i].name = procs[i].name
                             /\ procs'[i].refcount = procs[i].refcount
<1>. DEFINE found == EntriesOfNode(Node(m.source))
            i == First(found)
<1>1. procs \in [Index -> EntryType]
  BY Zenon DEF TableInv, TypeOK
<1>2. CASE found # {}
  <2>1. found \in SUBSET Nat /\ found \subseteq Index
    BY ZenonT(60), Basics DEF EntriesOfNode
  <2>2. i \in Index
    BY Zenon, <1>2, <2>1, FirstIsLeast
  <2>3. procs' = [procs EXCEPT ![i].timestamp = Node(m.source)]
    BY Zenon, <1>2 DEF do_name_heartbeat
  <2>. HIDE DEF i
  <2>. DEFINE e == [procs[i] EXCEPT !.timestamp = Node(m.source)]
  <2>4. procs' = [procs EXCEPT ![i] = e]
    BY Zenon, <2>3
  <2>5. e \in EntryType
    BY Zenon, <1>1, <2>2, EntryTypes, Basics
  <2>6. /\ e.nodenum = procs[i].nodenum /\ e.port_nr = procs[i].port_nr
        /\ e.name = procs[i].name /\ e.refcount = procs[i].refcount
    BY Zenon, <1>1, <2>2 DEF EntryType
  <2>. QED
    BY Zenon, <1>1, <2>2, <2>4, <2>5, <2>6
<1>3. CASE found = {}
  BY Zenon, <1>1, <1>3 DEF do_name_heartbeat
<1>. QED
  BY Zenon, <1>2, <1>3

\* The answer of a handler is well typed.
LEMMA AnswerTypes ==
  ASSUME TypeOK, NEW c \in Clients, NEW errcode \in {"ok", "EINVAL", "ENOENT"},
         NEW k \in Nodes \cup {-1}, Answer(c, errcode, k)
  PROVE  reply' \in [Clients -> ReplyType]
BY Zenon, MessageTypes DEF TypeOK, Answer

\* The table holds the name of the server in the beginning.
LEMMA TableInit == Init => TableInv
<1>. SUFFICES ASSUME Init PROVE TableInv
  BY Zenon
<1>. DEFINE e == [nodenum |-> Node(Server), port_nr |-> Port(Server),
                  name |-> ServerName, refcount |-> 1, timestamp |-> -1]
<1>1. /\ Node(Server) \in Nodes /\ Port(Server) \in Ports /\ Node(Server) \in Nat
      /\ Port(Server) \in Nat /\ Server = <<Node(Server), Port(Server)>>
      /\ ServerName \in AllNames /\ NoName \notin AllNames /\ 0 \in Index
  BY Zenon, Basics
<1>2. e \in EntryType
  BY Zenon, <1>1 DEF EntryType
<1>3. procs = [i \in Index |-> IF i = 0 THEN e ELSE FreeEntry]
  BY Zenon DEF Init
<1>4. TypeOK
  <2>1. procs \in [Index -> EntryType]
    BY Zenon, <1>2, <1>3, EntryTypes
  <2>2. reply \in [Clients -> ReplyType]
    BY Zenon, MessageTypes DEF Init
  <2>3. linked \in [Clients -> [AllNames -> Int]]
    BY DEF Init
  <2>. QED
    BY <2>1, <2>2, <2>3 DEF Init, TypeOK
<1>5. EntriesCoherent /\ NamesUnique /\ OwnersKnown
  <2>1. \A i \in Index : procs[i] = IF i = 0 THEN e ELSE FreeEntry
    BY Zenon, <1>3
  <2>2. EntriesCoherent
    BY <1>1, <2>1 DEF EntriesCoherent, FreeEntry
  <2>3. NamesUnique
    BY <1>1, <2>1 DEF NamesUnique, FreeEntry
  <2>4. OwnersKnown
    BY <1>1, <2>1 DEF OwnersKnown, FreeEntry
  <2>. QED
    BY Zenon, <2>2, <2>3, <2>4
<1>. QED
  BY Zenon, <1>4, <1>5 DEF TableInv

\* Every step keeps the invariant of the table.
LEMMA TableStep == TableInv /\ [Next]_vars => TableInv'
<1>. SUFFICES ASSUME TableInv, [Next]_vars PROVE TableInv'
  BY Zenon
<1>. USE DEF servervars
<1>t. TypeOK
  BY Zenon DEF TableInv
<1>p. procs \in [Index -> EntryType]
  BY Zenon DEF TableInv, TypeOK
<1>same. ASSUME procs' = procs PROVE EntriesCoherent' /\ NamesUnique' /\ OwnersKnown'
  BY Zenon, <1>same DEF TableInv, EntriesCoherent, NamesUnique, OwnersKnown
<1>1. ASSUME NEW m, do_name_lookup(m) PROVE TableInv'
  <2>1. m.source \in Clients /\ inbox' \in Seq(MsgType) /\ m.name \in AllNames
    BY Zenon, <1>1, <1>t, ReceiveTypes DEF do_name_lookup
  <2>2. reply' \in [Clients -> ReplyType]
    <3>1. CASE Entries(m.name) # {}
      <4>1. Entries(m.name) \in SUBSET Nat /\ Entries(m.name) \subseteq Index
        BY ZenonT(60), Basics DEF Entries
      <4>2. First(Entries(m.name)) \in Index
        BY Zenon, <3>1, <4>1, FirstIsLeast
      <4>3. procs[First(Entries(m.name))].nodenum \in Nodes \cup {-1}
        BY Zenon, <4>2, <1>p, EntryTypes
      <4>. QED
        BY Zenon, <1>1, <1>t, <2>1, <3>1, <4>3, AnswerTypes DEF do_name_lookup
    <3>2. CASE Entries(m.name) = {}
      BY Zenon, <1>1, <1>t, <2>1, <3>2, AnswerTypes DEF do_name_lookup
    <3>. QED
      BY Zenon, <3>1, <3>2
  <2>. QED
    BY Zenon, <1>1, <1>t, <1>same, <2>1, <2>2 DEF do_name_lookup, TableInv, TypeOK
<1>2. ASSUME NEW m, do_name_link(m) PROVE TableInv'
  <2>1. m.source \in Clients /\ inbox' \in Seq(MsgType) /\ m.name \in AllNames
    BY Zenon, <1>2, <1>t, ReceiveTypes DEF do_name_link
  <2>2. reply' \in [Clients -> ReplyType]
    BY Zenon, <1>2, <1>t, <2>1, AnswerTypes DEF do_name_link
  <2>3. procs' \in [Index -> EntryType] /\ EntriesCoherent' /\ NamesUnique' /\ OwnersKnown'
    <3>1. CASE LinkRefused(m.source, m.name)
      BY Zenon, <1>2, <1>p, <1>same, <3>1 DEF do_name_link
    <3>2. CASE ~LinkRefused(m.source, m.name)
      BY ZenonT(60), <1>2, <2>1, <3>2, LinkEffect, LinkKeepsTable
    <3>. QED
      BY Zenon, <3>1, <3>2
  <2>4. nr_registration' \in Int
    BY <1>2, <1>t DEF do_name_link, Registered, TypeOK
  <2>. QED
    BY Zenon, <1>2, <1>t, <2>1, <2>2, <2>3, <2>4 DEF do_name_link, TableInv, TypeOK
<1>3. ASSUME NEW m, do_name_unlink(m) PROVE TableInv'
  <2>1. m.source \in Clients /\ inbox' \in Seq(MsgType)
    BY Zenon, <1>3, <1>t, ReceiveTypes DEF do_name_unlink
  <2>2. reply' \in [Clients -> ReplyType]
    BY Zenon, <1>3, <1>t, <2>1, AnswerTypes DEF do_name_unlink
  <2>3. procs' \in [Index -> EntryType] /\ EntriesCoherent' /\ NamesUnique' /\ OwnersKnown'
    BY Zenon, <1>3, <1>p, <1>same, UnlinkEffect, UnlinkKeepsTable
  <2>4. nr_registration' \in Int
    BY <1>3, <1>t DEF do_name_unlink, TypeOK
  <2>. QED
    BY Zenon, <1>3, <1>t, <2>1, <2>2, <2>3, <2>4 DEF do_name_unlink, TableInv, TypeOK
<1>4. ASSUME NEW m, do_name_heartbeat(m) PROVE TableInv'
  <2>1. m.source \in Clients /\ inbox' \in Seq(MsgType)
    BY Zenon, <1>4, <1>t, ReceiveTypes DEF do_name_heartbeat
  <2>2. /\ procs' \in [Index -> EntryType]
        /\ \A i \in Index : /\ procs'[i].nodenum = procs[i].nodenum
                            /\ procs'[i].port_nr = procs[i].port_nr
                            /\ procs'[i].name = procs[i].name
                            /\ procs'[i].refcount = procs[i].refcount
    BY Zenon, <1>4, <2>1, HeartbeatKeepsTable
  <2>3. EntriesCoherent' /\ NamesUnique' /\ OwnersKnown'
    BY <2>2 DEF TableInv, EntriesCoherent, NamesUnique, OwnersKnown
  <2>4. up' \in {"loop", "exit", "panic"}
    BY Zenon, <1>4, <1>t DEF do_name_heartbeat, TypeOK
  <2>. QED
    BY Zenon, <1>4, <1>t, <2>1, <2>2, <2>3, <2>4 DEF do_name_heartbeat, TableInv, TypeOK
<1>5. ASSUME NEW m, do_name_exit(m) PROVE TableInv'
  <2>1. inbox' \in Seq(MsgType)
    BY Zenon, <1>5, <1>t, ReceiveTypes DEF do_name_exit
  <2>. QED
    BY Zenon, <1>5, <1>t, <1>same, <2>1 DEF do_name_exit, TableInv, TypeOK
<1>6. ASSUME NEW c \in Clients, NEW op \in {"lookup", "link", "unlink"},
             NEW n \in AllNames, Call(c, op, n)
      PROVE  TableInv'
  <2>1. Msg(op, c, n) \in CallType /\ Msg(op, c, n) \in MsgType
    BY Zenon, MessageTypes
  <2>2. inbox' \in Seq(MsgType) /\ call' \in [Clients -> CallType \cup {NoCall}]
    BY SMTT(60), <1>6, <1>t, <2>1 DEF Call, TypeOK
  <2>. QED
    BY Zenon, <1>6, <1>t, <1>same, <2>2 DEF Call, TableInv, TypeOK
<1>7. ASSUME NEW c \in Clients, Return(c) PROVE TableInv'
  <2>1. call' \in [Clients -> CallType \cup {NoCall}] /\ reply' \in [Clients -> ReplyType]
    BY Zenon, <1>7, <1>t, MessageTypes DEF Return, TypeOK
  <2>2. linked' \in [Clients -> [AllNames -> Int]]
    <3>1. call[c] \in CallType
      BY Zenon, <1>7, <1>t DEF Return, TypeOK
    <3>2. call[c].name \in AllNames
      BY Zenon, <3>1 DEF CallType
    <3>3. linked[c] \in [AllNames -> Int]
      BY Zenon, <1>t DEF TypeOK
    <3>4. [linked[c] EXCEPT ![call[c].name] = @ + 1] \in [AllNames -> Int]
      BY <3>2, <3>3
    <3>5. [linked[c] EXCEPT ![call[c].name] = @ - 1] \in [AllNames -> Int]
      BY SMTT(60), <3>2, <3>3
    <3>. QED
      BY Zenon, <1>7, <1>t, <3>4, <3>5 DEF Return, TypeOK
  <2>. QED
    BY Zenon, <1>7, <1>t, <1>same, <2>1, <2>2 DEF Return, TableInv, TypeOK
<1>8. ASSUME NEW c \in Clients, Heartbeat(c) PROVE TableInv'
  <2>1. Msg("alive", c, NoName) \in MsgType
    BY Zenon, MessageTypes
  <2>2. inbox' \in Seq(MsgType)
    BY SMTT(60), <1>8, <1>t, <2>1 DEF Heartbeat, TypeOK
  <2>. QED
    BY Zenon, <1>8, <1>t, <1>same, <2>2 DEF Heartbeat, TableInv, TypeOK
<1>9. ASSUME NEW c \in Clients, Shutdown(c) PROVE TableInv'
  <2>1. Msg("exit", c, NoName) \in MsgType
    BY Zenon, MessageTypes
  <2>2. inbox' \in Seq(MsgType)
    BY SMTT(60), <1>9, <1>t, <2>1 DEF Shutdown, TypeOK
  <2>. QED
    BY Zenon, <1>9, <1>t, <1>same, <2>2 DEF Shutdown, TableInv, TypeOK
<1>10. CASE UNCHANGED vars
  BY Zenon, <1>10, <1>t, <1>same DEF vars, TableInv, TypeOK
<1>. QED
  BY SMTT(60), <1>1, <1>2, <1>3, <1>4, <1>5, <1>6, <1>7, <1>8, <1>9, <1>10
  DEF Next, ServerStep, Terminated

\* For any clients, names and table size, whatever the clients send: the marks
\* of a free entry agree and no name has two entries.  So the first match that
\* do_name_lookup(), do_name_link() and do_name_unlink() stop at is the only
\* one.
THEOREM TableCorrect == Spec => [](TypeOK /\ EntriesCoherent /\ NamesUnique)
<1>1. TableInv => TypeOK /\ EntriesCoherent /\ NamesUnique
  BY Zenon DEF TableInv
<1>. QED
  BY <1>1, TableInit, TableStep, PTL DEF Spec

-----------------------------------------------------------------------------
(***************************************************************************)
(* The table implements the registry.                                      *)
(***************************************************************************)

\* In a table without duplicates, the entry of a name gives its owner and
\* its count.
LEMMA EntryFound ==
  ASSUME NEW t, NEW i \in Index,
         \A j \in Index : t[j].name = t[i].name => j = i
  PROVE  /\ OwnerIn(t, t[i].name) = <<t[i].nodenum, t[i].port_nr>>
         /\ CountIn(t, t[i].name) = t[i].refcount
<1>. DEFINE S == {j \in Index : t[j].name = t[i].name}
<1>1. S = {i} /\ S \in SUBSET Nat
  BY ZenonT(60), Basics
<1>2. First(S) = i
  BY Zenon, <1>1, FirstIsLeast
<1>. HIDE DEF S
<1>3. /\ OwnerIn(t, t[i].name) = IF S = {} THEN NoProcess ELSE <<t[First(S)].nodenum, t[First(S)].port_nr>>
      /\ CountIn(t, t[i].name) = IF S = {} THEN 0 ELSE t[First(S)].refcount
  BY Zenon DEF OwnerIn, CountIn, S
<1>. QED
  BY Zenon, <1>1, <1>2, <1>3

\* A name without an entry has no owner.
LEMMA EntryMissing ==
  ASSUME NEW t, NEW n, \A j \in Index : t[j].name # n
  PROVE  OwnerIn(t, n) = NoProcess /\ CountIn(t, n) = 0
<1>1. {j \in Index : t[j].name = n} = {}
  BY Zenon
<1>. QED
  BY Zenon, <1>1 DEF OwnerIn, CountIn

\* Tables whose entries for a name agree give it the same owner and count.
LEMMA EntriesAgree ==
  ASSUME NEW t, NEW u, NEW n,
         \A j \in Index : t[j].name = n <=> u[j].name = n,
         \A j \in Index : t[j].name = n =>
           /\ u[j].nodenum = t[j].nodenum /\ u[j].port_nr = t[j].port_nr
           /\ u[j].refcount = t[j].refcount
  PROVE  OwnerIn(u, n) = OwnerIn(t, n) /\ CountIn(u, n) = CountIn(t, n)
<1>. DEFINE S == {j \in Index : t[j].name = n}
<1>1. {j \in Index : u[j].name = n} = S
  BY Zenon
<1>2. CASE S = {}
  BY Zenon, <1>1, <1>2 DEF OwnerIn, CountIn
<1>3. CASE S # {}
  <2>1. S \in SUBSET Nat
    BY ZenonT(60), Basics
  <2>2. First(S) \in S
    BY Zenon, <1>3, <2>1, FirstIsLeast
  <2>3. First(S) \in Index /\ t[First(S)].name = n
    BY Zenon, <2>2
  <2>. QED
    BY ZenonT(60), <1>1, <1>3, <2>3 DEF OwnerIn, CountIn
<1>. QED
  BY Zenon, <1>2, <1>3

\* do_name_link() is a link of the registry.
LEMMA LinkRefines ==
  ASSUME TableInv, NamesUnique', NEW c \in Clients, NEW n \in AllNames, NEW i \in Index,
         procs' = [procs EXCEPT ![i] = LinkedEntry(c, n, procs[i])],
         \/ procs[i].name = n /\ Linker(i, c)
         \/ Entries(n) = {} /\ procs[i].nodenum < 0
  PROVE  Registry!Link(c, n)
<1>. DEFINE t == procs
<1>u. PICK u : u = procs'
  BY Zenon
<1>1. t \in [Index -> EntryType] /\ t[i] \in EntryType
  BY Zenon DEF TableInv, TypeOK
<1>2. /\ u[i] = LinkedEntry(c, n, t[i])
      /\ \A j \in Index \ {i} : u[j] = t[j]
  BY Zenon, <1>1, <1>u
<1>3. n # NoName /\ c = <<Node(c), Port(c)>>
  BY Zenon, Basics
<1>4. /\ u[i].name = n /\ u[i].refcount = t[i].refcount + 1
      /\ u[i].nodenum = Node(c) /\ u[i].port_nr = Port(c)
  <2>1. CASE procs[i].name = n /\ Linker(i, c)
    BY Zenon, <1>1, <1>2, <2>1 DEF LinkedEntry, Linker, EntryType
  <2>2. CASE Entries(n) = {} /\ procs[i].nodenum < 0
    <3>1. procs[i].name # n
      BY Zenon, <2>2 DEF Entries
    <3>. QED
      BY Zenon, <1>1, <1>2, <3>1 DEF LinkedEntry, EntryType
  <2>. QED
    BY Zenon, <2>1, <2>2
<1>5. OwnerIn(u, n) = c /\ CountIn(u, n) = t[i].refcount + 1
  <2>1. \A j \in Index : u[j].name = u[i].name => j = i
    BY SMTT(60), <1>3, <1>4, <1>u DEF NamesUnique
  <2>. QED
    BY Zenon, <1>3, <1>4, <2>1, EntryFound
<1>6. OwnerIn(t, n) \in {NoProcess, c} /\ CountIn(t, n) = t[i].refcount
  <2>1. CASE procs[i].name = n /\ Linker(i, c)
    <3>1. \A j \in Index : t[j].name = t[i].name => j = i
      BY Zenon, <1>3, <2>1 DEF TableInv, NamesUnique
    <3>. QED
      BY SMTT(60), <1>3, <2>1, <3>1, EntryFound DEF Linker
  <2>2. CASE Entries(n) = {} /\ procs[i].nodenum < 0
    <3>1. \A j \in Index : t[j].name # n
      BY Zenon, <2>2 DEF Entries
    <3>2. t[i].refcount = 0
      BY Zenon, <2>2 DEF TableInv, EntriesCoherent
    <3>. QED
      BY Zenon, <3>1, <3>2, EntryMissing
  <2>. QED
    BY Zenon, <2>1, <2>2
<1>7. ASSUME NEW k \in AllNames \ {n}
      PROVE  OwnerIn(u, k) = OwnerIn(t, k) /\ CountIn(u, k) = CountIn(t, k)
  <2>1. t[i].name \in {n, NoName} /\ k # NoName
    BY Zenon, Basics DEF TableInv, EntriesCoherent
  <2>2. \A j \in Index : t[j].name = k <=> u[j].name = k
    BY Zenon, <1>2, <1>4, <2>1
  <2>3. \A j \in Index : t[j].name = k => u[j] = t[j]
    BY Zenon, <1>2, <2>1
  <2>. QED
    BY SMTT(60), <2>2, <2>3, EntriesAgree
<1>. QED
  BY ZenonT(60), <1>u, <1>5, <1>6, <1>7 DEF Registry!Link

\* A successful do_name_unlink() is an unlink of the registry, by the process
\* that owns the name.
LEMMA UnlinkRefines ==
  ASSUME TableInv, NamesUnique', NEW i \in Index, procs[i].nodenum >= 0,
         procs' = [procs EXCEPT ![i] = UnlinkedEntry(procs[i])]
  PROVE  /\ procs[i].name \in AllNames
         /\ <<procs[i].nodenum, procs[i].port_nr>> \in Clients \cup {Server}
         /\ Registry!Unlink(<<procs[i].nodenum, procs[i].port_nr>>, procs[i].name)
<1>. DEFINE t == procs
            n == procs[i].name
            p == <<procs[i].nodenum, procs[i].port_nr>>
<1>u. PICK u : u = procs'
  BY Zenon
<1>1. t \in [Index -> EntryType] /\ t[i] \in EntryType
  BY Zenon DEF TableInv, TypeOK
<1>2. /\ u[i] = UnlinkedEntry(t[i])
      /\ \A j \in Index \ {i} : u[j] = t[j]
  BY Zenon, <1>1, <1>u
<1>3. n \in AllNames /\ n # NoName /\ p \in Clients \cup {Server}
  <2>1. procs[i].nodenum \in Int /\ n \in AllNames \cup {NoName}
    BY Zenon, <1>1, EntryTypes
  <2>. QED
    BY <2>1 DEF TableInv, EntriesCoherent, OwnersKnown
<1>4. OwnerIn(t, n) = p /\ CountIn(t, n) = t[i].refcount
  <2>1. \A j \in Index : t[j].name = t[i].name => j = i
    BY Zenon, <1>3 DEF TableInv, NamesUnique
  <2>. QED
    BY Zenon, <2>1, EntryFound
<1>5. t[i].refcount \in Nat
  BY Zenon, <1>1, EntryTypes
<1>6. /\ OwnerIn(u, n) = IF t[i].refcount = 1 THEN NoProcess ELSE p
      /\ CountIn(u, n) = t[i].refcount - 1
  <2>1. CASE t[i].refcount = 1
    <3>1. u[i].name = NoName
      BY Zenon, <1>1, <1>2, <2>1 DEF UnlinkedEntry, Freed, EntryType
    <3>2. \A j \in Index : u[j].name # n
      BY SMTT(60), <1>2, <1>3, <3>1 DEF TableInv, NamesUnique
    <3>3. OwnerIn(u, n) = NoProcess /\ CountIn(u, n) = 0
      BY Zenon, <3>2, EntryMissing
    <3>. QED
      BY <2>1, <3>3
  <2>2. CASE t[i].refcount # 1
    <3>1. /\ u[i].name = n /\ u[i].refcount = t[i].refcount - 1
          /\ <<u[i].nodenum, u[i].port_nr>> = p
      BY Zenon, <1>1, <1>2, <2>2 DEF UnlinkedEntry, EntryType
    <3>2. \A j \in Index : u[j].name = u[i].name => j = i
      BY Zenon, <1>3, <1>u, <3>1 DEF NamesUnique
    <3>3. OwnerIn(u, n) = p /\ CountIn(u, n) = t[i].refcount - 1
      BY Zenon, <3>1, <3>2, EntryFound
    <3>. QED
      BY Zenon, <2>2, <3>3
  <2>. QED
    BY Zenon, <2>1, <2>2
<1>7. ASSUME NEW k \in AllNames \ {n}
      PROVE  OwnerIn(u, k) = OwnerIn(t, k) /\ CountIn(u, k) = CountIn(t, k)
  <2>1. k # NoName /\ u[i].name \in {n, NoName}
    BY <1>1, <1>2, Basics DEF UnlinkedEntry, Freed, EntryType
  <2>2. \A j \in Index : t[j].name = k <=> u[j].name = k
    BY Zenon, <1>2, <2>1
  <2>3. \A j \in Index : t[j].name = k => u[j] = t[j]
    BY Zenon, <1>2
  <2>. QED
    BY SMTT(60), <2>2, <2>3, EntriesAgree
<1>. HIDE DEF n, p
<1>8. Registry!Unlink(p, n)
  BY ZenonT(60), <1>u, <1>3, <1>4, <1>6, <1>7 DEF Registry!Unlink
<1>. QED
  BY Zenon, <1>3, <1>8 DEF n, p

\* Steps that change no owner and no count are invisible in the registry.
LEMMA RegistryStutters ==
  ASSUME \A n \in AllNames : /\ OwnerIn(procs', n) = OwnerIn(procs, n)
                             /\ CountIn(procs', n) = CountIn(procs, n)
  PROVE  UNCHANGED Registry!vars
BY Zenon DEF Registry!vars

\* The table is the initial registry in the beginning.
LEMMA RegistryInit == Init => Registry!Init
<1>. SUFFICES ASSUME Init PROVE Registry!Init
  BY Zenon
<1>1. TableInv
  BY Zenon, TableInit
<1>2. /\ 0 \in Index /\ Server = <<Node(Server), Port(Server)>>
      /\ ServerName # NoName /\ NoName \notin AllNames
  BY Zenon, Basics
<1>3. /\ procs[0].name = ServerName /\ procs[0].refcount = 1
      /\ <<procs[0].nodenum, procs[0].port_nr>> = Server
      /\ \A j \in Index \ {0} : procs[j].name = NoName
  BY Zenon, <1>2 DEF Init, FreeEntry
<1>4. OwnerIn(procs, ServerName) = Server /\ CountIn(procs, ServerName) = 1
  <2>1. \A j \in Index : procs[j].name = procs[0].name => j = 0
    BY Zenon, <1>2, <1>3
  <2>. QED
    BY Zenon, <1>2, <1>3, <2>1, EntryFound
<1>5. ASSUME NEW n \in AllNames \ {ServerName}
      PROVE  OwnerIn(procs, n) = NoProcess /\ CountIn(procs, n) = 0
  <2>1. \A j \in Index : procs[j].name # n
    BY Zenon, <1>2, <1>3
  <2>. QED
    BY Zenon, <2>1, EntryMissing
<1>. QED
  BY Zenon, <1>4, <1>5 DEF Registry!Init

\* Every step is a step of the registry or none.
LEMMA RegistryStep ==
  TableInv /\ TableInv' /\ [Next]_vars => [Registry!Next]_(Registry!vars)
<1>. SUFFICES ASSUME TableInv, TableInv', [Next]_vars
              PROVE  Registry!Next \/ UNCHANGED Registry!vars
  BY Zenon
<1>t. TypeOK /\ NamesUnique'
  BY Zenon DEF TableInv
<1>same. ASSUME procs' = procs PROVE UNCHANGED Registry!vars
  BY Zenon, <1>same, RegistryStutters
<1>1. ASSUME NEW m, do_name_link(m) PROVE Registry!Next \/ UNCHANGED Registry!vars
  <2>1. m.source \in Clients /\ m.name \in AllNames
    BY Zenon, <1>1, <1>t, ReceiveTypes DEF do_name_link
  <2>2. CASE LinkRefused(m.source, m.name)
    BY Zenon, <1>1, <1>same, <2>2 DEF do_name_link
  <2>3. CASE ~LinkRefused(m.source, m.name)
    <3>1. Registry!Link(m.source, m.name)
      BY Zenon, <1>1, <1>t, <2>1, <2>3, LinkEffect, LinkRefines
    <3>. QED
      BY Zenon, <2>1, <3>1 DEF Registry!Next
  <2>. QED
    BY Zenon, <2>2, <2>3
<1>2. ASSUME NEW m, do_name_unlink(m) PROVE Registry!Next \/ UNCHANGED Registry!vars
  <2>1. CASE procs' = procs
    BY Zenon, <1>same, <2>1
  <2>2. CASE procs' # procs
    <3>1. \E p \in Clients \cup {Server}, n \in AllNames : Registry!Unlink(p, n)
      BY Zenon, <1>2, <1>t, <2>2, UnlinkEffect, UnlinkRefines
    <3>. QED
      BY Zenon, <3>1 DEF Registry!Next
  <2>. QED
    BY Zenon, <2>1, <2>2
<1>3. ASSUME NEW m, do_name_heartbeat(m) PROVE Registry!Next \/ UNCHANGED Registry!vars
  <2>1. m.source \in Clients
    BY Zenon, <1>3, <1>t, ReceiveTypes DEF do_name_heartbeat
  <2>2. \A n \in AllNames : /\ OwnerIn(procs', n) = OwnerIn(procs, n)
                            /\ CountIn(procs', n) = CountIn(procs, n)
    BY SMTT(60), <1>3, <2>1, HeartbeatKeepsTable, EntriesAgree
  <2>. QED
    BY Zenon, <2>2, RegistryStutters
<1>4. CASE procs' = procs
  BY Zenon, <1>same, <1>4
<1>. QED
  BY Zenon, <1>1, <1>2, <1>3, <1>4
  DEF Next, ServerStep, Terminated, vars, servervars, do_name_lookup, do_name_exit,
      Call, Return, Heartbeat, Shutdown

\* For any clients, names and table size, whatever the clients send, the table
\* of the name server is an atomic registry: a link takes a name nobody owns
\* or one the caller owns, and a name is given up with its last reference.
THEOREM RegistryImplemented == Spec => ImplementsRegistry
BY TableInit, TableStep, RegistryInit, RegistryStep, PTL
DEF Spec, ImplementsRegistry, Registry!Spec

-----------------------------------------------------------------------------
(***************************************************************************)
(* The count of registrations.                                             *)
(***************************************************************************)

\* One counter of the entries is one up.
LEMMA EntriesTotal ==
  ASSUME NEW f, NEW g, NEW i, f \in [Index -> Nat], g \in [Index -> Nat], i \in Index,
         g[i] = f[i] + 1, \A j \in Index \ {i} : g[j] = f[j]
  PROVE  Total(g) = Total(f) + 1
<1>1. IsFiniteSet(Index)
  BY FS_Interval, NameAssumption DEF Index
<1>. QED
  BY Zenon, <1>1, TotalUp

\* Entry i has one more reference in table u than in table t.
LEMMA RefcountsUp ==
  ASSUME NEW t, NEW u, NEW i \in Index, t \in [Index -> EntryType], u \in [Index -> EntryType],
         u[i].refcount = t[i].refcount + 1, \A j \in Index \ {i} : u[j].refcount = t[j].refcount
  PROVE  Total([j \in Index |-> u[j].refcount]) = Total([j \in Index |-> t[j].refcount]) + 1
<1>1. PICK f \in [Index -> Nat] : f = [j \in Index |-> t[j].refcount]
  BY Zenon, EntryTypes
<1>2. PICK g \in [Index -> Nat] : g = [j \in Index |-> u[j].refcount]
  BY Zenon, EntryTypes
<1>4. g[i] = f[i] + 1 /\ \A j \in Index \ {i} : g[j] = f[j]
  BY Zenon, <1>1, <1>2
<1>5. Total(g) = Total(f) + 1
  BY SMTT(30), <1>4, EntriesTotal
<1>. QED
  BY Zenon, <1>1, <1>2, <1>5

\* At the start the only reference is the one of the server's own entry.
LEMMA RegistrationsInit == Init => RegistrationsCounted
<1>. SUFFICES ASSUME Init PROVE RegistrationsCounted
  BY Zenon
<1>0. 0 \in Index
  BY Zenon, Basics
<1>1. PICK f \in [Index -> Nat] : f = [i \in Index |-> 0]
  BY Zenon
<1>2. PICK g \in [Index -> Nat] : g = [i \in Index |-> procs[i].refcount]
  BY Zenon, TableInit, EntryTypes DEF TableInv, TypeOK
<1>3. IsFiniteSet(Index)
  BY FS_Interval, NameAssumption DEF Index
<1>4. g[0] = 1 /\ \A i \in Index \ {0} : g[i] = f[i]
  BY Zenon, <1>0, <1>1, <1>2 DEF Init, FreeEntry
<1>5. g[0] = f[0] + 1
  BY <1>0, <1>1, <1>4
<1>6. Total(g) = Total(f) + 1
  BY Zenon, <1>0, <1>3, <1>4, <1>5, TotalUp
<1>7. Total(f) = 0
  BY Zenon, <1>1, TotalZero
<1>8. Total(g) - 1 = 0
  BY <1>6, <1>7
<1>. QED
  BY Zenon, <1>2, <1>8 DEF RegistrationsCounted, Init

\* The handlers of link and unlink count what they do to the table.
LEMMA RegistrationsStep ==
  ASSUME TableInv, TableInv', RegistrationsCounted, [Next]_vars
  PROVE  RegistrationsCounted'
<1>p. procs \in [Index -> EntryType] /\ procs' \in [Index -> EntryType] /\ nr_registration \in Int /\ TypeOK
  BY Zenon DEF TableInv, TypeOK
<1>n. /\ Total([j \in Index |-> procs[j].refcount]) \in Nat
      /\ Total([j \in Index |-> procs'[j].refcount]) \in Nat
  <2>1. PICK f \in [Index -> Nat] : f = [j \in Index |-> procs[j].refcount]
    BY Zenon, <1>p, EntryTypes
  <2>2. PICK g \in [Index -> Nat] : g = [j \in Index |-> procs'[j].refcount]
    BY Zenon, <1>p, EntryTypes
  <2>3. IsFiniteSet(Index)
    BY FS_Interval, NameAssumption DEF Index
  <2>. QED
    BY Zenon, <2>1, <2>2, <2>3, TotalType
<1>same. ASSUME \A j \in Index : procs'[j].refcount = procs[j].refcount, nr_registration' = nr_registration
         PROVE  RegistrationsCounted'
  <2>1. [j \in Index |-> procs'[j].refcount] = [j \in Index |-> procs[j].refcount]
    BY Zenon, <1>same
  <2>. QED
    BY Zenon, <1>same, <2>1 DEF RegistrationsCounted
<1>1. ASSUME NEW m, do_name_link(m) PROVE RegistrationsCounted'
  <2>1. m.source \in Clients /\ m.name \in AllNames
    BY Zenon, <1>p, <1>1, ReceiveTypes DEF do_name_link
  <2>2. CASE LinkRefused(m.source, m.name)
    BY Zenon, <1>1, <1>same, <2>2 DEF do_name_link
  <2>3. CASE ~LinkRefused(m.source, m.name)
    <3>1. PICK i \in Index : procs' = [procs EXCEPT ![i] = LinkedEntry(m.source, m.name, procs[i])]
      BY Zenon, <1>1, <2>3, LinkEffect
    <3>2. /\ procs'[i].refcount = procs[i].refcount + 1
          /\ \A j \in Index \ {i} : procs'[j].refcount = procs[j].refcount
      BY Zenon, <1>p, <3>1 DEF LinkedEntry, EntryType
    <3>3. Total([j \in Index |-> procs'[j].refcount]) = Total([j \in Index |-> procs[j].refcount]) + 1
      BY Zenon, <1>p, <3>2, RefcountsUp
    <3>4. nr_registration' = nr_registration + 1
      BY Zenon, <1>1, <2>3 DEF do_name_link, Registered
    <3>. QED
      BY <1>n, <1>p, <3>3, <3>4 DEF RegistrationsCounted
  <2>. QED
    BY Zenon, <2>2, <2>3
<1>2. ASSUME NEW m, do_name_unlink(m) PROVE RegistrationsCounted'
  <2>1. CASE nr_registration' = nr_registration /\ procs' = procs
    BY Zenon, <1>same, <2>1
  <2>2. ASSUME NEW i \in Index, procs' = [procs EXCEPT ![i] = UnlinkedEntry(procs[i])],
               nr_registration' = nr_registration - 1, procs[i].nodenum >= 0
        PROVE  RegistrationsCounted'
    <3>1. procs[i].refcount \in Nat /\ procs[i].refcount > 0 /\ procs'[i].refcount \in Nat
      BY <1>p, <2>2, EntryTypes DEF TableInv, EntriesCoherent
    <3>2. procs'[i] = UnlinkedEntry(procs[i]) /\ \A j \in Index \ {i} : procs'[j] = procs[j]
      BY Zenon, <1>p, <2>2
    <3>3. \/ procs[i].refcount = 1 /\ procs'[i].refcount = 0
          \/ procs'[i].refcount = procs[i].refcount - 1
      BY Zenon, <1>p, <3>2 DEF UnlinkedEntry, Freed, EntryType
    <3>4. procs[i].refcount = procs'[i].refcount + 1
      BY <3>1, <3>3
    <3>5. Total([j \in Index |-> procs[j].refcount]) = Total([j \in Index |-> procs'[j].refcount]) + 1
      BY ZenonT(40), <1>p, <3>2, <3>4, RefcountsUp
    <3>. QED
      BY <1>n, <1>p, <2>2, <3>5 DEF RegistrationsCounted
  <2>. QED
    BY Zenon, <1>2, <2>1, <2>2, UnlinkEffect
<1>3. ASSUME NEW m, do_name_heartbeat(m) PROVE RegistrationsCounted'
  <2>1. m.source \in Clients /\ nr_registration' = nr_registration
    BY Zenon, <1>p, <1>3, ReceiveTypes DEF do_name_heartbeat
  <2>. QED
    BY Zenon, <1>3, <1>same, <2>1, HeartbeatKeepsTable
<1>4. CASE nr_registration' = nr_registration /\ procs' = procs
  BY Zenon, <1>same, <1>4
<1>. QED
  BY Zenon, <1>1, <1>2, <1>3, <1>4
  DEF Next, ServerStep, Terminated, vars, servervars, do_name_lookup, do_name_exit,
      Call, Return, Heartbeat, Shutdown

\* For any clients, names and table size, whatever the clients send, the
\* counter that do_name_link() compares with NANVIX_PNAME_MAX is the number
\* of references in the table, the one of do_name_init() left out.
THEOREM RegistrationsCorrect == Spec => []RegistrationsCounted
BY TableInit, TableStep, RegistrationsInit, RegistrationsStep, PTL DEF Spec

-----------------------------------------------------------------------------
(***************************************************************************)
(* The links of the clients.                                               *)
(***************************************************************************)

IsCall(m) == m.op \in {"lookup", "link", "unlink"}

\* A call in the mailbox of the server is the one its sender waits for; a
\* client sends nothing while it waits.
Mailbox ==
  /\ \A i \in DOMAIN inbox : IsCall(inbox[i]) =>
       call[inbox[i].source] = inbox[i] /\ reply[inbox[i].source] = NoReply
  /\ \A i, j \in DOMAIN inbox : i < j /\ IsCall(inbox[i]) => inbox[i].source # inbox[j].source
  /\ \A c \in Clients : call[c] = NoCall => reply[c] = NoReply

\* The links of name n that client c was told of, or will be by the answer in
\* its mailbox, are its references.
Pending(c, n, op) == call[c].op = op /\ call[c].name = n /\ reply[c].errcode = "ok"
Told(c, n) == linked[c][n] + (IF Pending(c, n, "link") THEN 1 ELSE 0)
                           - (IF Pending(c, n, "unlink") THEN 1 ELSE 0)
Ledger == \A c \in Clients, n \in AllNames : Told(c, n) = Refs(c, n)

\* A client that waits for an unlink has the name linked.
Unlinking ==
  \A c \in Clients : call[c].op = "unlink" /\ reply[c] = NoReply => linked[c][call[c].name] > 0

\* The sender of a heartbeat has a name linked.
InFlight(c) == \E i \in DOMAIN inbox : inbox[i].op = "alive" /\ inbox[i].source = c
Beating == \A c \in Clients : InFlight(c) => \E n \in AllNames : Refs(c, n) > 0

LinkInv == TableInv /\ Mailbox /\ Ledger /\ Unlinking /\ Beating /\ up # "panic"

\* The messages that a take leaves in a mailbox.
LEMMA TailOf ==
  ASSUME NEW T, NEW s, s \in Seq(T), s # <<>>
  PROVE  /\ 1 \in DOMAIN s /\ Head(s) = s[1]
         /\ \A i \in DOMAIN Tail(s) : i + 1 \in DOMAIN s /\ Tail(s)[i] = s[i + 1] /\ 1 < i + 1
         /\ \A i, j \in DOMAIN Tail(s) : i < j => i + 1 < j + 1
OBVIOUS

\* The messages in a mailbox after a send.
Appended(s, x, u) ==
  \A i \in DOMAIN u : /\ \/ i \in DOMAIN s /\ u[i] = s[i]
                         \/ i = Len(s) + 1 /\ u[i] = x
                      /\ ~(Len(s) + 1 < i)

\* Append() puts its element at the end, and nothing else changes.
LEMMA AppendOf ==
  ASSUME NEW T, NEW s, NEW x, s \in Seq(T), x \in T
  PROVE  Appended(s, x, Append(s, x))
BY DEF Appended

\* A client that does not wait sends a message.
LEMMA MailboxSend ==
  ASSUME TypeOK, Mailbox, NEW c \in Clients, NEW x \in MsgType, x.source = c,
         call[c] = NoCall, inbox' = Append(inbox, x), reply' = reply,
         call' = IF IsCall(x) THEN [call EXCEPT ![c] = x] ELSE call
  PROVE  Mailbox'
<1>1. inbox \in Seq(MsgType) /\ DOMAIN call = Clients
  BY Zenon DEF TypeOK
<1>2. \A i \in DOMAIN inbox' :
        /\ \/ i \in DOMAIN inbox /\ inbox'[i] = inbox[i]
           \/ i = Len(inbox) + 1 /\ inbox'[i] = x
        /\ ~(Len(inbox) + 1 < i)
  <2>1. Appended(inbox, x, Append(inbox, x))
    BY Zenon, <1>1, AppendOf
  <2>2. Appended(inbox, x, inbox')
    BY Zenon, <2>1
  <2>. QED
    BY Zenon, <2>2 DEF Appended
<1>3. ~IsCall(NoCall)
  BY DEF IsCall, NoCall
<1>4. \A i \in DOMAIN inbox : IsCall(inbox[i]) => inbox[i].source # c
  BY Zenon, <1>3 DEF Mailbox
<1>5. /\ \A d \in Clients \ {c} : call'[d] = call[d]
      /\ IsCall(x) => call'[c] = x
      /\ ~IsCall(x) => call' = call
  BY Zenon, <1>1
<1>6. \A i \in DOMAIN inbox : inbox[i].source \in Clients
  <2>1. \A i \in DOMAIN inbox : inbox[i] \in MsgType
    BY <1>1
  <2>. QED
    BY Zenon, <2>1, MessageTypes
<1>7. ASSUME NEW i \in DOMAIN inbox', IsCall(inbox'[i])
      PROVE  call'[inbox'[i].source] = inbox'[i] /\ reply'[inbox'[i].source] = NoReply
  <2>1. CASE i \in DOMAIN inbox /\ inbox'[i] = inbox[i]
    <3>1. /\ inbox[i].source \in Clients \ {c} /\ call[inbox[i].source] = inbox[i]
          /\ reply[inbox[i].source] = NoReply
      BY Zenon, <1>4, <1>6, <1>7, <2>1 DEF Mailbox
    <3>. QED
      BY Zenon, <1>5, <2>1, <3>1
  <2>2. CASE inbox'[i] = x
    BY Zenon, <1>5, <1>7, <2>2 DEF Mailbox
  <2>. QED
    BY Zenon, <1>2, <2>1, <2>2
<1>8. ASSUME NEW i \in DOMAIN inbox', NEW j \in DOMAIN inbox', i < j, IsCall(inbox'[i])
      PROVE  inbox'[i].source # inbox'[j].source
  <2>1. i \in DOMAIN inbox /\ inbox'[i] = inbox[i]
    BY Zenon, <1>2, <1>8
  <2>2. CASE j \in DOMAIN inbox /\ inbox'[j] = inbox[j]
    BY Zenon, <1>8, <2>1, <2>2 DEF Mailbox
  <2>3. CASE inbox'[j] = x
    BY Zenon, <1>4, <1>8, <2>1, <2>3
  <2>. QED
    BY Zenon, <1>2, <2>2, <2>3
<1>9. \A d \in Clients : call'[d] = NoCall => reply'[d] = NoReply
  BY Zenon, <1>3, <1>5 DEF Mailbox
<1>. QED
  BY ZenonT(40), <1>7, <1>8, <1>9 DEF Mailbox

\* The server takes a message, and answers nobody but its sender.
LEMMA MailboxTake ==
  ASSUME TypeOK, Mailbox, NEW m, NEW op, Receive(m, op), call' = call,
         \A d \in Clients \ {m.source} : reply'[d] = reply[d],
         ~IsCall(m) => reply' = reply
  PROVE  /\ Mailbox'
         /\ \A i \in DOMAIN inbox' : \E j \in DOMAIN inbox : inbox'[i] = inbox[j]
         /\ IsCall(m) => /\ call[m.source] = m /\ reply[m.source] = NoReply
                         /\ \A i \in DOMAIN inbox' : inbox'[i].source # m.source
         /\ m.op = "alive" => \E i \in DOMAIN inbox : inbox[i] = m
<1>1. inbox \in Seq(MsgType) /\ inbox # <<>> /\ m = Head(inbox) /\ inbox' = Tail(inbox)
  BY Zenon DEF TypeOK, Receive
<1>2. /\ 1 \in DOMAIN inbox /\ m = inbox[1]
      /\ \A i \in DOMAIN inbox' : i + 1 \in DOMAIN inbox /\ inbox'[i] = inbox[i + 1] /\ 1 < i + 1
      /\ \A i, j \in DOMAIN inbox' : i < j => i + 1 < j + 1
  BY ZenonT(40), <1>1, TailOf
<1>a. ASSUME NEW i \in DOMAIN inbox' PROVE \E k \in DOMAIN inbox : inbox'[i] = inbox[k] /\ 1 < k
  BY Zenon, <1>2
<1>3. ASSUME IsCall(m), NEW i \in DOMAIN inbox' PROVE inbox'[i].source # m.source
  <2>1. PICK k \in DOMAIN inbox : inbox'[i] = inbox[k] /\ 1 < k
    BY Zenon, <1>a
  <2>2. inbox[1].source # inbox[k].source
    <3>1. 1 \in DOMAIN inbox /\ IsCall(inbox[1])
      BY Zenon, <1>2, <1>3
    <3>. QED
      BY Zenon, <2>1, <3>1 DEF Mailbox
  <2>. QED
    BY Zenon, <1>2, <2>1, <2>2
<1>4. \A i \in DOMAIN inbox : inbox[i].source \in Clients
  <2>1. \A i \in DOMAIN inbox : inbox[i] \in MsgType
    BY <1>1
  <2>. QED
    BY Zenon, <2>1, MessageTypes
<1>5. IsCall(m) => call[m.source] = m /\ reply[m.source] = NoReply
  BY Zenon, <1>2 DEF Mailbox
<1>6. ASSUME NEW i \in DOMAIN inbox', IsCall(inbox'[i])
      PROVE  call'[inbox'[i].source] = inbox'[i] /\ reply'[inbox'[i].source] = NoReply
  <2>1. /\ inbox'[i].source \in Clients /\ call[inbox'[i].source] = inbox'[i]
        /\ reply[inbox'[i].source] = NoReply
    <3>1. PICK k \in DOMAIN inbox : inbox'[i] = inbox[k]
      BY Zenon, <1>a
    <3>. QED
      BY Zenon, <1>4, <1>6, <3>1 DEF Mailbox
  <2>. QED
    BY Zenon, <1>3, <2>1
<1>7. ASSUME NEW i \in DOMAIN inbox', NEW j \in DOMAIN inbox', i < j, IsCall(inbox'[i])
      PROVE  inbox'[i].source # inbox'[j].source
  <2>1. PICK k \in DOMAIN inbox, l \in DOMAIN inbox :
          inbox'[i] = inbox[k] /\ inbox'[j] = inbox[l] /\ k < l
    BY Zenon, <1>2, <1>7
  <2>2. inbox[k].source # inbox[l].source
    <3>1. IsCall(inbox[k])
      BY Zenon, <1>7, <2>1
    <3>. QED
      BY Zenon, <2>1, <3>1 DEF Mailbox
  <2>. QED
    BY Zenon, <2>1, <2>2
<1>8. ASSUME NEW d \in Clients, call'[d] = NoCall PROVE reply'[d] = NoReply
  <2>1. ~IsCall(NoCall)
    BY DEF IsCall, NoCall
  <2>. QED
    BY Zenon, <1>5, <1>8, <2>1 DEF Mailbox
<1>9. Mailbox'
  BY Zenon, <1>6, <1>7, <1>8 DEF Mailbox
<1>. QED
  BY Zenon, <1>a, <1>2, <1>3, <1>5, <1>9

\* The count of a name is a natural number, and zero if nobody owns it.
LEMMA CountType ==
  ASSUME NEW t, NEW n, t \in [Index -> EntryType]
  PROVE  CountIn(t, n) \in Nat
<1>. DEFINE S == {j \in Index : t[j].name = n}
<1>1. CASE S = {}
  <2>1. CountIn(t, n) = 0
    BY Zenon, <1>1 DEF CountIn
  <2>. QED
    BY <2>1
<1>2. CASE S # {}
  <2>1. S \in SUBSET Nat
    BY ZenonT(60), Basics
  <2>2. First(S) \in S
    BY Zenon, <1>2, <2>1, FirstIsLeast
  <2>3. CountIn(t, n) = t[First(S)].refcount
    BY Zenon, <1>2 DEF CountIn
  <2>. QED
    BY Zenon, <2>2, <2>3, EntryTypes
<1>. QED
  BY Zenon, <1>1, <1>2

\* A name that somebody owns has an entry.
LEMMA OwnedEntry ==
  ASSUME TableInv, NEW n \in AllNames
  PROVE  \/ OwnerIn(procs, n) = NoProcess /\ CountIn(procs, n) = 0
         \/ \E i \in Index :
              /\ procs[i].name = n /\ procs[i].nodenum >= 0
              /\ OwnerIn(procs, n) = <<procs[i].nodenum, procs[i].port_nr>>
              /\ CountIn(procs, n) = procs[i].refcount /\ OwnerIn(procs, n) # NoProcess
<1>1. CASE \A j \in Index : procs[j].name # n
  BY Zenon, <1>1, EntryMissing
<1>2. ASSUME NEW i \in Index, procs[i].name = n
      PROVE  /\ procs[i].nodenum >= 0
             /\ OwnerIn(procs, n) = <<procs[i].nodenum, procs[i].port_nr>>
             /\ CountIn(procs, n) = procs[i].refcount /\ OwnerIn(procs, n) # NoProcess
  <2>1. n # NoName
    BY Zenon, Basics
  <2>2. procs[i].nodenum \in Int /\ ~(procs[i].nodenum < 0)
    BY Zenon, <1>2, <2>1, EntryTypes DEF TableInv, TypeOK, EntriesCoherent
  <2>3. procs[i].nodenum >= 0 /\ <<procs[i].nodenum, procs[i].port_nr>> # NoProcess
    BY <2>2 DEF NoProcess
  <2>4. \A j \in Index : procs[j].name = procs[i].name => j = i
    BY Zenon, <1>2, <2>1 DEF TableInv, NamesUnique
  <2>. QED
    BY Zenon, <1>2, <2>3, <2>4, EntryFound
<1>. QED
  BY Zenon, <1>1, <1>2

\* Client c has a reference of name n more, or less, and no other reference
\* changes.
OtherRefs(c, n) ==
  \A d \in Clients, k \in AllNames : d # c \/ k # n => Refs(d, k)' = Refs(d, k)
SameRefs == \A d \in Clients, k \in AllNames : Refs(d, k)' = Refs(d, k)

\* A link that is not refused counts one reference of the client to the name.
LEMMA LinkRefs ==
  ASSUME TableInv, TableInv', NEW m, do_name_link(m), ~LinkRefused(m.source, m.name)
  PROVE  Refs(m.source, m.name)' = Refs(m.source, m.name) + 1 /\ OtherRefs(m.source, m.name)
<1>. DEFINE c == m.source
            n == m.name
<1>1. c \in Clients /\ n \in AllNames
  BY Zenon, ReceiveTypes DEF do_name_link, TableInv
<1>2. Registry!Link(c, n)
  BY Zenon, <1>1, LinkEffect, LinkRefines DEF TableInv
<1>. HIDE DEF c, n
<1>3. /\ OwnerIn(procs, n) \in {NoProcess, c}
      /\ OwnerIn(procs', n) = c /\ CountIn(procs', n) = CountIn(procs, n) + 1
      /\ \A k \in AllNames \ {n} : /\ OwnerIn(procs', k) = OwnerIn(procs, k)
                                   /\ CountIn(procs', k) = CountIn(procs, k)
  BY ZenonT(60), <1>1, <1>2 DEF Registry!Link
<1>4. \A d \in Clients : d # NoProcess
  BY NameAssumption DEF NoProcess
<1>5. Refs(c, n)' = Refs(c, n) + 1
  <2>1. Refs(c, n) = CountIn(procs, n)
    BY Zenon, <1>1, <1>3, <1>4, OwnedEntry DEF Refs
  <2>. QED
    BY Zenon, <1>3, <2>1 DEF Refs
<1>6. ASSUME NEW d \in Clients, NEW k \in AllNames, d # c \/ k # n
      PROVE  Refs(d, k)' = Refs(d, k)
  <2>1. CASE k = n
    <3>1. OwnerIn(procs, k) # d /\ OwnerIn(procs', k) # d
      BY Zenon, <1>3, <1>4, <1>6, <2>1
    <3>. QED
      BY Zenon, <3>1 DEF Refs
  <2>2. CASE k # n
    BY Zenon, <1>3, <2>2 DEF Refs
  <2>. QED
    BY Zenon, <2>1, <2>2
<1>. QED
  BY Zenon, <1>5, <1>6 DEF OtherRefs, c, n

\* do_name_unlink() for a client that has the name.
LEMMA UnlinkRefs ==
  ASSUME TableInv, TableInv', NEW m, do_name_unlink(m), Refs(m.source, m.name) > 0
  PROVE  /\ Refs(m.source, m.name) = Refs(m.source, m.name)' + 1
         /\ OtherRefs(m.source, m.name) /\ Answer(m.source, "ok", -1)
<1>. DEFINE c == m.source
            n == m.name
<1>1. c \in Clients /\ n \in AllNames
  BY Zenon, ReceiveTypes DEF do_name_unlink, TableInv
<1>2. OwnerIn(procs, n) = c /\ CountIn(procs, n) > 0
  BY DEF Refs
<1>3. c # NoProcess /\ c = <<Node(c), Port(c)>>
  BY <1>1, NameAssumption, Basics DEF NoProcess
<1>4. PICK j \in Index : /\ procs[j].name = n /\ procs[j].nodenum >= 0
                         /\ c = <<procs[j].nodenum, procs[j].port_nr>>
  <2>1. OwnerIn(procs, n) # NoProcess
    BY Zenon, <1>2, <1>3
  <2>2. PICK j \in Index : /\ procs[j].name = n /\ procs[j].nodenum >= 0
                           /\ OwnerIn(procs, n) = <<procs[j].nodenum, procs[j].port_nr>>
    BY Zenon, <1>1, <2>1, OwnedEntry
  <2>. QED
    BY Zenon, <1>2, <2>2
<1>5. MayUnlink(c, j)
  BY <1>4 DEF MayUnlink, Port
<1>6. PICK i \in Index : /\ procs' = [procs EXCEPT ![i] = UnlinkedEntry(procs[i])]
                         /\ Answer(c, "ok", -1)
                         /\ procs[i].name = n /\ procs[i].nodenum >= 0
  BY Zenon, <1>4, <1>5, UnlinkEffect
<1>7. i = j
  BY Zenon, <1>1, <1>4, <1>6, Basics DEF TableInv, NamesUnique
<1>8. Registry!Unlink(c, n)
  BY Zenon, <1>4, <1>6, <1>7, UnlinkRefines DEF TableInv
<1>. HIDE DEF c, n
<1>9. /\ CountIn(procs', n) = CountIn(procs, n) - 1
      /\ OwnerIn(procs', n) = IF CountIn(procs, n) = 1 THEN NoProcess ELSE c
      /\ \A k \in AllNames \ {n} : /\ OwnerIn(procs', k) = OwnerIn(procs, k)
                                   /\ CountIn(procs', k) = CountIn(procs, k)
  BY ZenonT(60), <1>1, <1>2, <1>8 DEF Registry!Unlink
<1>10. CountIn(procs, n) \in Nat
  BY Zenon, CountType DEF TableInv, TypeOK
<1>11. Refs(c, n) = Refs(c, n)' + 1
  <2>1. CASE CountIn(procs, n) = 1
    BY <1>2, <1>3, <1>9, <2>1 DEF Refs
  <2>2. CASE CountIn(procs, n) # 1
    BY <1>2, <1>3, <1>9, <1>10, <2>2 DEF Refs
  <2>. QED
    BY Zenon, <2>1, <2>2
<1>12. ASSUME NEW d \in Clients, NEW k \in AllNames, d # c \/ k # n
       PROVE  Refs(d, k)' = Refs(d, k)
  <2>0. d # NoProcess
    BY NameAssumption DEF NoProcess
  <2>1. CASE k = n
    <3>1. OwnerIn(procs, k) # d /\ OwnerIn(procs', k) # d
      BY Zenon, <1>2, <1>9, <1>12, <2>0, <2>1
    <3>. QED
      BY Zenon, <3>1 DEF Refs
  <2>2. CASE k # n
    BY Zenon, <1>9, <2>2 DEF Refs
  <2>. QED
    BY Zenon, <2>1, <2>2
<1>. QED
  BY Zenon, <1>6, <1>11, <1>12 DEF OtherRefs, c, n

\* A heartbeat of a client that has a name finds its node.
LEMMA HeartbeatRefs ==
  ASSUME TableInv, NEW m, do_name_heartbeat(m), up # "panic",
         \E n \in AllNames : Refs(m.source, n) > 0
  PROVE  SameRefs /\ up' # "panic"
<1>1. m.source \in Clients
  BY Zenon, ReceiveTypes DEF do_name_heartbeat, TableInv
<1>2. \A n \in AllNames : /\ OwnerIn(procs', n) = OwnerIn(procs, n)
                          /\ CountIn(procs', n) = CountIn(procs, n)
  BY SMTT(60), <1>1, HeartbeatKeepsTable, EntriesAgree
<1>3. SameRefs
  BY Zenon, <1>2 DEF SameRefs, Refs
<1>4. PICK n \in AllNames : Refs(m.source, n) > 0
  BY Zenon
<1>5. OwnerIn(procs, n) = m.source
  BY <1>4 DEF Refs
<1>6. m.source # NoProcess
  BY <1>1, NameAssumption DEF NoProcess
<1>7. PICK i \in Index : m.source = <<procs[i].nodenum, procs[i].port_nr>>
  <2>1. OwnerIn(procs, n) # NoProcess
    BY Zenon, <1>5, <1>6
  <2>2. PICK j \in Index : OwnerIn(procs, n) = <<procs[j].nodenum, procs[j].port_nr>>
    BY Zenon, <2>1, OwnedEntry
  <2>. QED
    BY Zenon, <1>5, <2>2
<1>8. procs[i].nodenum = Node(m.source)
  BY <1>7 DEF Node
<1>9. EntriesOfNode(Node(m.source)) # {}
  BY Zenon, <1>8 DEF EntriesOfNode
<1>. QED
  BY Zenon, <1>3, <1>9 DEF do_name_heartbeat

\* What an answer in the mailbox adds to the links that a client was told of.
LEMMA ToldSum ==
  ASSUME NEW x, NEW L, NEW U, x \in Int
  PROVE  LET v == x + (IF L THEN 1 ELSE 0) - (IF U THEN 1 ELSE 0) IN
         /\ ~L /\ ~U => v = x
         /\ L /\ ~U => v = x + 1
         /\ ~L /\ U => v = x - 1
<1>1. CASE L
  BY <1>1
<1>2. CASE ~L
  BY <1>2
<1>. QED
  BY Zenon, <1>1, <1>2

\* What a client knows of a name, and what it will know from the answer under way.
LEMMA ToldIs ==
  ASSUME TypeOK, NEW c \in Clients, NEW n \in AllNames
  PROVE  /\ linked[c][n] \in Int
         /\ ~Pending(c, n, "link") /\ ~Pending(c, n, "unlink") => Told(c, n) = linked[c][n]
         /\ Pending(c, n, "link") => Told(c, n) = linked[c][n] + 1
         /\ Pending(c, n, "unlink") => Told(c, n) = linked[c][n] - 1
<1>1. linked[c][n] \in Int
  BY Zenon DEF TypeOK
<1>2. ~(Pending(c, n, "link") /\ Pending(c, n, "unlink"))
  BY Zenon DEF Pending
<1>. QED
  BY Zenon, <1>1, <1>2, ToldSum DEF Told

\* The same, of the next state.
LEMMA ToldNext ==
  ASSUME TypeOK', NEW c \in Clients, NEW n \in AllNames
  PROVE  /\ linked'[c][n] \in Int
         /\ ~Pending(c, n, "link")' /\ ~Pending(c, n, "unlink")' => Told(c, n)' = linked'[c][n]
         /\ Pending(c, n, "link")' => Told(c, n)' = linked'[c][n] + 1
         /\ Pending(c, n, "unlink")' => Told(c, n)' = linked'[c][n] - 1
<1>1. linked'[c][n] \in Int
  BY Zenon DEF TypeOK
<1>2. ~(Pending(c, n, "link")' /\ Pending(c, n, "unlink")')
  BY Zenon DEF Pending
<1>. QED
  BY Zenon, <1>1, <1>2, ToldSum DEF Told

\* The fields of messages.
LEMMA Answers ==
  /\ NoReply.errcode = "none" /\ NoCall.op = "none"
  /\ \A op, c, n : /\ Msg(op, c, n).op = op /\ Msg(op, c, n).source = c
                   /\ Msg(op, c, n).name = n
BY Zenon DEF NoReply, NoCall, Msg

\* The server handles the call of a client.
LEMMA HandledStep ==
  ASSUME LinkInv, TableInv', NEW m, NEW op \in {"lookup", "link", "unlink"}, Receive(m, op),
         NEW e \in {"ok", "EINVAL", "ENOENT"}, NEW k, Answer(m.source, e, k),
         call' = call, linked' = linked, up' = up, OtherRefs(m.source, m.name),
         LET told == linked[m.source][m.name] IN
         Refs(m.source, m.name)' = IF e = "ok" /\ op = "link" THEN told + 1
                                   ELSE IF e = "ok" /\ op = "unlink" THEN told - 1 ELSE told
  PROVE  LinkInv'
<1>. DEFINE c == m.source
            n == m.name
<1>0. TypeOK /\ TypeOK' /\ Mailbox /\ Ledger /\ Unlinking /\ Beating /\ DOMAIN reply = Clients
  BY Zenon DEF LinkInv, TableInv, TypeOK
<1>1. c \in Clients /\ n \in AllNames /\ m.op = op /\ IsCall(m)
  BY Zenon, <1>0, ReceiveTypes DEF IsCall
<1>2. reply'[c] = Answered(e, k) /\ \A d \in Clients \ {c} : reply'[d] = reply[d]
  BY Zenon, <1>0, <1>1 DEF Answer
<1>e. reply'[c].errcode = e
  BY <1>2 DEF Answered
<1>3. /\ Mailbox'
      /\ \A i \in DOMAIN inbox' : \E j \in DOMAIN inbox : inbox'[i] = inbox[j]
      /\ call[c] = m /\ reply[c] = NoReply
      /\ \A i \in DOMAIN inbox' : inbox'[i].source # c
  BY Zenon, <1>0, <1>1, <1>2, MailboxTake
<1>4. Ledger'
  <2>. SUFFICES ASSUME NEW d \in Clients, NEW j \in AllNames PROVE Told(d, j)' = Refs(d, j)'
    BY Zenon DEF Ledger
  <2>1. CASE d = c /\ j = n
    <3>1. /\ Pending(d, j, "link")' <=> e = "ok" /\ op = "link"
          /\ Pending(d, j, "unlink")' <=> e = "ok" /\ op = "unlink"
      <4>1. call'[d].op = op /\ call'[d].name = j /\ reply'[d].errcode = e
        BY Zenon, <1>1, <1>e, <1>3, <2>1
      <4>. QED
        BY Zenon, <4>1 DEF Pending
    <3>2. Refs(d, j)' = IF e = "ok" /\ op = "link" THEN linked[d][j] + 1
                        ELSE IF e = "ok" /\ op = "unlink" THEN linked[d][j] - 1 ELSE linked[d][j]
      BY Zenon, <2>1
    <3>. QED
      BY Zenon, <1>0, <3>1, <3>2, ToldNext
  <2>2. CASE d # c \/ j # n
    <3>1. Refs(d, j)' = Refs(d, j)
      BY Zenon, <2>2 DEF OtherRefs
    <3>2. /\ Pending(d, j, "link")' <=> Pending(d, j, "link")
          /\ Pending(d, j, "unlink")' <=> Pending(d, j, "unlink")
      <4>1. CASE d = c
        BY Zenon, <1>3, <2>2, <4>1, Answers DEF Pending
      <4>2. CASE d # c
        BY Zenon, <1>2, <4>2 DEF Pending
      <4>. QED
        BY Zenon, <4>1, <4>2
    <3>3. Told(d, j)' = Told(d, j)
      BY Zenon, <3>2 DEF Told
    <3>. QED
      BY Zenon, <1>0, <3>1, <3>3 DEF Ledger
  <2>. QED
    BY Zenon, <2>1, <2>2
<1>5. Unlinking'
  <2>1. reply'[c] # NoReply
    <3>1. e # "none"
      BY Zenon
    <3>. QED
      BY Zenon, <1>e, <3>1, Answers
  <2>. QED
    BY Zenon, <1>0, <1>2, <2>1 DEF Unlinking
<1>6. Beating'
  <2>. SUFFICES ASSUME NEW d \in Clients, NEW i \in DOMAIN inbox', inbox'[i].op = "alive",
                       inbox'[i].source = d
                PROVE  \E j \in AllNames : Refs(d, j)' > 0
    BY Zenon DEF Beating, InFlight
  <2>1. PICK j \in DOMAIN inbox : inbox'[i] = inbox[j]
    BY Zenon, <1>3
  <2>2. PICK a \in AllNames : Refs(d, a) > 0
    BY Zenon, <1>0, <2>1 DEF Beating, InFlight
  <2>3. Refs(d, a)' = Refs(d, a)
    BY Zenon, <1>3 DEF OtherRefs
  <2>. QED
    BY Zenon, <2>2, <2>3
<1>. QED
  BY Zenon, <1>3, <1>4, <1>5, <1>6 DEF LinkInv

\* A client sends a message: a call, a heartbeat, or the order to stop.
LEMMA SendStep ==
  ASSUME LinkInv, TableInv', NEW c \in Clients, NEW x \in MsgType, x.source = c,
         call[c] = NoCall, inbox' = Append(inbox, x),
         call' = IF IsCall(x) THEN [call EXCEPT ![c] = x] ELSE call,
         UNCHANGED <<servervars, reply, linked>>,
         x.op = "unlink" => linked[c][x.name] > 0,
         x.op = "alive" => \E n \in AllNames : linked[c][n] > 0
  PROVE  LinkInv'
<1>0. /\ TypeOK /\ TypeOK' /\ Mailbox /\ Ledger /\ Unlinking /\ Beating /\ DOMAIN call = Clients
      /\ reply' = reply /\ linked' = linked /\ procs' = procs /\ up' = up
  BY Zenon DEF LinkInv, TableInv, TypeOK, servervars
<1>1. Mailbox'
  BY Zenon, <1>0, MailboxSend
<1>2. \A d \in Clients, n \in AllNames : Refs(d, n)' = Refs(d, n)
  BY Zenon, <1>0 DEF Refs
<1>3. \A d \in Clients \ {c} : call'[d] = call[d]
  BY Zenon, <1>0
<1>4. (IsCall(x) /\ call'[c] = x) \/ call' = call
  BY Zenon, <1>0
<1>5. reply[c] = NoReply
  BY Zenon, <1>0 DEF Mailbox
<1>6. Ledger'
  <2>. SUFFICES ASSUME NEW d \in Clients, NEW n \in AllNames PROVE Told(d, n)' = Refs(d, n)'
    BY Zenon DEF Ledger
  <2>1. \A op : Pending(d, n, op)' <=> Pending(d, n, op)
    <3>1. CASE d = c
      BY Zenon, <1>0, <1>5, <3>1, Answers DEF Pending
    <3>2. CASE d # c
      BY Zenon, <1>0, <1>3, <3>2 DEF Pending
    <3>. QED
      BY Zenon, <3>1, <3>2
  <2>2. Told(d, n)' = Told(d, n)
    BY Zenon, <1>0, <2>1 DEF Told
  <2>. QED
    BY Zenon, <1>0, <1>2, <2>2 DEF Ledger
<1>7. Unlinking'
  BY Zenon, <1>0, <1>3, <1>4 DEF Unlinking
<1>8. Beating'
  <2>. SUFFICES ASSUME NEW d \in Clients, NEW i \in DOMAIN inbox', inbox'[i].op = "alive",
                       inbox'[i].source = d
                PROVE  \E j \in AllNames : Refs(d, j)' > 0
    BY Zenon DEF Beating, InFlight
  <2>1. (i \in DOMAIN inbox /\ inbox'[i] = inbox[i]) \/ inbox'[i] = x
    <3>1. Appended(inbox, x, Append(inbox, x))
      BY Zenon, <1>0, AppendOf DEF TypeOK
    <3>2. Appended(inbox, x, inbox')
      BY Zenon, <3>1
    <3>. QED
      BY Zenon, <3>2 DEF Appended
  <2>2. CASE i \in DOMAIN inbox /\ inbox'[i] = inbox[i]
    BY Zenon, <1>0, <1>2, <2>2 DEF Beating, InFlight
  <2>3. CASE inbox'[i] = x
    <3>1. PICK n \in AllNames : linked[c][n] > 0
      BY Zenon, <2>3
    <3>2. Told(c, n) = linked[c][n]
      BY Zenon, <1>0, <1>5, Answers, ToldIs DEF Pending
    <3>3. Refs(c, n)' > 0
      BY ZenonT(40), <1>0, <1>2, <3>1, <3>2 DEF Ledger
    <3>. QED
      BY Zenon, <2>3, <3>3
  <2>. QED
    BY Zenon, <2>1, <2>2, <2>3
<1>. QED
  BY Zenon, <1>0, <1>1, <1>6, <1>7, <1>8 DEF LinkInv

\* A client takes the answer to its call.
LEMMA ReturnLinks ==
  ASSUME LinkInv, TableInv', NEW c \in Clients, Return(c)
  PROVE  LinkInv'
<1>0. /\ TypeOK /\ TypeOK' /\ Mailbox /\ Ledger /\ Unlinking /\ Beating
      /\ DOMAIN call = Clients /\ DOMAIN reply = Clients /\ DOMAIN linked = Clients
      /\ linked \in [Clients -> [AllNames -> Int]]
  BY Zenon DEF LinkInv, TableInv, TypeOK
<1>1. /\ call[c] # NoCall /\ reply[c] # NoReply /\ call' = [call EXCEPT ![c] = NoCall]
      /\ reply' = [reply EXCEPT ![c] = NoReply] /\ procs' = procs /\ up' = up /\ inbox' = inbox
  BY Zenon DEF Return, servervars
<1>2. /\ call'[c] = NoCall /\ reply'[c] = NoReply
      /\ \A d \in Clients \ {c} : call'[d] = call[d] /\ reply'[d] = reply[d]
  BY Zenon, <1>0, <1>1
<1>3. \A d \in Clients, n \in AllNames : Refs(d, n)' = Refs(d, n)
  BY Zenon, <1>1 DEF Refs
<1>4. call[c].name \in AllNames /\ call[c].op \in {"lookup", "link", "unlink"}
  <2>1. call[c] \in CallType
    BY Zenon, <1>0, <1>1 DEF TypeOK
  <2>. QED
    BY Zenon, <2>1 DEF CallType
<1>5. \A d \in Clients \ {c} : linked'[d] = linked[d]
  BY Zenon, <1>0 DEF Return
<1>6. ASSUME NEW n \in AllNames PROVE linked'[c][n] = Told(c, n)
  <2>1. CASE Pending(c, n, "link")
    <3>1. linked'[c] = [linked[c] EXCEPT ![n] = @ + 1]
      BY Zenon, <1>0, <2>1 DEF Pending, Return
    <3>2. linked'[c][n] = linked[c][n] + 1
      BY Zenon, <1>0, <3>1
    <3>. QED
      BY Zenon, <1>0, <2>1, <3>2, ToldIs
  <2>2. CASE Pending(c, n, "unlink")
    <3>0. call[c].op # "link"
      BY Zenon, <2>2 DEF Pending
    <3>1. linked'[c] = [linked[c] EXCEPT ![n] = @ - 1]
      BY Zenon, <1>0, <2>2, <3>0 DEF Pending, Return
    <3>2. linked'[c][n] = linked[c][n] - 1
      BY Zenon, <1>0, <3>1
    <3>. QED
      BY Zenon, <1>0, <2>2, <3>2, ToldIs
  <2>3. CASE ~Pending(c, n, "link") /\ ~Pending(c, n, "unlink")
    <3>1. linked'[c][n] = linked[c][n]
      <4>1. CASE reply[c].errcode # "ok"
        BY Zenon, <4>1 DEF Return
      <4>2. CASE reply[c].errcode = "ok" /\ call[c].op = "lookup"
        BY Zenon, <4>2 DEF Return
      <4>3. CASE reply[c].errcode = "ok" /\ call[c].op = "link"
        <5>1. call[c].name # n /\ linked'[c] = [linked[c] EXCEPT ![call[c].name] = @ + 1]
          BY Zenon, <1>0, <2>3, <4>3 DEF Pending, Return
        <5>. QED
          BY Zenon, <1>0, <5>1
      <4>4. CASE reply[c].errcode = "ok" /\ call[c].op = "unlink"
        <5>1. call[c].name # n /\ linked'[c] = [linked[c] EXCEPT ![call[c].name] = @ - 1]
          BY Zenon, <1>0, <2>3, <4>4 DEF Pending, Return
        <5>. QED
          BY Zenon, <1>0, <5>1
      <4>. QED
        BY Zenon, <1>4, <4>1, <4>2, <4>3, <4>4
    <3>. QED
      BY Zenon, <1>0, <2>3, <3>1, ToldIs
  <2>. QED
    BY Zenon, <2>1, <2>2, <2>3
<1>7. Ledger'
  <2>. SUFFICES ASSUME NEW d \in Clients, NEW n \in AllNames PROVE Told(d, n)' = Refs(d, n)'
    BY Zenon DEF Ledger
  <2>1. CASE d = c
    <3>1. ~Pending(c, n, "link")' /\ ~Pending(c, n, "unlink")'
      BY Zenon, <1>2, Answers DEF Pending
    <3>2. Told(c, n)' = linked'[c][n]
      BY Zenon, <1>0, <3>1, ToldNext
    <3>. QED
      BY Zenon, <1>0, <1>3, <1>6, <2>1, <3>2 DEF Ledger
  <2>2. CASE d # c
    <3>1. Told(d, n)' = Told(d, n)
      BY Zenon, <1>2, <1>5, <2>2 DEF Told, Pending
    <3>. QED
      BY Zenon, <1>0, <1>3, <3>1 DEF Ledger
  <2>. QED
    BY Zenon, <2>1, <2>2
<1>8. Mailbox'
  <2>1. \A i \in DOMAIN inbox : IsCall(inbox[i]) => inbox[i].source # c
    BY Zenon, <1>0, <1>1 DEF Mailbox
  <2>2. \A i \in DOMAIN inbox : inbox[i].source \in Clients
    <3>1. \A i \in DOMAIN inbox : inbox[i] \in MsgType
      BY <1>0 DEF TypeOK
    <3>. QED
      BY Zenon, <3>1, MessageTypes
  <2>3. \A i \in DOMAIN inbox : IsCall(inbox[i]) =>
          call'[inbox[i].source] = inbox[i] /\ reply'[inbox[i].source] = NoReply
    BY Zenon, <1>0, <1>2, <2>1, <2>2 DEF Mailbox
  <2>4. \A i, j \in DOMAIN inbox : i < j /\ IsCall(inbox[i]) => inbox[i].source # inbox[j].source
    BY Zenon, <1>0 DEF Mailbox
  <2>5. \A d \in Clients : call'[d] = NoCall => reply'[d] = NoReply
    BY Zenon, <1>0, <1>2 DEF Mailbox
  <2>. QED
    BY ZenonT(40), <1>1, <2>3, <2>4, <2>5 DEF Mailbox
<1>9. Unlinking'
  <2>1. NoCall.op # "unlink"
    BY Zenon, Answers
  <2>. QED
    BY Zenon, <1>0, <1>2, <1>5, <2>1 DEF Unlinking
<1>10. Beating'
  BY Zenon, <1>0, <1>1, <1>3 DEF Beating, InFlight
<1>. QED
  BY Zenon, <1>1, <1>7, <1>8, <1>9, <1>10 DEF LinkInv

\* The name that do_name_init() registers is the server's own.
LEMMA LinkInit ==
  ASSUME Server \notin Clients, Init
  PROVE  LinkInv
<1>1. TableInv
  BY Zenon, TableInit
<1>2. Registry!Init
  BY Zenon, RegistryInit
<1>3. ASSUME NEW c \in Clients, NEW n \in AllNames PROVE Refs(c, n) = 0
  <2>1. OwnerIn(procs, n) \in {Server, NoProcess}
    BY Zenon, <1>2 DEF Registry!Init
  <2>2. c # NoProcess
    BY NameAssumption DEF NoProcess
  <2>. QED
    BY Zenon, <2>1, <2>2 DEF Refs
<1>4. ASSUME NEW c \in Clients, NEW n \in AllNames PROVE Told(c, n) = 0
  <2>1. ~Pending(c, n, "link") /\ ~Pending(c, n, "unlink") /\ linked[c][n] = 0
    BY Zenon, Answers DEF Init, Pending
  <2>. QED
    BY Zenon, <1>1, <2>1, ToldIs DEF TableInv
<1>5. DOMAIN inbox = {}
  BY DEF Init
<1>6. Ledger /\ Beating
  BY Zenon, <1>3, <1>4, <1>5 DEF Ledger, Beating, InFlight
<1>7. Mailbox
  BY Zenon, <1>5 DEF Mailbox, Init
<1>8. Unlinking /\ up # "panic"
  BY Zenon, Answers DEF Unlinking, Init
<1>. QED
  BY Zenon, <1>1, <1>6, <1>7, <1>8 DEF LinkInv

\* The step of the server that handles the oldest message.
LEMMA ServerLinks ==
  ASSUME LinkInv, TableInv', NEW m,
         do_name_lookup(m) \/ do_name_link(m) \/ do_name_unlink(m) \/ do_name_heartbeat(m)
           \/ do_name_exit(m)
  PROVE  LinkInv'
<1>. DEFINE c == m.source
            n == m.name
<1>0. TypeOK /\ TypeOK' /\ TableInv /\ Mailbox /\ Ledger /\ Unlinking /\ Beating /\ up # "panic"
  BY Zenon DEF LinkInv, TableInv
<1>1. ASSUME NEW op \in {"lookup", "link", "unlink"}, Receive(m, op)
      PROVE  /\ c \in Clients /\ n \in AllNames /\ linked[c][n] = Refs(c, n) /\ linked[c][n] \in Int
             /\ op = "unlink" => Refs(c, n) > 0
  <2>1. m \in MsgType /\ c \in Clients /\ n \in AllNames /\ m.op = op /\ IsCall(m)
    BY Zenon, <1>0, <1>1, ReceiveTypes DEF IsCall
  <2>2. call[c] = m /\ reply[c] = NoReply
    <3>1. inbox \in Seq(MsgType) /\ inbox # <<>> /\ m = Head(inbox)
      BY Zenon, <1>0, <1>1 DEF TypeOK, Receive
    <3>2. 1 \in DOMAIN inbox /\ m = inbox[1]
      BY Zenon, <3>1, TailOf
    <3>. QED
      BY Zenon, <1>0, <2>1, <3>2 DEF Mailbox
  <2>3. Told(c, n) = linked[c][n] /\ linked[c][n] \in Int
    BY Zenon, <1>0, <2>1, <2>2, Answers, ToldIs DEF Pending
  <2>4. op = "unlink" => linked[c][n] > 0
    BY Zenon, <1>0, <2>1, <2>2 DEF Unlinking
  <2>. QED
    BY Zenon, <1>0, <2>1, <2>3, <2>4 DEF Ledger
<1>2. CASE do_name_lookup(m)
  <2>1. Receive(m, "lookup") /\ procs' = procs /\ up' = up /\ call' = call /\ linked' = linked
    BY Zenon, <1>2 DEF do_name_lookup, servervars
  <2>2. PICK e \in {"ok", "ENOENT"} : \E k : Answer(c, e, k)
    <3>1. (\E k : Answer(c, "ok", k)) \/ (\E k : Answer(c, "ENOENT", k))
      BY Zenon, <1>2 DEF do_name_lookup
    <3>. QED
      BY Zenon, <3>1
  <2>3. OtherRefs(c, n) /\ Refs(c, n)' = linked[c][n]
    BY Zenon, <1>1, <2>1 DEF OtherRefs, Refs
  <2>. QED
    BY Zenon, <2>1, <2>2, <2>3, HandledStep
<1>3. CASE do_name_link(m)
  <2>1. Receive(m, "link") /\ up' = up /\ call' = call /\ linked' = linked
    BY Zenon, <1>3 DEF do_name_link
  <2>2. CASE LinkRefused(c, n)
    <3>1. procs' = procs /\ Answer(c, "EINVAL", -1)
      BY Zenon, <1>3, <2>2 DEF do_name_link
    <3>2. OtherRefs(c, n) /\ Refs(c, n)' = linked[c][n]
      BY Zenon, <1>1, <2>1, <3>1 DEF OtherRefs, Refs
    <3>. QED
      BY Zenon, <2>1, <3>1, <3>2, HandledStep
  <2>3. CASE ~LinkRefused(c, n)
    <3>1. Answer(c, "ok", -1)
      BY Zenon, <1>3, <2>3 DEF do_name_link
    <3>2. OtherRefs(c, n) /\ Refs(c, n)' = linked[c][n] + 1
      BY Zenon, <1>0, <1>1, <1>3, <2>1, <2>3, LinkRefs
    <3>. QED
      BY Zenon, <2>1, <3>1, <3>2, HandledStep
  <2>. QED
    BY Zenon, <2>2, <2>3
<1>4. CASE do_name_unlink(m)
  <2>1. Receive(m, "unlink") /\ up' = up /\ call' = call /\ linked' = linked
    BY Zenon, <1>4 DEF do_name_unlink
  <2>2. /\ Refs(c, n) = Refs(c, n)' + 1 /\ OtherRefs(c, n) /\ Answer(c, "ok", -1)
    BY Zenon, <1>0, <1>1, <1>4, <2>1, UnlinkRefs
  <2>3. Refs(c, n)' = linked[c][n] - 1
    <3>1. Refs(c, n)' \in Int
      <4>1. CountIn(procs', n) \in Nat
        BY Zenon, <1>0, CountType DEF TypeOK
      <4>. QED
        BY <4>1 DEF Refs
    <3>2. linked[c][n] = Refs(c, n)' + 1
      BY Zenon, <1>1, <2>1, <2>2
    <3>. QED
      BY <3>1, <3>2
  <2>. QED
    BY Zenon, <2>1, <2>2, <2>3, HandledStep
<1>5. ASSUME NEW op, Receive(m, op), op \in {"alive", "exit"}, SameRefs, up' # "panic",
             call' = call, linked' = linked, reply' = reply
      PROVE  LinkInv'
  <2>1. ~IsCall(m)
    BY Zenon, <1>5 DEF IsCall, Receive
  <2>2. Mailbox' /\ \A i \in DOMAIN inbox' : \E j \in DOMAIN inbox : inbox'[i] = inbox[j]
    BY Zenon, <1>0, <1>5, <2>1, MailboxTake
  <2>3. Ledger'
    BY Zenon, <1>0, <1>5 DEF Ledger, SameRefs, Told, Pending
  <2>4. Unlinking'
    BY Zenon, <1>0, <1>5 DEF Unlinking
  <2>5. Beating'
    BY Zenon, <1>0, <1>5, <2>2 DEF Beating, InFlight, SameRefs
  <2>. QED
    BY Zenon, <1>5, <2>2, <2>3, <2>4, <2>5 DEF LinkInv
<1>6. CASE do_name_heartbeat(m)
  <2>1. Receive(m, "alive") /\ reply' = reply /\ call' = call /\ linked' = linked
    BY Zenon, <1>6 DEF do_name_heartbeat
  <2>2. c \in Clients
    BY Zenon, <1>0, <2>1, ReceiveTypes
  <2>3. InFlight(c)
    <3>1. inbox \in Seq(MsgType) /\ inbox # <<>> /\ m = Head(inbox) /\ m.op = "alive"
      BY Zenon, <1>0, <2>1 DEF TypeOK, Receive
    <3>2. 1 \in DOMAIN inbox /\ m = inbox[1]
      BY Zenon, <3>1, TailOf
    <3>. QED
      BY Zenon, <3>1, <3>2 DEF InFlight
  <2>4. \E a \in AllNames : Refs(c, a) > 0
    BY Zenon, <1>0, <2>2, <2>3 DEF Beating
  <2>5. SameRefs /\ up' # "panic"
    BY Zenon, <1>0, <1>6, <2>4, HeartbeatRefs
  <2>. QED
    BY Zenon, <1>5, <2>1, <2>5
<1>7. CASE do_name_exit(m)
  <2>1. Receive(m, "exit") /\ reply' = reply /\ call' = call /\ linked' = linked /\ procs' = procs
    BY Zenon, <1>7 DEF do_name_exit
  <2>2. SameRefs /\ up' # "panic"
    BY Zenon, <1>7, <2>1 DEF do_name_exit, SameRefs, Refs
  <2>. QED
    BY Zenon, <1>5, <2>1, <2>2
<1>. QED
  BY Zenon, <1>2, <1>3, <1>4, <1>6, <1>7

\* Every step of clients that unlink only what they linked.
LEMMA LinkStep ==
  ASSUME ~Stray, LinkInv, [Next]_vars
  PROVE  LinkInv'
<1>0. TableInv'
  BY Zenon, TableStep DEF LinkInv
<1>1. ASSUME NEW c \in Clients, NEW op \in {"lookup", "link", "unlink"}, NEW n \in AllNames,
             Call(c, op, n)
      PROVE  LinkInv'
  <2>. DEFINE x == Msg(op, c, n)
  <2>1. x \in MsgType /\ x.source = c /\ x.op = op /\ x.name = n /\ IsCall(x)
    <3>1. x \in MsgType
      BY Zenon, MessageTypes
    <3>2. x.source = c /\ x.op = op /\ x.name = n
      BY DEF Msg
    <3>. QED
      BY Zenon, <3>1, <3>2 DEF IsCall
  <2>2. /\ call[c] = NoCall /\ inbox' = Append(inbox, x) /\ call' = [call EXCEPT ![c] = x]
        /\ UNCHANGED <<servervars, reply, linked>> /\ (op = "unlink" => linked[c][n] > 0)
    BY Zenon, <1>1 DEF Call
  <2>3. call' = IF IsCall(x) THEN [call EXCEPT ![c] = x] ELSE call
    BY Zenon, <2>1, <2>2
  <2>4. (x.op = "unlink" => linked[c][x.name] > 0) /\ x.op # "alive"
    BY Zenon, <2>1, <2>2
  <2>. HIDE DEF x
  <2>. QED
    BY Zenon, <1>0, <2>1, <2>2, <2>3, <2>4, SendStep
<1>2. ASSUME NEW c \in Clients, Heartbeat(c) PROVE LinkInv'
  <2>. DEFINE x == Msg("alive", c, NoName)
  <2>1. x \in MsgType /\ x.source = c /\ x.op = "alive" /\ ~IsCall(x)
    <3>1. x \in MsgType
      BY Zenon, MessageTypes
    <3>2. x.source = c /\ x.op = "alive"
      BY ZenonT(40), Answers
    <3>. QED
      BY Zenon, <3>1, <3>2 DEF IsCall
  <2>2. /\ call[c] = NoCall /\ inbox' = Append(inbox, x) /\ call' = call
        /\ UNCHANGED <<servervars, reply, linked>> /\ \E n \in AllNames : linked[c][n] > 0
    BY Zenon, <1>2 DEF Heartbeat
  <2>3. call' = IF IsCall(x) THEN [call EXCEPT ![c] = x] ELSE call
    BY Zenon, <2>1, <2>2
  <2>4. x.op # "unlink"
    BY Zenon, <2>1
  <2>. HIDE DEF x
  <2>. QED
    BY Zenon, <1>0, <2>1, <2>2, <2>3, <2>4, SendStep
<1>3. ASSUME NEW c \in Clients, Shutdown(c) PROVE LinkInv'
  <2>. DEFINE x == Msg("exit", c, NoName)
  <2>1. x \in MsgType /\ x.source = c /\ x.op = "exit" /\ ~IsCall(x)
    <3>1. x \in MsgType
      BY Zenon, MessageTypes
    <3>2. x.source = c /\ x.op = "exit"
      BY ZenonT(40), Answers
    <3>. QED
      BY Zenon, <3>1, <3>2 DEF IsCall
  <2>2. /\ call[c] = NoCall /\ inbox' = Append(inbox, x) /\ call' = call
        /\ UNCHANGED <<servervars, reply, linked>>
    BY Zenon, <1>3 DEF Shutdown
  <2>3. call' = IF IsCall(x) THEN [call EXCEPT ![c] = x] ELSE call
    BY Zenon, <2>1, <2>2
  <2>4. x.op # "unlink" /\ x.op # "alive"
    BY Zenon, <2>1
  <2>. HIDE DEF x
  <2>. QED
    BY Zenon, <1>0, <2>1, <2>2, <2>3, <2>4, SendStep
<1>4. CASE UNCHANGED vars
  <2>1. /\ procs' = procs /\ up' = up /\ inbox' = inbox /\ call' = call /\ reply' = reply
        /\ linked' = linked
    BY Zenon, <1>4 DEF vars
  <2>2. Mailbox' /\ Ledger' /\ Unlinking' /\ Beating'
    BY ZenonT(40), <2>1 DEF LinkInv, Mailbox, Ledger, Told, Pending, Refs, Unlinking, Beating, InFlight
  <2>. QED
    BY Zenon, <1>0, <2>1, <2>2 DEF LinkInv
<1>. QED
  BY Zenon, <1>0, <1>1, <1>2, <1>3, <1>4, ReturnLinks, ServerLinks
  DEF Next, ServerStep, Terminated

\* For any clients that unlink only names they linked, any names and any table
\* size: between calls, a client has exactly the references that it was told
\* of, and no heartbeat finds the node of its sender gone from the table.
THEOREM LinksCorrect ==
  ASSUME ~Stray, Server \notin Clients
  PROVE  Spec => [](LinksAreKept /\ ServerNeverPanics)
<1>1. Init => LinkInv
  BY Zenon, LinkInit
<1>2. LinkInv /\ [Next]_vars => LinkInv'
  BY Zenon, LinkStep
<1>3. LinkInv => LinksAreKept /\ ServerNeverPanics
  <2>. SUFFICES ASSUME LinkInv PROVE LinksAreKept /\ ServerNeverPanics
    BY Zenon
  <2>1. ASSUME NEW c \in Clients, call[c] = NoCall, NEW n \in AllNames
        PROVE  linked[c][n] = Refs(c, n)
    <3>1. ~Pending(c, n, "link") /\ ~Pending(c, n, "unlink")
      BY Zenon, <2>1, Answers DEF Pending
    <3>. QED
      BY Zenon, <3>1, ToldIs DEF LinkInv, TableInv, Ledger
  <2>. QED
    BY Zenon, <2>1 DEF LinksAreKept, ServerNeverPanics, LinkInv
<1>. QED
  BY <1>1, <1>2, <1>3, PTL DEF Spec

=============================================================================

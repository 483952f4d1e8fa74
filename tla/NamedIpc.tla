------------------------------ MODULE NamedIpc ------------------------------
(***************************************************************************)
(* Named mailboxes and portals (libruntime/pm/mailbox.c and portal.c) and  *)
(* process names (pname.c), on top of the name service and of the unnamed  *)
(* connectors of the kernel.                                               *)
(*                                                                         *)
(* The two tables are private to a process, and a call to the name server  *)
(* blocks the process: a function is one step.  The owner of an entry is   *)
(* always the node of the process.  Reads, writes and permissions change   *)
(* neither the tables nor the names.                                       *)
(***************************************************************************)
EXTENDS Integers, FiniteSets, TableScan

CONSTANTS
  Processes,          \* the processes, one for each node
  Names,              \* the names of mailboxes, portals and processes
  NoProcess, NoName,  \* stand for no process and no name
  Ports,              \* the ports that create2() accepts
  PoolMax,            \* entries of a table (NANVIX_MAILBOX_MAX, NANVIX_PORTAL_MAX)
  ConnectorMax,       \* connectors of a kind that the kernel gives a process
  NANVIX_PNAME_MAX    \* links that the name server accepts

Kinds == {"mailbox", "portal"}
StdPort == 1

ASSUME IpcAssumption ==
  /\ IsFiniteSet(Processes) /\ NoProcess \notin Processes
  /\ IsFiniteSet(Names) /\ NoName \notin Names
  /\ IsFiniteSet(Ports) /\ PoolMax \in Nat
  /\ ConnectorMax \in Nat /\ NANVIX_PNAME_MAX \in Nat

VARIABLES
  owner, count,  \* the names, as NameRegistry has them
  table,         \* table[p][k]: the table of mailboxes or portals of p
  inputs,        \* inputs[p][k]: the ports of the input connectors of p
  outputs,       \* outputs[p][k]: the number of output connectors of p
  pname          \* pname[p]: the name of process p

ipcvars == <<owner, count, table, inputs, outputs, pname>>

NoEntry == [mode |-> "free", port |-> StdPort, name |-> NoName]
Index == 0 .. PoolMax - 1

IpcInit ==
  /\ owner = [n \in Names |-> NoProcess]
  /\ count = [n \in Names |-> 0]
  /\ table = [p \in Processes |-> [k \in Kinds |-> [i \in Index |-> NoEntry]]]
  /\ inputs = [p \in Processes |-> [k \in Kinds |-> {StdPort}]]
  /\ outputs = [p \in Processes |-> [k \in Kinds |-> 0]]
  /\ pname = [p \in Processes |-> NoName]

-----------------------------------------------------------------------------
Registry == INSTANCE NameRegistry WITH FirstName <- NoName, FirstOwner <- NoProcess

\* The name server refuses a link of a name that another process has, and any
\* link when it counts NANVIX_PNAME_MAX of them.
MayLink(p, n) ==
  owner[n] \in {NoProcess, p} /\ Total(count) < NANVIX_PNAME_MAX

Free(p, k) == {i \in Index : table[p][k][i].mode = "free"}
Inputs(p, k) == {i \in Index : table[p][k][i].mode = "rdonly"}
Outputs(p, k) == {i \in Index : table[p][k][i].mode = "wronly"}
Input(port, n) == [mode |-> "rdonly", port |-> port, name |-> n]
Output == [mode |-> "wronly", port |-> StdPort, name |-> NoName]
Set(p, k, i, e) == table' = [table EXCEPT ![p][k][i] = e]

\* The kernel has a connector left, and nobody has created one for the port.
ConnectorLeft(p, k) == Cardinality(inputs[p][k]) + outputs[p][k] < ConnectorMax
Creatable(p, k, port) == ConnectorLeft(p, k) /\ port \notin inputs[p][k]

-----------------------------------------------------------------------------
(***************************************************************************)
(* The functions of the two kinds, which are the same up to the names.  A  *)
(* call that fails its tests, or that gives back what it took, changes     *)
(* nothing; only those that take a connector before they fail are shown.   *)
(***************************************************************************)

\* nanvix_mailbox_create() and nanvix_portal_create(): a name for the standard
\* input connector.
Create(p, k, n) ==
  /\ MayLink(p, n) /\ Registry!Link(p, n)
  /\ \E i \in Free(p, k) : Set(p, k, i, Input(StdPort, n))
  /\ UNCHANGED <<inputs, outputs, pname>>

\* nanvix_mailbox_create2() and nanvix_portal_create2(): a name for a
\* connector of its own.  If the link is refused, the connector is unlinked
\* and the entry freed; the mutant forgets the connector.
UndoneMutant(p, k, port) == inputs[p][k] \cup {port}
Undone(p, k, port) == inputs[p][k]

Create2(p, k, n, port) ==
  /\ Free(p, k) # {} /\ Creatable(p, k, port)
  /\ IF MayLink(p, n)
     THEN /\ Registry!Link(p, n)
          /\ \E i \in Free(p, k) : Set(p, k, i, Input(port, n))
          /\ inputs' = [inputs EXCEPT ![p][k] = @ \cup {port}]
     ELSE /\ inputs' = [inputs EXCEPT ![p][k] = Undone(p, k, port)]
          /\ UNCHANGED <<owner, count, table>>
  /\ UNCHANGED <<outputs, pname>>

\* nanvix_mailbox_open() and nanvix_portal_open(): the name is resolved, an
\* entry and a connector to the node are taken.
Open(p, k, n) ==
  /\ owner[n] # NoProcess
  /\ ConnectorLeft(p, k)
  /\ \E i \in Free(p, k) : Set(p, k, i, Output)
  /\ outputs' = [outputs EXCEPT ![p][k] = @ + 1]
  /\ UNCHANGED <<owner, count, inputs, pname>>

\* nanvix_mailbox_close() and nanvix_portal_close().  The mutant frees the
\* entry of an input as well.
ClosableMutant(p, k) == Outputs(p, k) \cup Inputs(p, k)
Closable(p, k) == Outputs(p, k)

Close(p, k, i) ==
  /\ i \in Closable(p, k)
  /\ outputs' = [outputs EXCEPT ![p][k] = @ - 1]
  /\ Set(p, k, i, NoEntry)
  /\ UNCHANGED <<owner, count, inputs, pname>>

\* nanvix_mailbox_unlink() and nanvix_portal_unlink(): the name is unlinked and
\* the entry freed.  The connector stays, also the one that create2() made.
Unlink(p, k, i) ==
  LET n == table[p][k][i].name IN
  /\ i \in Inputs(p, k)
  /\ Registry!Unlink(p, n)
  /\ Set(p, k, i, NoEntry)
  /\ UNCHANGED <<inputs, outputs, pname>>

-----------------------------------------------------------------------------
nanvix_mailbox_create(p, n) == Create(p, "mailbox", n)
nanvix_mailbox_create2(p, n, port) == Create2(p, "mailbox", n, port)
nanvix_mailbox_open(p, n) == Open(p, "mailbox", n)
nanvix_mailbox_close(p, i) == Close(p, "mailbox", i)
nanvix_mailbox_unlink(p, i) == Unlink(p, "mailbox", i)

nanvix_portal_create(p, n) == Create(p, "portal", n)
nanvix_portal_create2(p, n, port) == Create2(p, "portal", n, port)
nanvix_portal_open(p, n) == Open(p, "portal", n)
nanvix_portal_close(p, i) == Close(p, "portal", i)
nanvix_portal_unlink(p, i) == Unlink(p, "portal", i)

\* nanvix_setpname(): once for each process.  The mutant allows it again.
UnnamedMutant(p) == TRUE
Unnamed(p) == pname[p] = NoName
nanvix_setpname(p, n) ==
  /\ Unnamed(p)
  /\ MayLink(p, n) /\ Registry!Link(p, n)
  /\ pname' = [pname EXCEPT ![p] = n]
  /\ UNCHANGED <<table, inputs, outputs>>

IpcNext ==
  \E p \in Processes :
    \/ \E n \in Names :
         \/ nanvix_mailbox_create(p, n) \/ nanvix_mailbox_open(p, n)
         \/ nanvix_portal_create(p, n) \/ nanvix_portal_open(p, n)
         \/ nanvix_setpname(p, n)
         \/ \E port \in Ports : \/ nanvix_mailbox_create2(p, n, port)
                                \/ nanvix_portal_create2(p, n, port)
    \/ \E i \in Index :
         \/ nanvix_mailbox_close(p, i) \/ nanvix_mailbox_unlink(p, i)
         \/ nanvix_portal_close(p, i) \/ nanvix_portal_unlink(p, i)

IpcSpec == IpcInit /\ [][IpcNext]_ipcvars

-----------------------------------------------------------------------------
Entries == {NoEntry, Output} \cup {Input(q, n) : q \in Ports \cup {StdPort}, n \in Names}
IpcTypeOK ==
  /\ owner \in [Names -> Processes \cup {NoProcess}]
  /\ count \in [Names -> 0 .. NANVIX_PNAME_MAX]
  /\ table \in [Processes -> [Kinds -> [Index -> Entries]]]
  /\ inputs \in [Processes -> [Kinds -> SUBSET (Ports \cup {StdPort})]]
  /\ outputs \in [Processes -> [Kinds -> 0 .. ConnectorMax]]
  /\ pname \in [Processes -> Names \cup {NoName}]

\* The links of a name are those of the mailboxes, the portals and the process
\* that have it, and they are all of the process that the name server has for
\* the name: a name is never unlinked under an input that others may look up,
\* and never stays behind without one.
Places == Processes \X (Kinds \X Index)
EntryAt(h) == table[h[1]][h[2][1]][h[2][2]]
Holders(n) == {h \in Places : EntryAt(h).mode = "rdonly" /\ EntryAt(h).name = n}
NamesAccounted ==
  \A n \in Names :
    /\ count[n] = Cardinality(Holders(n)) + Cardinality({p \in Processes : pname[p] = n})
    /\ \A h \in Holders(n) : owner[n] = h[1]
    /\ \A p \in Processes : pname[p] = n => owner[n] = p
    /\ owner[n] = NoProcess <=> count[n] = 0

\* The variables have their types; every entry that is open for writing has an
\* output connector and no output connector is left over; an input entry with
\* a port of its own has the connector of that port, and no other entry has it.
ConnectorsTracked ==
  /\ IpcTypeOK
  /\ \A p \in Processes, k \in Kinds :
       /\ outputs[p][k] = Cardinality(Outputs(p, k))
       /\ \A i, j \in Inputs(p, k) :
            /\ table[p][k][i].port \in inputs[p][k]
            /\ table[p][k][i].port = table[p][k][j].port
                 => i = j \/ table[p][k][i].port = StdPort

\* A connector for a port appears only together with the entry that names it:
\* a create that fails after it made one leaves nothing behind.
ConnectorsNamed ==
  [][\A p \in Processes, k \in Kinds, q \in Ports :
       q \in inputs'[p][k] \ inputs[p][k] =>
         \E i \in Index : table'[p][k][i].mode = "rdonly" /\ table'[p][k][i].port = q]_ipcvars

=============================================================================

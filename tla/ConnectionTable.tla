-------------------------- MODULE ConnectionTable ---------------------------
(***************************************************************************)
(* The functions on a table of connections (src/sys/common/connection.c):  *)
(* connect() and disconnect() are functions from tables to tables.  A      *)
(* client is a pair <<process, port>>.                                     *)
(***************************************************************************)
EXTENDS TableScan

lookup(table, c) ==
  {i \in DOMAIN table : table[i].remote = c[1] /\ table[i].port = c[2]}
EmptySlots(table) == {i \in DOMAIN table : table[i].remote < 0}

\* connect(): a client that finds no slot stays unregistered.
connect(table, c) ==
  IF lookup(table, c) # {}
  THEN [table EXCEPT ![First(lookup(table, c))].count = @ + 1]
  ELSE IF EmptySlots(table) # {}
  THEN [table EXCEPT ![First(EmptySlots(table))] = [remote |-> c[1], port |-> c[2], count |-> 1]]
  ELSE table

\* What connect() returns: zero, or a negative code if it finds no slot.
connect_ret(table, c) ==
  IF lookup(table, c) # {} \/ EmptySlots(table) # {} THEN 0 ELSE -1

\* disconnect(): the last connection gives up the slot.
Dropped(e) == [remote |-> IF e.count = 1 THEN -1 ELSE e.remote,
               port |-> e.port, count |-> e.count - 1]
disconnect(table, c) ==
  IF lookup(table, c) # {}
  THEN [table EXCEPT ![First(lookup(table, c))] = Dropped(@)]
  ELSE table

\* The number of connections of a client.
ConnectionsOf(table, c) ==
  IF lookup(table, c) = {} THEN 0 ELSE table[First(lookup(table, c))].count

=============================================================================

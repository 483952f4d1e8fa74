------------------------------ MODULE RefTable ------------------------------
(***************************************************************************)
(* Tables of objects with a key and a count of references: what get and    *)
(* close do to the tables of message queues and of semaphores of the       *)
(* System V server (msg/msg.c and sem/sem.c).                              *)
(***************************************************************************)
EXTENDS TableScan

Used(table, i) == i \in DOMAIN table /\ table[i].used
Named(table, key) == {i \in DOMAIN table : table[i].used /\ table[i].key = key}
Unused(table) == {i \in DOMAIN table : ~table[i].used}

\* The entries that a successful get may return: the one of the key, or any
\* that resource_alloc() picks.
GetEntries(table, key) ==
  IF Named(table, key) # {} THEN {First(Named(table, key))} ELSE Unused(table)

\* The table after entry i was got, and after it was closed.  The mutants
\* count the creation only, and free the entry with the first close.
GotMutant(table, i, key) ==
  [table EXCEPT ![i] = [used |-> TRUE, key |-> key, refcount |-> 1]]
Got(table, i, key) ==
  [table EXCEPT ![i] = [used |-> TRUE, key |-> key, refcount |-> table[i].refcount + 1]]
ClosedMutant(table, i) ==
  [table EXCEPT ![i].refcount = @ - 1, ![i].used = FALSE]
Closed(table, i) ==
  [table EXCEPT ![i] = [used |-> table[i].refcount # 1, key |-> table[i].key,
                        refcount |-> table[i].refcount - 1]]

\* The entries in use are those with references, and no key has two of them:
\* processes that get the same key share one object.
TableCoherent(table) ==
  /\ \A i \in DOMAIN table : table[i].used <=> table[i].refcount > 0
  /\ \A i, j \in DOMAIN table :
       table[i].used /\ table[j].used /\ table[i].key = table[j].key => i = j

=============================================================================

----------------------------- MODULE Connection -----------------------------
(***************************************************************************)
(* The table of connections of a server (src/sys/common/connection.c): the *)
(* clients, each a process and a mailbox port, that have objects open.     *)
(***************************************************************************)
EXTENDS ConnectionTable

CONSTANT NANVIX_CONNECTIONS_MAX  \* entries of the table

ASSUME ConnectionAssumption == NANVIX_CONNECTIONS_MAX \in Nat \ {0}

Connections == 0 .. NANVIX_CONNECTIONS_MAX - 1

connections_setup == [i \in Connections |-> [remote |-> -1, port |-> -1, count |-> 0]]

=============================================================================

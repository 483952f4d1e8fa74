------------------------------ MODULE IpcTable ------------------------------
(***************************************************************************)
(* The tables of message queues and of semaphores of the System V server   *)
(* (msg/msg.c and sem/sem.c): how they start, and the errors of a get.     *)
(***************************************************************************)
EXTENDS RefTable

CONSTANTS Keys,        \* the keys of objects that can be shared
          IPC_PRIVATE  \* the key that is not supported

Flags == {"IPC_CREAT", "IPC_EXCL"}
NoObject == [used |-> FALSE, key |-> IPC_PRIVATE, refcount |-> 0]
EmptyTable(n) == [i \in 0 .. n - 1 |-> NoObject]

\* The errors of do_msg_get() and do_sem_get(), in order; "full" is the code
\* for a table without an unused entry.
GetCode(table, key, flags, full) ==
  CASE key = IPC_PRIVATE                                -> "ENOTSUP"
    [] flags = {"IPC_EXCL"}                             -> "EINVAL"
    [] Named(table, key) # {} /\ flags = Flags          -> "EEXIST"
    [] Named(table, key) = {} /\ "IPC_CREAT" \notin flags -> "ENOENT"
    [] Named(table, key) = {} /\ Unused(table) = {}     -> full
    [] OTHER                                            -> "ok"

=============================================================================

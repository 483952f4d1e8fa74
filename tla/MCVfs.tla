------------------------------- MODULE MCVfs --------------------------------
(***************************************************************************)
(* Instances of Vfs for TLC.  A directory, a name that is not there, and   *)
(* the special file.                                                       *)
(***************************************************************************)
EXTENDS Vfs

TwoClients == {<<1, 0>>, <<2, 0>>}
AllNames == {"disk", "dot", "no_entry"}
SomeFlags == [c \in TwoClients |-> IF c[1] = 1 THEN {{"O_RDWR"}} ELSE {{"O_WRONLY", "O_APPEND"}}]
SomeSeeks == {<<"SEEK_CUR", -1>>, <<"SEEK_END", 1>>}

=============================================================================

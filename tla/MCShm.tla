------------------------------- MODULE MCShm --------------------------------
(***************************************************************************)
(* Instances of Shm for TLC.  Main threads of two processes have the same  *)
(* port number.  Names and pages are only compared with each other.        *)
(***************************************************************************)
EXTENDS Shm, TLC

TwoClients == {<<1, 0>>, <<2, 0>>}
AnyOpen == {{"O_CREAT", "O_RDWR"}, {"O_CREAT", "O_EXCL", "O_RDWR"},
            {}, {"O_TRUNC", "O_RDWR"}}
OpenOrCreate == {{"O_CREAT", "O_RDWR"}, {}}
NamesSymmetric == Permutations(Names)

=============================================================================

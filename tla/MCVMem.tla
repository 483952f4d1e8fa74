------------------------------- MODULE MCVMem -------------------------------
(***************************************************************************)
(* Instance of VMem for TLC.  Pages are only compared with each other.     *)
(***************************************************************************)
EXTENDS VMem, TLC

PagesSymmetric == Permutations(Pages)

=============================================================================

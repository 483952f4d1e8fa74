----------------------------- MODULE MCNamedIpc -----------------------------
(***************************************************************************)
(* Named mailboxes and portals of two processes.                           *)
(***************************************************************************)
EXTENDS NamedIpc, TLC

CONSTANTS p1, p2, n1, n2

TwoProcesses == {p1, p2}
TwoNames == {n1, n2}
Symmetric == Permutations(TwoProcesses) \cup Permutations(TwoNames)

=============================================================================

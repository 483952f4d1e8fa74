----------------------------- MODULE MCMsgQueue -----------------------------
(***************************************************************************)
(* Instances of MsgQueue for TLC.  Main threads of two processes have the  *)
(* same port number.                                                       *)
(***************************************************************************)
EXTENDS MsgQueue

LOCAL F == INSTANCE Functions

CONSTANTS k1, k2, private

TwoClients == {<<1, 0>>, <<2, 0>>}
SomeGets == {<<k1, {"IPC_CREAT"}>>, <<k1, Flags>>, <<k2, {"IPC_CREAT"}>>}

\* The number of units, of which the proofs speak, is the sum of the counters.
ASSUME TotalIsSum == \A f \in [0 .. 2 -> 0 .. 3] : Total(f) = F!SumFunction(f)

=============================================================================

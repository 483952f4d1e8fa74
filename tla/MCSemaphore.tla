---------------------------- MODULE MCSemaphore ----------------------------
(***************************************************************************)
(* Instances of Semaphore for TLC.  Clients are the main threads of two    *)
(* user processes; node 0 hosts servers only.                              *)
(***************************************************************************)
EXTENDS Semaphore

CONSTANTS k1, k2, private

TwoClients == {<<1, 0>>, <<2, 0>>}
CreateOne == {<<k1, {"IPC_CREAT"}>>}
SomeGets == {<<k1, {"IPC_CREAT"}>>, <<k1, Flags>>, <<k2, {"IPC_CREAT"}>>}
UpDownZero == {1, -1, 0}

=============================================================================

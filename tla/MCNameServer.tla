---------------------------- MODULE MCNameServer ----------------------------
(***************************************************************************)
(* Instances of NameServer for TLC.  The name server runs on node 0; the   *)
(* port of a main thread is the same on every node.                        *)
(***************************************************************************)
EXTENDS NameServer

Self == <<0, 2>>
SamePorts == {<<1, 0>>, <<2, 0>>}

=============================================================================

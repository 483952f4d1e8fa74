------------------------------- MODULE MCSpawn -------------------------------
(***************************************************************************)
(* The servers and spawners of the unix64 image (spawn0.c to spawn3.c and  *)
(* config/unix64.h), with a user program and the test program.             *)
(***************************************************************************)
EXTENDS Spawn

Unix64Spawners == {"spawn0", "spawn1", "spawn2", "spawn3"}
Unix64Table ==
  [p \in Unix64Spawners |->
     CASE p = "spawn0" -> <<"name", "vfs">>
       [] p = "spawn1" -> <<"rmem0">>
       [] p = "spawn2" -> <<"rmem1">>
       [] OTHER        -> <<"sysv">>]
Unix64Services == <<"name", "rmem0", "rmem1", "vfs", "sysv">>
Unix64Exits == <<"sysv", "vfs", "rmem0", "rmem1", "name">>
Unix64Servers == {Unix64Services[i] : i \in DOMAIN Unix64Services}
Unix64Ring ==
  [s \in Unix64Servers |->
     CASE s = "name" -> 0 [] s = "sysv" -> 3 [] OTHER -> 1]
Unix64Port == [s \in Unix64Servers |-> IF s = "vfs" THEN 3 ELSE 2]
Unix64OpensIn ==
  [s \in Unix64Servers |->
     CASE s = "name" -> 1 [] s = "sysv" -> 4 [] OTHER -> 3]

TwoPrograms == {"user", "test"}

=============================================================================

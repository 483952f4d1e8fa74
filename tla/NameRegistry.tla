---------------------------- MODULE NameRegistry ----------------------------
(***************************************************************************)
(* What the name service promises: a registry that maps every name to at   *)
(* most one process and counts how often that process linked it.           *)
(***************************************************************************)
EXTENDS Integers

CONSTANTS Processes,  \* the processes that link names
          Names,      \* the names
          NoProcess,  \* stands for the owner of a name that is not linked
          FirstName,  \* the name that is linked from the beginning
          FirstOwner  \* the process that linked it

VARIABLES owner,  \* owner[n]: the process that linked name n
          count   \* count[n]: how many links of name n are in force

vars == <<owner, count>>

Init ==
  /\ owner = [n \in Names |-> IF n = FirstName THEN FirstOwner ELSE NoProcess]
  /\ count = [n \in Names |-> IF n = FirstName THEN 1 ELSE 0]

Link(p, n) ==
  /\ owner[n] \in {NoProcess, p}
  /\ owner' = [owner EXCEPT ![n] = p]
  /\ count' = [count EXCEPT ![n] = @ + 1]

Unlink(p, n) ==
  /\ owner[n] = p
  /\ count' = [count EXCEPT ![n] = @ - 1]
  /\ owner' = [owner EXCEPT ![n] = IF count[n] = 1 THEN NoProcess ELSE @]

Next == \E p \in Processes, n \in Names : Link(p, n) \/ Unlink(p, n)

Spec == Init /\ [][Next]_vars

=============================================================================

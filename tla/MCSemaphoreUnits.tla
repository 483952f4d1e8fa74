-------------------------- MODULE MCSemaphoreUnits --------------------------
(***************************************************************************)
(* Semaphores with a count of the units that processes put into and took   *)
(* from each of them.                                                      *)
(***************************************************************************)
EXTENDS MCSemaphore, Functions

VARIABLE units  \* units[s]: units put, minus units that calls returned with

UpDown == {1, -1}

\* An operation on s is in call[c].
Operates(c, s) == call[c].op = "operate" /\ call[c].sem = s

\* The server completes an increment of client c.
Puts(c, s) ==
  /\ Operates(c, s) /\ call[c].sem_op > 0
  /\ c \in requests \ requests' /\ reply'[c].status = "ok"

\* A decrement that may block returns with success to client c.
Takes(c, s) ==
  /\ Operates(c, s) /\ call[c].sem_op < 0 /\ call[c].sem_flg # "IPC_NOWAIT"
  /\ reply[c].status = "ok" /\ reply'[c] = NoReply

UnitsInit == Init /\ units = [s \in Semaphores |-> 0]

UnitsNext ==
  /\ Next
  /\ units' = [s \in Semaphores |->
       IF ~semaphores[s].used THEN 0
       ELSE units[s] + SumFunction([c \in Clients |->
              IF Puts(c, s) \/ Takes(c, s) THEN call[c].sem_op ELSE 0])]

UnitsSpec == UnitsInit /\ [][UnitsNext]_<<vars, units>>

\* A decrement that may block returns zero only when it has completed: the
\* processes never took more units from a semaphore than were put into it.
\* "Zero is returned when the process has completed the semaphore operation,
\* whereas one is returned when the process should block on the semaphore"
\* (sysv/main.c).
UnitsBacked == \A s \in Semaphores : units[s] >= 0

=============================================================================

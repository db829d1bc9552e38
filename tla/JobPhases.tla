------------------------------ MODULE JobPhases ------------------------------
(* The phases of a task in the queue, and a move from one to another: the  *)
(* vocabulary of JobQueue, and of the modules that use the queue without   *)
(* looking into it.                                                        *)

CONSTANT Tasks
VARIABLE phase

Phase == {"absent", "waiting", "held", "suspended",
          "completed", "failed", "cancelled"}

NoneSubmitted == phase = [t \in Tasks |-> "absent"]

Move(t, from, to) ==
  /\ phase[t] \in from
  /\ phase' \in {[phase EXCEPT ![t] = p] : p \in to}
=============================================================================

------------------------------- MODULE JobQueue -------------------------------
(***************************************************************************)
(* What the creation scheduler promises to the owner of a task, with the   *)
(* broker, the leases and the recovery tick out of sight: a task waits, is *)
(* held (it occupies one of its owner's slots), is suspended, or is over.  *)
(*                                                                         *)
(* Two kinds of steps are decided on one state and take effect in another: *)
(* the owner's requests, and the start of a process.  asked and starting   *)
(* hold those that were let in; nothing looks again before they act, so    *)
(* they act on whatever the task has become.  All else respects the        *)
(* queue: the order of the line, the limit, and what is over.              *)
(***************************************************************************)
EXTENDS JobPhases, Naturals, FiniteSets

CONSTANTS Users, UserOf, Rank, Limit, Requests, None

VARIABLES asked,     \* what each request was let in to do
          starting   \* tasks with a process that was let in and has not begun

vars == <<phase, asked, starting>>

\* What the owner may ask for, of which tasks, and to what end.
Op == {"pause", "resume", "cancel"}
From(op) == CASE op = "pause"  -> {"waiting", "held"}
              [] op = "resume" -> {"suspended", "failed"}
              [] op = "cancel" -> {"waiting", "held", "suspended"}
To(op) ==
  CASE op = "pause" -> "suspended" [] op = "resume" -> "waiting" [] op = "cancel" -> "cancelled"

Waiting(u) == {t \in Tasks : UserOf[t] = u /\ phase[t] = "waiting"}
Held(u) == {t \in Tasks : UserOf[t] = u /\ phase[t] = "held"}

Init == NoneSubmitted /\ asked = [q \in Requests |-> None] /\ starting = {}

\* Processes that had been let in are lost, revoked, or give up: at any time,
\* and with whatever else happens to a task.
SomeGiveUp == starting' \in SUBSET starting

\* The first tasks in line get the free slots; one that cannot be started fails.
Take(u) ==
  \E batch \in SUBSET Waiting(u) : \E taken \in SUBSET batch :
    /\ \A t \in batch, x \in Waiting(u) \ batch : Rank[t] < Rank[x]
    /\ Cardinality(Held(u)) + Cardinality(batch) <= Limit[u]
    /\ phase' = [t \in Tasks |-> IF t \in taken THEN "held"
                                 ELSE IF t \in batch THEN "failed" ELSE phase[t]]
    /\ UNCHANGED <<asked, starting>>

Submit(t)   == Move(t, {"absent"}, {"waiting"}) /\ SomeGiveUp /\ UNCHANGED asked
GiveBack(t) == Move(t, {"held"}, {"waiting", "failed"}) /\ SomeGiveUp /\ UNCHANGED asked
Finish(t)   == /\ Move(t, {"held"}, {"completed", "failed", "suspended", "cancelled"})
               /\ SomeGiveUp /\ UNCHANGED asked
GiveUp      == SomeGiveUp /\ UNCHANGED <<phase, asked>>

\* A process is let in to a held task; it begins, whatever became of the task.
LetIn(t) ==
  /\ phase[t] = "held"
  /\ starting' = starting \cup {t}
  /\ UNCHANGED <<phase, asked>>
Begin(t) ==
  /\ t \in starting
  /\ Move(t, Phase, {"held"})
  /\ SomeGiveUp
  /\ UNCHANGED asked

\* A request is let in by the phase of its task; it is answered, whatever
\* became of the task.
Ask(q, op, t) ==
  /\ asked[q] = None
  /\ phase[t] \in From(op)
  /\ asked' = [asked EXCEPT ![q] = [op |-> op, task |-> t]]
  /\ UNCHANGED <<phase, starting>>
Answer(q) ==
  /\ asked[q] # None
  /\ Move(asked[q].task, Phase, {To(asked[q].op)})
  /\ asked' = [asked EXCEPT ![q] = None]
  /\ SomeGiveUp

Next ==
  \/ GiveUp
  \/ \E q \in Requests : \/ \E op \in Op, t \in Tasks : Ask(q, op, t)
                         \/ Answer(q)
  \/ \E t \in Tasks : Submit(t) \/ GiveBack(t) \/ Finish(t) \/ LetIn(t) \/ Begin(t)
  \/ \E u \in Users : Take(u)

Spec == Init /\ [][Next]_vars
=============================================================================

----------------------- MODULE CreationSchedulerProofs -----------------------
(* Theorems about CreationScheduler and, at the end, about the lock that   *)
(* makes its Reserve one step (DispatchLock), for every value of their     *)
(* constants.                                                              *)
EXTENDS CreationScheduler, DispatchLock, FiniteSetTheorems, TLAPS

-----------------------------------------------------------------------------
(* What the row updates return.                                            *)

\* Every update of a row is a row again.
LEMMA RowUpdates ==
  ASSUME NEW r \in Row
  PROVE  /\ \A s \in Status : Unbind(r, s) \in Row
         /\ Refresh(r) \in Row
         /\ MarkRunning(r) \in Row
         /\ Reclaimed(r) \in Row
         /\ \A result \in Result : Finalized(r, result) \in Row
         /\ \A op \in Op, seen \in View : Updated(op, seen, r) \in Row
         /\ ViewOf(r) \in View
<1> USE ConstantsAssumption
<1>1. \A s \in Status : Unbind(r, s) \in Row
  BY DEF Row, Status, Lease, Unbind
<1>2. \A x \in Row : Refresh(x) \in Row
  BY DEF Row, Lease, Refresh
<1>3. MarkRunning(r) \in Row
  <2>1. [r EXCEPT !.status = "running"] \in Row
    BY DEF Row, Status, Active
  <2> QED BY <1>2, <2>1 DEF MarkRunning
<1>4. Reclaimed(r) \in Row
  <2>1. CASE r.recoveries >= MaxRecoveries
    BY <1>1, <2>1 DEF Reclaimed, Status, Terminal
  <2>2. CASE ~(r.recoveries >= MaxRecoveries)
    <3>1. r.recoveries + 1 \in 0..MaxRecoveries
      BY <2>2 DEF Row
    <3>2. Unbind(r, "queued") \in Row /\ Unbind(r, "queued").recoveries = r.recoveries
      BY <1>1 DEF Status, Unbind, Row
    <3> QED BY <2>2, <3>1, <3>2 DEF Reclaimed, Row
  <2> QED BY <2>1, <2>2
<1>5. \A result \in Result : Finalized(r, result) \in Row
  BY <1>1 DEF Finalized, Result, Status, Terminal
<1>6. ASSUME NEW op \in Op, NEW seen \in View
      PROVE  Updated(op, seen, r) \in Row
  <2>1. Target(op) \in Status
    BY DEF Target, Status, Terminal
  <2>2. seen.retries < MaxRetries => seen.retries + 1 \in 0..MaxRetries
    BY DEF View
  <2> QED BY <2>1, <2>2 DEF Updated, Row, Lease
<1>7. ViewOf(r) \in View
  BY DEF ViewOf, View, Row
<1> QED BY <1>1, <1>2, <1>3, <1>4, <1>5, <1>6, <1>7

\* A process that is not idle is an execution, and carries a message.
LEMMA Executions ==
  ASSUME TypeOK, NEW s \in Slots, slot[s].pc # "idle"
  PROVE  /\ slot[s] \in Execution
         /\ slot[s].task \in Tasks
         /\ slot[s].id \in Ids
         /\ MessageOf(s) \in Message
         /\ slot[s].pc = "finalize" => slot[s].result \in Result
  BY DEF TypeOK, Idle, Execution, Message, MessageOf, Result

\* The slots in their type.
SlotsTyped == slot \in [Slots -> Execution \cup {Idle}]

\* What a process does to its own slot keeps the slots in their type.
LEMMA SlotUpdates ==
  ASSUME TypeOK, NEW s \in Slots, slot[s].pc # "idle"
  PROVE  /\ Free(s) => SlotsTyped'
         /\ \A result \in Result : EndsWith(s, result) => SlotsTyped'
         /\ LeaveSuperseded(s) => SlotsTyped'
         /\ \A pc \in {"activate", "work"} :
              slot[s].pc # "finalize" /\ slot' = [slot EXCEPT ![s].pc = pc]
              => SlotsTyped'
<1>1. Free(s) => SlotsTyped'
  BY DEF TypeOK, Free, SlotsTyped
<1>2. ASSUME NEW result \in Result, EndsWith(s, result) PROVE SlotsTyped'
  <2>1. [slot[s] EXCEPT !.pc = "finalize", !.result = result] \in Execution
    BY Executions DEF Execution, Result
  <2>2. slot' = [slot EXCEPT ![s] =
                   [slot[s] EXCEPT !.pc = "finalize", !.result = result]]
    BY <1>2 DEF EndsWith, TypeOK
  <2> QED BY <2>1, <2>2 DEF TypeOK, SlotsTyped
<1>3. LeaveSuperseded(s) => SlotsTyped'
  BY <1>1, <1>2 DEF LeaveSuperseded, Result
<1>4. ASSUME NEW pc \in {"activate", "work"}, slot[s].pc # "finalize",
             slot' = [slot EXCEPT ![s].pc = pc]
      PROVE  SlotsTyped'
  BY <1>4, Executions DEF TypeOK, Execution, SlotsTyped
<1> QED BY <1>1, <1>2, <1>3, <1>4

\* A revocation only empties slots and drops messages.
LEMMA Revocations ==
  ASSUME TypeOK, NEW i, Revoke(i)
  PROVE  SlotsTyped' /\ msgs' \subseteq Message
  BY DEF TypeOK, Revoke, SlotsTyped

\* Writing a row keeps the rows in their type.
LEMMA RowWrites ==
  ASSUME TypeOK, NEW t \in Tasks, NEW r \in Row, SetTask(t, r)
  PROVE  task' \in [Tasks -> Row]
  BY DEF TypeOK, SetTask

-----------------------------------------------------------------------------
(* The type invariant.                                                     *)

\* A dispatch reserves rows of the queue with fresh ids of their own.
LEMMA ReserveTyped ==
  ASSUME TypeOK, NEW u \in Users, Reserve(u)
  PROVE  TypeOK'
<1>0. PICK bad \in SUBSET Batch(u) :
        \E give \in Injection(Batch(u) \ bad, FreeIds) :
          /\ task' = [t \in Tasks |->
               CASE t \in bad -> Unbind(task[t], "failed")
                 [] t \in Batch(u) \ bad ->
                      [task[t] EXCEPT !.status = "dispatching",
                                      !.worker = give[t], !.lease = "fresh"]
                 [] OTHER -> task[t]]
          /\ outbox' = outbox \cup
               {[task |-> t, id |-> give[t]] : t \in Batch(u) \ bad}
  BY DEF Reserve
<1>1. PICK give \in Injection(Batch(u) \ bad, FreeIds) :
        /\ task' = [t \in Tasks |->
             CASE t \in bad -> Unbind(task[t], "failed")
               [] t \in Batch(u) \ bad ->
                    [task[t] EXCEPT !.status = "dispatching",
                                    !.worker = give[t], !.lease = "fresh"]
               [] OTHER -> task[t]]
        /\ outbox' = outbox \cup
             {[task |-> t, id |-> give[t]] : t \in Batch(u) \ bad}
  BY <1>0
<1>2. Batch(u) \subseteq Tasks /\ FreeIds \subseteq Ids
  BY DEF Batch, Queued, FreeIds
<1>3. \A t \in Batch(u) \ bad : give[t] \in Ids
  BY <1>2 DEF Injection
<1>4. task' \in [Tasks -> Row]
  <2>1. \A t \in Tasks : Unbind(task[t], "failed") \in Row
    BY RowUpdates DEF TypeOK, Status, Terminal
  <2>2. ASSUME NEW t \in Batch(u) \ bad
        PROVE  [task[t] EXCEPT !.status = "dispatching", !.worker = give[t],
                               !.lease = "fresh"] \in Row
    BY <1>2, <1>3 DEF TypeOK, Row, Status, Active, Lease
  <2> QED BY <1>1, <2>1, <2>2 DEF TypeOK
<1>5. outbox' \subseteq Message
  <2>1. \A t \in Batch(u) \ bad : [task |-> t, id |-> give[t]] \in Message
    BY <1>2, <1>3 DEF Message
  <2> QED BY <1>1, <2>1 DEF TypeOK
<1> QED BY <1>4, <1>5 DEF Reserve, TypeOK

LEMMA DispatchTyped == TypeOK /\ DispatchNext => TypeOK'
<1> SUFFICES ASSUME TypeOK, DispatchNext PROVE TypeOK'
  OBVIOUS
<1>1. ASSUME NEW t \in Tasks, Submit(t) PROVE TypeOK'
  BY <1>1 DEF Submit, SetTask, TypeOK, Row, Status
<1>2. ASSUME NEW u \in Users, Reserve(u) PROVE TypeOK'
  BY <1>2, ReserveTyped
<1>3. ASSUME NEW m \in outbox, Publish(m) \/ DispatcherDies(m) PROVE TypeOK'
  BY <1>3 DEF Publish, DispatcherDies, TypeOK
<1>4. ASSUME NEW m \in outbox, PublishFails(m) PROVE TypeOK'
  <2>1. m.task \in Tasks
    BY DEF TypeOK, Message
  <2>2. Unbind(task[m.task], "queued") \in Row
    BY <2>1, RowUpdates DEF TypeOK, Status
  <2>3. task' \in [Tasks -> Row]
    BY <1>4, <2>1, <2>2 DEF PublishFails, SetTask, TypeOK
  <2> QED BY <1>4, <2>3 DEF PublishFails, TypeOK
<1> QED BY <1>1, <1>2, <1>3, <1>4 DEF DispatchNext

LEMMA WorkerTyped == TypeOK /\ WorkerNext => TypeOK'
<1> SUFFICES ASSUME TypeOK, NEW s \in Slots,
                    \/ \E m \in msgs : Deliver(s, m)
                    \/ Redeliver(s) \/ Crash(s)
                    \/ Activate(s) \/ CommitActivation(s)
                    \/ Heartbeat(s) \/ Check(s) \/ End(s)
                    \/ Finalize(s) \/ FinalizeFails(s)
             PROVE  TypeOK'
  BY DEF WorkerNext
<1>1. ASSUME NEW m \in msgs, Deliver(s, m) PROVE TypeOK'
  BY <1>1 DEF Deliver, TypeOK, Message, Execution
<1>2. ASSUME slot[s] # Idle PROVE slot[s].pc # "idle" /\ MessageOf(s) \in Message
  BY <1>2, Executions DEF TypeOK, Execution, MessageOf, Message
<1>3. CASE Redeliver(s)
  BY <1>2, <1>3 DEF Redeliver, TypeOK, Execution
<1>4. CASE Crash(s)
  BY <1>2, <1>4, SlotUpdates DEF Crash, TypeOK, SlotsTyped
<1>5. ASSUME slot[s].pc # "idle"
      PROVE  /\ slot[s].task \in Tasks
             /\ Refresh(task[slot[s].task]) \in Row
             /\ MarkRunning(task[slot[s].task]) \in Row
             /\ \A result \in Result : Finalized(task[slot[s].task], result) \in Row
  BY <1>5, Executions, RowUpdates DEF TypeOK
<1>6. CASE Activate(s)
  <2>1. slot[s].pc # "idle"
    BY <1>6 DEF Activate
  <2>2. SlotsTyped'
    BY <1>6, <2>1, SlotUpdates DEF Activate, Result
  <2> QED BY <1>6, <2>2 DEF Activate, TypeOK, SlotsTyped
<1>7. CASE CommitActivation(s)
  BY <1>5, <1>7, RowWrites, SlotUpdates DEF CommitActivation, TypeOK, SlotsTyped
<1>8. CASE Heartbeat(s)
  BY <1>5, <1>8, RowWrites DEF Heartbeat, Beats, TypeOK
<1>9. CASE Check(s)
  BY <1>9, SlotUpdates DEF Check, TypeOK, SlotsTyped, Result
<1>10. CASE End(s)
  BY <1>10, SlotUpdates DEF End, TypeOK, SlotsTyped, Result
<1>11. CASE Finalize(s)
  <2>1. slot[s].result \in Result
    BY <1>11, Executions DEF Finalize
  <2> QED BY <1>5, <1>11, <2>1, RowWrites, SlotUpdates DEF Finalize, TypeOK, SlotsTyped
<1>12. CASE FinalizeFails(s)
  BY <1>12, SlotUpdates DEF FinalizeFails, TypeOK, SlotsTyped
<1> QED BY <1>1, <1>3, <1>4, <1>6, <1>7, <1>8, <1>9, <1>10, <1>11, <1>12

LEMMA ControlTyped == TypeOK /\ ControlNext => TypeOK'
<1> SUFFICES ASSUME TypeOK, ControlNext PROVE TypeOK'
  OBVIOUS
<1>1. ASSUME NEW op \in Op, NEW seen \in View, RevokedBy(op, seen)
      PROVE  SlotsTyped' /\ msgs' \subseteq Message
  BY <1>1, Revocations DEF RevokedBy, TypeOK, SlotsTyped
<1>2. \A t \in Tasks : task[t] \in Row
  BY DEF TypeOK
<1>4. ASSUME NEW op \in Op, NEW t \in Tasks, NEW q \in Calls, ReadControl(q, op, t)
      PROVE  TypeOK'
  <2>1. [op |-> op, task |-> t, seen |-> ViewOf(task[t])] \in Request
    BY <1>2, RowUpdates DEF Request
  <2> QED BY <1>4, <2>1 DEF ReadControl, TypeOK
<1>5. ASSUME NEW q \in Calls, CommitControl(q) PROVE TypeOK'
  <2>1. call[q] \in Request
    BY <1>5 DEF CommitControl, TypeOK
  <2>2. /\ call[q].op \in Op /\ call[q].task \in Tasks /\ call[q].seen \in View
    BY <2>1 DEF Request
  <2>3. task' \in [Tasks -> Row]
    BY <1>2, <1>5, <2>2, RowUpdates, RowWrites DEF CommitControl
  <2>4. SlotsTyped' /\ msgs' \subseteq Message
    BY <1>1, <1>5, <2>2 DEF CommitControl
  <2> QED BY <1>5, <2>3, <2>4 DEF CommitControl, TypeOK, SlotsTyped
<1> QED BY <1>4, <1>5 DEF ControlNext

LEMMA RecoveryTyped == TypeOK /\ RecoveryNext => TypeOK'
<1> SUFFICES ASSUME TypeOK, NEW t \in Tasks, LeaseExpires(t) \/ Repair(t) \/ Reclaim(t)
                                    \/ RollsBackAfterRevoke(t)
             PROVE  TypeOK'
  BY DEF RecoveryNext
<1>1. task[t] \in Row
  BY DEF TypeOK
<1>2. CASE LeaseExpires(t)
  <2>1. [task[t] EXCEPT !.lease = "expired"] \in Row
    BY <1>1 DEF Row, Lease
  <2> QED BY <1>2, <2>1, RowWrites DEF LeaseExpires, TypeOK
<1>3. CASE Repair(t)
  <2>1. [task[t] EXCEPT !.status = "running"] \in Row
    BY <1>1 DEF Row, Status, Active
  <2> QED BY <1>3, <2>1, RowWrites DEF Repair, TypeOK
<1>4. CASE Reclaim(t)
  BY <1>1, <1>4, RowUpdates, RowWrites, Revocations DEF Reclaim, TypeOK, SlotsTyped
<1>5. CASE RollsBackAfterRevoke(t)
  BY <1>5, Revocations DEF RollsBackAfterRevoke, TypeOK, SlotsTyped
<1> QED BY <1>2, <1>3, <1>4, <1>5

LEMMA TypeStep == TypeOK /\ [Next]_vars => TypeOK'
<1>1. TypeOK /\ UNCHANGED vars => TypeOK'
  BY DEF TypeOK, vars
<1> QED BY <1>1, DispatchTyped, WorkerTyped, ControlTyped, RecoveryTyped DEF Next

LEMMA TypeInit == Init => TypeOK
  BY ConstantsAssumption DEF Init, TypeOK, Row, Status, Lease

\* Every row, message, process and request stays in its type: among others,
\* retry_count and recovery_count never pass their bounds.
THEOREM TypeCorrect == Spec => []TypeOK
  BY TypeInit, TypeStep, PTL DEF Spec

-----------------------------------------------------------------------------
(* A row that occupies a slot can always be taken back.                    *)

\* Every action leaves each row leased if it leaves it active.
LEMMA LeasedStep == TypeOK /\ ActiveIsLeased /\ [Next]_vars => ActiveIsLeased'
<1> SUFFICES ASSUME TypeOK, ActiveIsLeased, [Next]_vars PROVE ActiveIsLeased'
  OBVIOUS
<1> DEFINE Leased(r) == r.status \in Active => r.lease # "none"
<1>1. ASSUME NEW t \in Tasks, NEW r, SetTask(t, r), Leased(r) PROVE ActiveIsLeased'
  BY <1>1 DEF SetTask, ActiveIsLeased, TypeOK
<1>2. UNCHANGED task => ActiveIsLeased'
  BY DEF ActiveIsLeased
<1>3. \A r \in Row, s \in Status \ Active : Leased(Unbind(r, s))
  BY DEF Unbind, Row
<1>4. \A r \in Row : Leased(Refresh(r)) /\ Leased(MarkRunning(r))
  BY DEF Refresh, MarkRunning, Row
<1>5. \A t \in Tasks : task[t] \in Row /\ Leased(task[t])
  BY DEF TypeOK, ActiveIsLeased
<1>6. {"queued", "failed"} \cup Result \subseteq Status \ Active
  BY DEF Status, Active, Terminal, Result
<1>7. ASSUME DispatchNext PROVE ActiveIsLeased'
  <2>1. ASSUME NEW t \in Tasks, Submit(t) PROVE ActiveIsLeased'
    <3>1. Leased([task[t] EXCEPT !.status = "queued"])
      BY <1>5 DEF Row, Active
    <3> QED BY <1>1, <2>1, <3>1 DEF Submit
  <2>2. ASSUME NEW u \in Users, Reserve(u) PROVE ActiveIsLeased'
    <3>1. ASSUME NEW t \in Tasks
          PROVE  \/ task'[t] = Unbind(task[t], "failed")
                 \/ \E i : task'[t] = [task[t] EXCEPT !.status = "dispatching",
                                            !.worker = i, !.lease = "fresh"]
                 \/ task'[t] = task[t]
      BY <2>2 DEF Reserve
    <3>2. ASSUME NEW t \in Tasks PROVE Leased(task'[t])
      <4>1. CASE task'[t] = Unbind(task[t], "failed")
        BY <1>3, <1>5, <1>6, <4>1
      <4>2. CASE \E i : task'[t] = [task[t] EXCEPT !.status = "dispatching",
                                            !.worker = i, !.lease = "fresh"]
        <5>1. PICK i : task'[t] = [task[t] EXCEPT !.status = "dispatching",
                                          !.worker = i, !.lease = "fresh"]
          BY <4>2
        <5>2. [task[t] EXCEPT !.status = "dispatching", !.worker = i, !.lease = "fresh"].lease
              = "fresh"
          BY <1>5 DEF Row
        <5> QED BY <5>1, <5>2
      <4>3. CASE task'[t] = task[t]
        BY <1>5, <4>3
      <4> QED BY <3>1, <4>1, <4>2, <4>3
    <3> QED BY <3>2 DEF ActiveIsLeased
  <2>3. ASSUME NEW m \in outbox, PublishFails(m) PROVE ActiveIsLeased'
    <3>1. m.task \in Tasks
      BY DEF TypeOK, Message
    <3> QED BY <1>1, <1>3, <1>5, <1>6, <2>3, <3>1 DEF PublishFails
  <2> QED BY <1>2, <1>7, <2>1, <2>2, <2>3 DEF DispatchNext, Publish, DispatcherDies
<1>8. ASSUME WorkerNext PROVE ActiveIsLeased'
  <2> SUFFICES ASSUME NEW s \in Slots,
                      \/ CommitActivation(s)
                      \/ Heartbeat(s) \/ Finalize(s) \/ UNCHANGED task
               PROVE  ActiveIsLeased'
    BY <1>8 DEF WorkerNext, Deliver, Redeliver, Crash, Activate, Check, End, FinalizeFails
  <2>1. slot[s].pc # "idle" => slot[s].task \in Tasks
    BY Executions
  <2>3. CASE CommitActivation(s)
    BY <1>1, <1>4, <1>5, <2>1, <2>3 DEF CommitActivation
  <2>4. CASE Heartbeat(s)
    BY <1>1, <1>4, <1>5, <2>1, <2>4 DEF Heartbeat, Beats
  <2>5. CASE Finalize(s)
    <3>1. slot[s].result \in Result
      BY <2>5, Executions DEF Finalize
    <3> QED BY <1>1, <1>3, <1>5, <1>6, <2>1, <2>5, <3>1 DEF Finalize, Finalized
  <2> QED BY <1>2, <2>3, <2>4, <2>5
<1>9. ASSUME ControlNext PROVE ActiveIsLeased'
  <2>1. \A op \in Op, seen \in View, r \in Row : Leased(Updated(op, seen, r))
    BY DEF Updated, Target, Op, Row, Active
  <2>3. ASSUME NEW q \in Calls, CommitControl(q) PROVE ActiveIsLeased'
    <3>1. call[q] \in Request
      BY <2>3 DEF CommitControl, TypeOK
    <3>2. /\ call[q].op \in Op /\ call[q].task \in Tasks /\ call[q].seen \in View
      BY <3>1 DEF Request
    <3> QED BY <1>1, <1>5, <2>1, <2>3, <3>2 DEF CommitControl
  <2> QED BY <1>2, <1>9, <2>3 DEF ControlNext, ReadControl
<1>10. ASSUME RecoveryNext PROVE ActiveIsLeased'
  <2> SUFFICES ASSUME NEW t \in Tasks, LeaseExpires(t) \/ Repair(t) \/ Reclaim(t)
                                      \/ UNCHANGED task
               PROVE  ActiveIsLeased'
    BY <1>10 DEF RecoveryNext, RollsBackAfterRevoke
  <2>1. CASE LeaseExpires(t)
    <3>1. Leased([task[t] EXCEPT !.lease = "expired"])
      BY <1>5 DEF Row
    <3> QED BY <1>1, <2>1, <3>1 DEF LeaseExpires
  <2>2. CASE Repair(t)
    <3>1. Leased([task[t] EXCEPT !.status = "running"])
      BY <1>5, <2>2 DEF Repair, Row
    <3> QED BY <1>1, <2>2, <3>1 DEF Repair
  <2>3. CASE Reclaim(t)
    <3>1. \A r \in Row : Leased([Unbind(r, "queued") EXCEPT !.recoveries = @ + 1])
      BY DEF Unbind, Row, Active
    <3>2. Leased(Reclaimed(task[t]))
      BY <1>3, <1>5, <1>6, <3>1 DEF Reclaimed
    <3> QED BY <1>1, <2>3, <3>2 DEF Reclaim
  <2> QED BY <1>2, <2>1, <2>2, <2>3
<1> QED BY <1>2, <1>7, <1>8, <1>9, <1>10 DEF Next, vars

LEMMA LeasedInit == Init => ActiveIsLeased
  BY DEF Init, ActiveIsLeased, Active

\* Whatever transactions overlap, and however workers die, an active row has
\* a lease: the recovery tick always finds it once its worker falls silent.
THEOREM AlwaysRecoverable == Spec => []ActiveIsLeased
  BY TypeCorrect, LeasedInit, LeasedStep, PTL DEF Spec

-----------------------------------------------------------------------------
(* The rows a step changes.                                                *)

\* What the transactions that decide and write at once make of a row.
Ordinary(r, r1) ==
  \/ r1 = Refresh(r)
  \/ r1 = [r EXCEPT !.lease = "expired"]
  \/ r.status = "dispatching" /\ r1 = [r EXCEPT !.status = "running"]
  \/ r.status = "dispatching" /\ r1 = Unbind(r, "queued")
  \/ r.status = "absent" /\ r1 = [r EXCEPT !.status = "queued"]
  \/ Reclaimable(r) /\ r1 = Reclaimed(r)
  \/ \E result \in Result : r1 = Finalized(r, result)

\* A step leaves the rows alone, or writes one of them at once, or is a
\* dispatch or one of the two writes that were decided before.
LEMMA RowSteps ==
  ASSUME TypeOK, [Next]_vars
  PROVE  \/ UNCHANGED task
         \/ \E u \in Users : Reserve(u)
         \/ \E q \in Calls : CommitControl(q)
         \/ \E s \in Slots : CommitActivation(s)
         \/ \E t \in Tasks : \E r1 : SetTask(t, r1) /\ Ordinary(task[t], r1)
<1> DEFINE One == \E t \in Tasks : \E r1 : SetTask(t, r1) /\ Ordinary(task[t], r1)
<1>1. ASSUME NEW t \in Tasks, NEW r1, SetTask(t, r1), Ordinary(task[t], r1) PROVE One
  BY <1>1
<1>2. ASSUME NEW t \in Tasks, SetTask(t, task[t]) PROVE UNCHANGED task
  BY <1>2 DEF SetTask, TypeOK
<1> HIDE DEF One
<1>3. ASSUME NEW t \in Tasks, Submit(t) PROVE One
  BY <1>1, <1>3 DEF Submit, Ordinary
<1>4. ASSUME NEW m \in outbox, PublishFails(m) PROVE One \/ UNCHANGED task
  <2>1. m.task \in Tasks
    BY DEF TypeOK, Message
  <2> QED BY <1>1, <1>2, <1>4, <2>1 DEF PublishFails, Ordinary
<1>5. ASSUME NEW s \in Slots, Heartbeat(s) PROVE One
  <2>1. slot[s].task \in Tasks
    BY <1>5, Executions DEF Heartbeat, Beats
  <2> QED BY <1>1, <1>5, <2>1 DEF Heartbeat, Ordinary
<1>6. ASSUME NEW s \in Slots, Finalize(s) PROVE One
  <2>1. slot[s].task \in Tasks /\ slot[s].result \in Result
    BY <1>6, Executions DEF Finalize
  <2> QED BY <1>1, <1>6, <2>1 DEF Finalize, Ordinary
<1>7. ASSUME NEW t \in Tasks, LeaseExpires(t) \/ Repair(t) \/ Reclaim(t) PROVE One
  BY <1>1, <1>7 DEF LeaseExpires, Repair, Reclaim, Ordinary
<1>8. DispatchNext => One \/ UNCHANGED task \/ \E u \in Users : Reserve(u)
  BY <1>3, <1>4 DEF DispatchNext, Publish, DispatcherDies
<1>9. WorkerNext => One \/ UNCHANGED task \/ \E s \in Slots : CommitActivation(s)
  BY <1>5, <1>6 DEF WorkerNext, Deliver, Redeliver, Crash, Activate, Check, End, FinalizeFails
<1>10. ControlNext => UNCHANGED task \/ \E q \in Calls : CommitControl(q)
  BY DEF ControlNext, ReadControl
<1>11. RecoveryNext => One \/ UNCHANGED task
  BY <1>7 DEF RecoveryNext, RollsBackAfterRevoke
<1>12. One \/ UNCHANGED task \/ (\E u \in Users : Reserve(u))
       \/ (\E q \in Calls : CommitControl(q)) \/ (\E s \in Slots : CommitActivation(s))
  BY <1>8, <1>9, <1>10, <1>11 DEF Next, vars
<1> QED BY <1>12 DEF One

\* What becomes of the status and of the worker of a row.
LEMMA OrdinaryRows ==
  ASSUME NEW r \in Row, NEW r1, Ordinary(r, r1)
  PROVE  \/ r1.status = r.status /\ r1.worker = r.worker
         \/ r.status = "dispatching" /\ r1.status = "running" /\ r1.worker = r.worker
         \/ r.status = "absent" /\ r1.status = "queued" /\ r1.worker = r.worker
         \/ r.status \in Active /\ r1.status \in {"queued"} \cup Result /\ r1.worker = NoId
<1>1. \A s \in Status : Unbind(r, s).status = s /\ Unbind(r, s).worker = NoId
  BY DEF Row, Unbind
<1>2. {"queued", "failed"} \cup Result \subseteq Status
  BY DEF Status, Active, Terminal, Result
<1>3. CASE r1 = Refresh(r) \/ r1 = [r EXCEPT !.lease = "expired"]
  BY <1>3 DEF Row, Refresh
<1>4. CASE r.status = "dispatching" /\ r1 = [r EXCEPT !.status = "running"]
  BY <1>4 DEF Row
<1>5. CASE r.status = "dispatching" /\ r1 = Unbind(r, "queued")
  BY <1>1, <1>2, <1>5 DEF Active
<1>6. CASE r.status = "absent" /\ r1 = [r EXCEPT !.status = "queued"]
  BY <1>6 DEF Row
<1>7. CASE Reclaimable(r) /\ r1 = Reclaimed(r)
  <2>1. r.status \in Active
    BY <1>7 DEF Reclaimable, Active
  <2>2. [Unbind(r, "queued") EXCEPT !.recoveries = @ + 1].status = "queued"
        /\ [Unbind(r, "queued") EXCEPT !.recoveries = @ + 1].worker = NoId
    BY DEF Row, Unbind
  <2> QED BY <1>1, <1>2, <1>7, <2>1, <2>2 DEF Reclaimed, Result
<1>8. CASE \E result \in Result : r1 = Finalized(r, result)
  BY <1>1, <1>2, <1>8 DEF Finalized
<1> QED BY <1>3, <1>4, <1>5, <1>6, <1>7, <1>8 DEF Ordinary

\* What a dispatch makes of the rows: a row of the batch fails or gets a slot
\* and a worker.
LEMMA ReservedRows ==
  ASSUME TypeOK, NEW u \in Users, Reserve(u)
  PROVE  \E bad \in SUBSET Batch(u) : \A t \in Tasks :
           /\ t \in bad => task'[t].status = "failed" /\ task'[t].worker = NoId
           /\ t \in Batch(u) \ bad => task'[t].status = "dispatching" /\ task'[t].worker \in Ids
           /\ t \notin Batch(u) => task'[t] = task[t]
<1>0. PICK bad \in SUBSET Batch(u) : \E give \in Injection(Batch(u) \ bad, FreeIds) :
        task' = [t \in Tasks |->
          CASE t \in bad -> Unbind(task[t], "failed")
            [] t \in Batch(u) \ bad ->
                 [task[t] EXCEPT !.status = "dispatching",
                                 !.worker = give[t], !.lease = "fresh"]
            [] OTHER -> task[t]]
  BY DEF Reserve
<1>1. PICK give \in Injection(Batch(u) \ bad, FreeIds) :
        task' = [t \in Tasks |->
          CASE t \in bad -> Unbind(task[t], "failed")
            [] t \in Batch(u) \ bad ->
                 [task[t] EXCEPT !.status = "dispatching",
                                 !.worker = give[t], !.lease = "fresh"]
            [] OTHER -> task[t]]
  BY <1>0
<1>2. \A t \in Batch(u) \ bad : give[t] \in Ids
  BY <1>1 DEF Injection, FreeIds
<1>3. ASSUME NEW t \in Tasks
      PROVE  /\ t \in bad => task'[t].status = "failed" /\ task'[t].worker = NoId
             /\ t \in Batch(u) \ bad => task'[t].status = "dispatching" /\ task'[t].worker \in Ids
             /\ t \notin Batch(u) => task'[t] = task[t]
  <2>1. task[t] \in Row
    BY DEF TypeOK
  <2>2. Unbind(task[t], "failed").status = "failed" /\ Unbind(task[t], "failed").worker = NoId
    BY <2>1 DEF Row, Unbind
  <2>3. t \in Batch(u) \ bad => task'[t] = [task[t] EXCEPT !.status = "dispatching",
                                              !.worker = give[t], !.lease = "fresh"]
    BY <1>1
  <2> QED BY <1>1, <1>2, <2>1, <2>2, <2>3 DEF Row
<1> QED BY <1>3

\* The row that a request writes, and the one that the start of a process does.
LEMMA CommittedRows ==
  ASSUME TypeOK
  PROVE  /\ \A q \in Calls : CommitControl(q) =>
              /\ call[q] \in Request /\ call[q].task \in Tasks
              /\ task'[call[q].task].status = Target(call[q].op)
              /\ task'[call[q].task].worker = IF call[q].seen.worker # NoId THEN NoId
                                              ELSE task[call[q].task].worker
              /\ \A t \in Tasks \ {call[q].task} : task'[t] = task[t]
         /\ \A s \in Slots : CommitActivation(s) =>
              /\ slot[s].task \in Tasks /\ slot[s].id \in Ids
              /\ task'[slot[s].task].status = "running"
              /\ task'[slot[s].task].worker = task[slot[s].task].worker
              /\ \A t \in Tasks \ {slot[s].task} : task'[t] = task[t]
<1>1. ASSUME NEW q \in Calls, CommitControl(q)
      PROVE  /\ call[q] \in Request /\ call[q].task \in Tasks
             /\ task'[call[q].task].status = Target(call[q].op)
             /\ task'[call[q].task].worker = IF call[q].seen.worker # NoId THEN NoId
                                             ELSE task[call[q].task].worker
             /\ \A t \in Tasks \ {call[q].task} : task'[t] = task[t]
  <2>1. call[q] \in Request
    BY <1>1 DEF CommitControl, TypeOK
  <2>2. PICK t \in Tasks : t = call[q].task
    BY <2>1 DEF Request
  <2>3. PICK r \in Row : r = task[t]
    BY DEF TypeOK
  <2>4. PICK r1 : r1 = Updated(call[q].op, call[q].seen, r)
    OBVIOUS
  <2>5. r1.status = Target(call[q].op) /\ r1.worker = IF call[q].seen.worker # NoId THEN NoId ELSE r.worker
    BY <2>4 DEF Updated, Row
  <2>6. SetTask(t, r1)
    BY <1>1, <2>2, <2>3, <2>4 DEF CommitControl
  <2> QED BY <2>1, <2>2, <2>3, <2>5, <2>6 DEF SetTask, TypeOK
<1>2. ASSUME NEW s \in Slots, CommitActivation(s)
      PROVE  /\ slot[s].task \in Tasks /\ slot[s].id \in Ids
             /\ task'[slot[s].task].status = "running"
             /\ task'[slot[s].task].worker = task[slot[s].task].worker
             /\ \A t \in Tasks \ {slot[s].task} : task'[t] = task[t]
  <2>1. slot[s].task \in Tasks /\ slot[s].id \in Ids
    BY <1>2, Executions DEF CommitActivation
  <2>2. PICK t \in Tasks : t = slot[s].task
    BY <2>1
  <2>3. PICK r \in Row : r = task[t]
    BY DEF TypeOK
  <2>4. MarkRunning(r).status = "running" /\ MarkRunning(r).worker = r.worker
    <3>1. [r EXCEPT !.status = "running"] \in Row
      BY DEF Row, Status, Active
    <3> QED BY <3>1 DEF MarkRunning, Refresh, Row
  <2> QED BY <1>2, <2>1, <2>2, <2>3, <2>4 DEF CommitActivation, SetTask, TypeOK
<1> QED BY <1>1, <1>2

-----------------------------------------------------------------------------
(* Who owns a row.                                                         *)

\* A step keeps the binding of every row but that of a transaction that was overtaken.
LEMMA BindingStep ==
  ASSUME TypeOK, [Next]_vars, NEW t \in Tasks, Bound(task[t])
  PROVE  Bound(task'[t]) \/ Overtaken(t)
<1>0. task[t] \in Row
  BY DEF TypeOK
<1>1. CASE UNCHANGED task
  BY <1>1
<1>2. ASSUME NEW u \in Users, Reserve(u) PROVE Bound(task'[t])
  <2>1. PICK bad \in SUBSET Batch(u) :
          /\ t \in bad => task'[t].status = "failed" /\ task'[t].worker = NoId
          /\ t \in Batch(u) \ bad => task'[t].status = "dispatching" /\ task'[t].worker \in Ids
          /\ t \notin Batch(u) => task'[t] = task[t]
    BY <1>2, ReservedRows
  <2> QED BY <2>1, ConstantsAssumption DEF Bound, Active
<1>3. ASSUME NEW q \in Calls, CommitControl(q) PROVE Bound(task'[t]) \/ Overtaken(t)
  <2>1. CASE call[q].task # t
    BY <1>3, <2>1, CommittedRows
  <2>2. CASE call[q].task = t /\ call[q].seen = ViewOf(task[t])
    <3>1. call[q].seen.worker = task[t].worker
      BY <2>2 DEF ViewOf
    <3>2. call[q].op \in Op
      BY <1>3, CommittedRows DEF Request
    <3>3. Target(call[q].op) \notin Active
      BY <3>2 DEF Target, Active, Op
    <3> QED BY <1>3, <2>2, <3>1, <3>3, CommittedRows DEF Bound
  <2>3. CASE call[q].task = t /\ call[q].seen # ViewOf(task[t])
    BY <1>3, <2>3 DEF Overtaken
  <2> QED BY <2>1, <2>2, <2>3
<1>4. ASSUME NEW s \in Slots, CommitActivation(s) PROVE Bound(task'[t]) \/ Overtaken(t)
  <2>1. CASE slot[s].task # t
    BY <1>4, <2>1, CommittedRows
  <2>2. CASE slot[s].task = t /\ task[t].status = "dispatching" /\ task[t].worker = slot[s].id
    BY <1>4, <2>2, CommittedRows, ConstantsAssumption DEF Bound, Active
  <2>3. CASE slot[s].task = t /\ (task[t].status # "dispatching" \/ task[t].worker # slot[s].id)
    BY <1>4, <2>3 DEF Overtaken
  <2> QED BY <2>1, <2>2, <2>3
<1>5. ASSUME NEW x \in Tasks, NEW r1, SetTask(x, r1), Ordinary(task[x], r1) PROVE Bound(task'[t])
  <2>1. CASE x # t
    BY <1>5, <2>1 DEF SetTask, TypeOK
  <2>2. CASE x = t
    <3>1. task'[t] = r1
      BY <1>5, <2>2 DEF SetTask, TypeOK
    <3>2. ({"queued"} \cup Result) \cap Active = {} /\ "absent" \notin Active /\ {"dispatching", "running"} \subseteq Active
      BY DEF Result, Active
    <3> QED BY <1>0, <1>5, <2>2, <3>1, <3>2, OrdinaryRows DEF Bound, Result, Active
  <2> QED BY <2>1, <2>2
<1> QED BY <1>1, <1>2, <1>3, <1>4, <1>5, RowSteps

\* Whatever reservations fail, processes report late and ticks recover or repair,
\* a row is bound to a worker exactly while it occupies a slot: only a request or
\* a start that was overtaken between its read and its write breaks the binding,
\* and it breaks no other row's.
THEOREM RowsStayBound == Spec => BindingIsKept
<1> DEFINE Kept == \A t \in Tasks : Bound(task[t]) => Bound(task'[t]) \/ Overtaken(t)
<1>1. TypeOK /\ [Next]_vars => [Kept]_vars
  BY BindingStep
<1> QED BY <1>1, TypeCorrect, PTL DEF Spec, BindingIsKept

-----------------------------------------------------------------------------
(* Rows that wait for their owner, or for nobody.                          *)

\* A request has passed its guards on what it read.
RequestsAdmitted == \A q \in Calls : call[q] # NoRequest => Admits(call[q].op, call[q].seen)

LEMMA RequestsStep == TypeOK /\ RequestsAdmitted /\ [Next]_vars => RequestsAdmitted'
<1> SUFFICES ASSUME TypeOK, RequestsAdmitted, [Next]_vars PROVE RequestsAdmitted'
  OBVIOUS
<1>1. CASE UNCHANGED call
  BY <1>1 DEF RequestsAdmitted
<1>2. ASSUME NEW q \in Calls, NEW op \in Op, NEW t \in Tasks, ReadControl(q, op, t) PROVE RequestsAdmitted'
  <2>1. PICK c : c = [op |-> op, task |-> t, seen |-> ViewOf(task[t])]
    OBVIOUS
  <2>2. Admits(op, ViewOf(task[t]))
    BY <1>2 DEF ReadControl, Admits, ViewOf, Op
  <2>3. Admits(c.op, c.seen)
    BY <2>1, <2>2
  <2>4. \A x \in Calls : call'[x] = IF x = q THEN c ELSE call[x]
    BY <1>2, <2>1 DEF ReadControl, TypeOK
  <2> QED BY <2>3, <2>4 DEF RequestsAdmitted
<1>3. ASSUME NEW q \in Calls, CommitControl(q) PROVE RequestsAdmitted'
  <2>1. \A x \in Calls : call'[x] = IF x = q THEN NoRequest ELSE call[x]
    BY <1>3 DEF CommitControl, TypeOK
  <2> QED BY <2>1 DEF RequestsAdmitted
<1>4. DispatchNext \/ WorkerNext \/ RecoveryNext \/ UNCHANGED vars => UNCHANGED call
  BY DEF DispatchNext, WorkerNext, RecoveryNext, vars, Submit, Reserve, Publish, PublishFails,
         DispatcherDies, Deliver, Redeliver, Crash, Activate, CommitActivation, Heartbeat, Check,
         End, Finalize, FinalizeFails, LeaseExpires, Repair, Reclaim, RollsBackAfterRevoke
<1> QED BY <1>1, <1>2, <1>3, <1>4 DEF Next, ControlNext

\* A step that moves a row that is parked is a request for it, or was overtaken.
LEMMA ParkedStep ==
  ASSUME TypeOK, RequestsAdmitted, [Next]_vars, NEW t \in Tasks,
         task[t].status \in Terminal \cup {"paused"}, task'[t].status # task[t].status
  PROVE  \/ Overtaken(t)
         \/ /\ task[t].status \in Resumable
            /\ \E q \in Calls : CommitControl(q) /\ call[q].task = t
<1>0. task[t] \in Row /\ task[t].status \notin Active \cup {"queued", "absent"}
  BY DEF TypeOK, Terminal, Active
<1>1. CASE UNCHANGED task
  BY <1>1
<1>2. ASSUME NEW u \in Users, Reserve(u) PROVE FALSE
  <2>1. t \notin Batch(u)
    BY <1>0 DEF Batch, Queued
  <2> QED BY <1>2, <2>1, ReservedRows
<1>3. ASSUME NEW q \in Calls, CommitControl(q)
      PROVE  Overtaken(t) \/ (task[t].status \in Resumable /\ call[q].task = t)
  <2>1. call[q].task = t
    BY <1>3, CommittedRows
  <2>2. CASE call[q].seen # ViewOf(task[t])
    BY <1>3, <2>1, <2>2 DEF Overtaken
  <2>3. CASE call[q].seen = ViewOf(task[t])
    <3>1. call[q].seen.status = task[t].status
      BY <2>3 DEF ViewOf
    <3>2. Admits(call[q].op, call[q].seen) /\ call[q].op \in Op
      BY <1>3, CommittedRows DEF RequestsAdmitted, CommitControl, Request
    <3> QED BY <1>0, <2>1, <3>1, <3>2 DEF Admits, Op, Pausable, Resumable, Active, Terminal
  <2> QED BY <2>2, <2>3
<1>4. ASSUME NEW s \in Slots, CommitActivation(s) PROVE Overtaken(t)
  <2>1. slot[s].task = t
    BY <1>4, CommittedRows
  <2> QED BY <1>0, <1>4, <2>1 DEF Overtaken, Active
<1>5. ASSUME NEW x \in Tasks, NEW r1, SetTask(x, r1), Ordinary(task[x], r1) PROVE FALSE
  <2>1. x = t /\ task'[t] = r1
    BY <1>5 DEF SetTask, TypeOK
  <2> QED BY <1>0, <1>5, <2>1, OrdinaryRows DEF Active
<1> QED BY <1>1, <1>2, <1>3, <1>4, <1>5, RowSteps

\* Neither a process that still runs the task, nor a result or a heartbeat that
\* comes late, nor a tick puts a task that waits for its owner back to work, and
\* what is completed or cancelled stays so: unless a request or a start goes by
\* what it read before the task got there.
THEOREM ParkedRowsStay == Spec => ParkedStaysParked
<1> DEFINE Stay == \A t \in Tasks :
                     /\ task[t].status \in Terminal \cup {"paused"}
                     /\ task'[t].status # task[t].status
                     => \/ Overtaken(t)
                        \/ /\ task[t].status \in Resumable
                           /\ \E q \in Calls : CommitControl(q) /\ call[q].task = t
<1>1. TypeOK /\ RequestsAdmitted /\ [Next]_vars => [Stay]_vars
  BY ParkedStep
<1>2. Init => RequestsAdmitted
  BY DEF Init, RequestsAdmitted
<1> QED BY <1>1, <1>2, RequestsStep, TypeCorrect, PTL DEF Spec, ParkedStaysParked

-----------------------------------------------------------------------------
(* The scheduler implements JobQueue.  What a dispatch takes.              *)

LEMMA QueueFinite ==
  ASSUME NEW u \in Users
  PROVE  /\ Queued(u) \subseteq Tasks /\ IsFiniteSet(Queued(u))
         /\ RunningSlots(u) \subseteq Tasks /\ IsFiniteSet(RunningSlots(u))
         /\ Batch(u) \subseteq Queued(u) /\ IsFiniteSet(Batch(u))
         /\ Cardinality(RunningSlots(u)) \in Nat
         /\ Cardinality(Batch(u)) \in Nat
<1>1. Queued(u) \subseteq Tasks /\ RunningSlots(u) \subseteq Tasks
  BY DEF Queued, RunningSlots
<1>2. Batch(u) \subseteq Queued(u)
  BY DEF Batch
<1>3. IsFiniteSet(Queued(u)) /\ IsFiniteSet(RunningSlots(u))
  BY <1>1, FS_Subset, ConstantsAssumption
<1>4. IsFiniteSet(Batch(u))
  BY <1>2, <1>3, FS_Subset
<1> QED BY <1>1, <1>2, <1>3, <1>4, FS_CardinalityType

\* A user who has any room has no more than the limit leaves.
LEMMA RoomBounded ==
  ASSUME NEW u \in Users
  PROVE  /\ Room(u) \in Nat
         /\ Room(u) # 0 => Cardinality(RunningSlots(u)) + Room(u) <= Limit[u]
  BY QueueFinite, ConstantsAssumption DEF Room

\* A batch never exceeds the room: no two queued tasks have the same number
\* of tasks before them, since no two have the same rank.
LEMMA BatchBounded ==
  ASSUME NEW u \in Users
  PROVE  Cardinality(Batch(u)) <= Room(u)
<1> DEFINE Before(t) == {x \in Queued(u) : Rank[x] < Rank[t]}
           place == [t \in Batch(u) |-> Cardinality(Before(t))]
<1>1. \A t \in Queued(u) : /\ IsFiniteSet(Before(t))
                            /\ Cardinality(Before(t)) \in Nat
  BY QueueFinite, FS_Subset, FS_CardinalityType
<1>2. ASSUME NEW t \in Batch(u), NEW y \in Batch(u), Rank[t] < Rank[y]
      PROVE  place[t] < place[y]
  <2>1. /\ t \in Queued(u) /\ y \in Queued(u)
        /\ Rank[t] \in Nat /\ Rank[y] \in Nat
        /\ \A x \in Queued(u) : Rank[x] \in Nat
    BY QueueFinite, ConstantsAssumption
  <2>2. Before(t) \subseteq Before(y) /\ t \in Before(y) /\ t \notin Before(t)
    BY <1>2, <2>1
  <2>3. /\ Cardinality(Before(t)) <= Cardinality(Before(y))
        /\ Cardinality(Before(t)) # Cardinality(Before(y))
    BY <1>1, <2>1, <2>2, FS_Subset
  <2> HIDE DEF Before
  <2> QED BY <1>1, <2>1, <2>3
<1>3. \A t, y \in Batch(u) : t # y => place[t] # place[y]
  <2> SUFFICES ASSUME NEW t \in Batch(u), NEW y \in Batch(u), t # y
               PROVE  place[t] # place[y]
    OBVIOUS
  <2>1. t \in Tasks /\ y \in Tasks
    BY QueueFinite
  <2>2. Rank[t] \in Nat /\ Rank[y] \in Nat /\ Rank[t] # Rank[y]
    BY <2>1, ConstantsAssumption DEF IsInjective
  <2>3. /\ place[t] \in Nat /\ place[y] \in Nat
    BY <1>1, QueueFinite
  <2> HIDE DEF place
  <2> QED BY <1>2, <2>2, <2>3
<1>4. place \in [Batch(u) -> 0..(Room(u) - 1)]
  <2> SUFFICES ASSUME NEW t \in Batch(u)
               PROVE  Cardinality(Before(t)) \in 0..(Room(u) - 1)
    OBVIOUS
  <2>1. Cardinality(Before(t)) < Room(u)
    BY DEF Batch
  <2>2. Cardinality(Before(t)) \in Nat
    BY <1>1, QueueFinite
  <2> HIDE DEF Before
  <2> QED BY <2>1, <2>2, RoomBounded
<1>5. /\ IsFiniteSet(0..(Room(u) - 1))
      /\ Cardinality(0..(Room(u) - 1)) = Room(u)
  BY RoomBounded, FS_Interval
<1> HIDE DEF place
<1>6. ~(Room(u) < Cardinality(Batch(u)))
  BY <1>3, <1>4, <1>5, QueueFinite, FS_PigeonHole
<1> QED BY <1>6, RoomBounded, QueueFinite


Phases == [t \in Tasks |-> PhaseOf(task[t])]
Starting == {slot[s].task : s \in {x \in Slots : slot[x].pc = "activate"}}
AskedBy == [q \in Calls |-> Asked(call[q])]

\* The phase of a row goes by its status.
LEMMA PhasesOfRows ==
  ASSUME NEW r, r.status \in Status
  PROVE  /\ PhaseOf(r) \in JQ!Phase
         /\ PhaseOf(r) = "waiting" <=> r.status = "queued"
         /\ PhaseOf(r) = "held" <=> r.status \in Active
         /\ PhaseOf(r) = "suspended" <=> r.status = "paused"
         /\ r.status \in Terminal \cup {"absent"} => PhaseOf(r) = r.status
  BY DEF PhaseOf, Status, Active, Terminal, JQ!Phase

\* A dispatch takes the first tasks in line, as many as there are slots.
LEMMA ReserveTakes ==
  ASSUME TypeOK, NEW u \in Users, Reserve(u)
  PROVE  JQ!Take(u)
<1>1. JQ!Waiting(u) = Queued(u) /\ JQ!Held(u) = RunningSlots(u)
  <2>1. \A t \in Tasks : /\ PhaseOf(task[t]) = "waiting" <=> task[t].status = "queued"
                         /\ PhaseOf(task[t]) = "held" <=> task[t].status \in Active
    BY PhasesOfRows DEF TypeOK, Row
  <2> QED BY <2>1 DEF JQ!Waiting, JQ!Held, Queued, RunningSlots
<1>2. PICK bad \in SUBSET Batch(u) : \A t \in Tasks :
        /\ t \in bad => task'[t].status = "failed"
        /\ t \in Batch(u) \ bad => task'[t].status = "dispatching"
        /\ t \notin Batch(u) => task'[t] = task[t]
  BY ReservedRows
<1>3. Batch(u) # {}
  BY DEF Reserve
<1>4. Batch(u) \subseteq Queued(u) /\ Queued(u) \subseteq Tasks
  BY QueueFinite
<1>5. ASSUME NEW t \in Batch(u), NEW x \in Queued(u) \ Batch(u)
      PROVE  Rank[t] < Rank[x]
  <2> DEFINE Before(y) == {z \in Queued(u) : Rank[z] < Rank[y]}
  <2>1. /\ t \in Tasks /\ x \in Tasks /\ t # x /\ x \in Queued(u) /\ t \in Queued(u)
        /\ \A y \in Queued(u) : Rank[y] \in Nat
    BY <1>4, <1>5, ConstantsAssumption
  <2>2. /\ Cardinality(Before(t)) < Room(u) /\ ~(Cardinality(Before(x)) < Room(u))
    BY <1>5 DEF Batch
  <2>3. ASSUME ~(Rank[t] < Rank[x]) PROVE Before(x) \subseteq Before(t)
    BY <2>1, <2>3
  <2>4. IsFiniteSet(Before(t)) /\ IsFiniteSet(Before(x))
    BY QueueFinite, FS_Subset
  <2>5. /\ Cardinality(Before(t)) \in Nat /\ Cardinality(Before(x)) \in Nat
        /\ Before(x) \subseteq Before(t) => Cardinality(Before(x)) <= Cardinality(Before(t))
    BY <2>4, FS_Subset, FS_CardinalityType
  <2> HIDE DEF Before
  <2> QED BY <2>2, <2>3, <2>5, RoomBounded
<1>6. Cardinality(RunningSlots(u)) + Cardinality(Batch(u)) <= Limit[u]
  <2>1. Room(u) # 0
    <3>1. Cardinality(Batch(u)) # 0
      BY <1>3, QueueFinite, FS_EmptySet
    <3> QED BY <3>1, BatchBounded, QueueFinite
  <2>2. /\ Cardinality(RunningSlots(u)) + Room(u) <= Limit[u]
        /\ Cardinality(Batch(u)) <= Room(u) /\ Room(u) \in Nat
    BY <2>1, RoomBounded, BatchBounded
  <2>3. Cardinality(RunningSlots(u)) \in Nat /\ Cardinality(Batch(u)) \in Nat /\ Limit[u] \in Nat
    BY QueueFinite, ConstantsAssumption
  <2> QED BY <2>2, <2>3
<1>7. PICK batch \in SUBSET JQ!Waiting(u) : batch = Batch(u)
  BY <1>1, <1>4
<1>8. PICK taken \in SUBSET batch : taken = Batch(u) \ bad
  BY <1>7
<1>9. /\ \A t \in batch, x \in JQ!Waiting(u) \ batch : Rank[t] < Rank[x]
      /\ JQ!Cardinality(JQ!Held(u)) + JQ!Cardinality(batch) <= Limit[u]
  <2>1. \A S : JQ!Cardinality(S) = Cardinality(S)
    BY DEF JQ!Cardinality, Cardinality
  <2> QED BY <1>1, <1>5, <1>6, <1>7, <2>1
<1>10. ASSUME NEW t \in Tasks
       PROVE  PhaseOf(task'[t]) = IF t \in taken THEN "held" ELSE IF t \in batch THEN "failed"
                                  ELSE [x \in Tasks |-> PhaseOf(task[x])][t]
  BY <1>2, <1>7, <1>8, PhasesOfRows DEF Status, Active, Terminal
<1>11. [t \in Tasks |-> PhaseOf(task'[t])]
       = [t \in Tasks |-> IF t \in taken THEN "held" ELSE IF t \in batch THEN "failed"
                          ELSE [x \in Tasks |-> PhaseOf(task[x])][t]]
  BY <1>10
<1>12. UNCHANGED <<slot, call>>
  BY DEF Reserve
<1> QED BY <1>9, <1>11, <1>12 DEF JQ!Take

-----------------------------------------------------------------------------
(* Which processes have been let in.                                       *)

\* No process gets between the read and the write of its activation.
NoneLetIn == \A x \in Slots : slot'[x].pc = "activate" =>
               slot[x].pc = "activate" /\ slot'[x].task = slot[x].task

LEMMA NoneLetInShrinks ==
  ASSUME NoneLetIn
  PROVE  Starting' \subseteq Starting
  BY DEF NoneLetIn, Starting

\* Only the read of an activation lets a process in.
LEMMA OthersLetNobodyIn ==
  ASSUME TypeOK, [Next]_vars, \A s \in Slots : ~Activate(s)
  PROVE  NoneLetIn
<1>1. ASSUME NEW s \in Slots, NEW e, slot' = [slot EXCEPT ![s] = e], e.pc # "activate"
      PROVE  NoneLetIn
  BY <1>1 DEF NoneLetIn, TypeOK
<1>2. UNCHANGED slot => NoneLetIn
  BY DEF NoneLetIn
<1>3. \A i : Revoke(i) => NoneLetIn
  BY DEF Revoke, NoneLetIn, Idle
<1>4. ASSUME NEW s \in Slots, Free(s) PROVE NoneLetIn
  <2>1. Idle.pc # "activate"
    BY DEF Idle
  <2> QED BY <1>1, <1>4, <2>1 DEF Free
<1>5. ASSUME NEW s \in Slots, NEW result, slot[s].pc # "idle", EndsWith(s, result)
      PROVE  NoneLetIn
  <2>1. slot' = [slot EXCEPT ![s] = [slot[s] EXCEPT !.pc = "finalize", !.result = result]]
    BY <1>5 DEF EndsWith, TypeOK
  <2>2. [slot[s] EXCEPT !.pc = "finalize", !.result = result].pc = "finalize"
    BY <1>5, Executions DEF Execution
  <2> QED BY <1>1, <2>1, <2>2
<1>6. DispatchNext => NoneLetIn
  BY <1>2 DEF DispatchNext, Submit, Reserve, Publish, PublishFails, DispatcherDies
<1>7. ASSUME WorkerNext PROVE NoneLetIn
  <2> SUFFICES ASSUME NEW s \in Slots,
                      \/ \E m \in msgs : Deliver(s, m)
                      \/ Redeliver(s) \/ Crash(s) \/ CommitActivation(s) \/ Heartbeat(s)
                      \/ Check(s) \/ End(s) \/ Finalize(s) \/ FinalizeFails(s)
               PROVE  NoneLetIn
    BY <1>7 DEF WorkerNext
  <2>1. ASSUME NEW m \in msgs, Deliver(s, m) PROVE NoneLetIn
    <3>1. PICK e : e = [pc |-> "start", task |-> m.task, id |-> m.id,
                        result |-> "none", copied |-> FALSE]
      OBVIOUS
    <3>2. slot' = [slot EXCEPT ![s] = e] /\ e.pc = "start"
      BY <2>1, <3>1 DEF Deliver
    <3> QED BY <1>1, <3>2
  <2>2. CASE Redeliver(s)
    <3>1. slot[s] \in Execution
      BY <2>2 DEF Redeliver, TypeOK
    <3>2. PICK e : e = [slot[s] EXCEPT !.copied = TRUE]
      OBVIOUS
    <3>3. e.pc = slot[s].pc /\ e.task = slot[s].task /\ slot' = [slot EXCEPT ![s] = e]
      BY <2>2, <3>1, <3>2 DEF Redeliver, Execution, TypeOK
    <3> QED BY <3>3 DEF NoneLetIn, TypeOK
  <2>3. CASE CommitActivation(s)
    <3>1. slot[s] \in Execution
      BY <2>3, Executions DEF CommitActivation
    <3>2. PICK e : e = [slot[s] EXCEPT !.pc = "work"]
      OBVIOUS
    <3>3. e.pc = "work" /\ slot' = [slot EXCEPT ![s] = e]
      BY <2>3, <3>1, <3>2 DEF CommitActivation, Execution, TypeOK
    <3> QED BY <1>1, <3>3
  <2>4. CASE Check(s) \/ End(s)
    BY <1>4, <1>5, <2>4 DEF Check, End, LeaveSuperseded
  <2>5. CASE Crash(s) \/ Heartbeat(s) \/ Finalize(s) \/ FinalizeFails(s)
    BY <1>2, <1>4, <2>5 DEF Crash, Heartbeat, Finalize, FinalizeFails
  <2> QED BY <2>1, <2>2, <2>3, <2>4, <2>5
<1>8. ControlNext => NoneLetIn
  BY <1>2, <1>3 DEF ControlNext, ReadControl, CommitControl, RevokedBy
<1>9. RecoveryNext => NoneLetIn
  BY <1>2, <1>3 DEF RecoveryNext, LeaseExpires, Repair, Reclaim, RollsBackAfterRevoke
<1> QED BY <1>2, <1>6, <1>7, <1>8, <1>9 DEF Next, vars

-----------------------------------------------------------------------------
(* The steps of the queue.                                                 *)

QueueNext == JQ!Next \/ UNCHANGED <<Phases, AskedBy, Starting>>

\* One task changes its phase.
LEMMA PhaseMoves ==
  ASSUME TypeOK, NEW t \in Tasks, NEW to, NEW from, Phases[t] \in from,
         PhaseOf(task'[t]) \in to, \A x \in Tasks \ {t} : task'[x] = task[x]
  PROVE  JQ!Move(t, from, to)
<1>1. Phases' = [Phases EXCEPT ![t] = PhaseOf(task'[t])]
  BY DEF Phases
<1> QED BY <1>1 DEF Phases, JQ!Move

\* Nothing is seen of a step that moves no phase and lets nobody in: at most,
\* processes have given up.
LEMMA UnseenSteps ==
  ASSUME UNCHANGED call, NoneLetIn, \A t \in Tasks : PhaseOf(task'[t]) = PhaseOf(task[t])
  PROVE  JQ!Next
<1>1. Phases' = Phases /\ AskedBy' = AskedBy
  BY DEF Phases, AskedBy
<1>2. Starting' \in SUBSET Starting
  BY NoneLetInShrinks
<1>3. JQ!GiveUp
  BY <1>1, <1>2 DEF Phases, AskedBy, Starting, JQ!GiveUp, JQ!SomeGiveUp
<1> QED BY <1>3 DEF JQ!Next

\* The row that a step writes at once.
LEMMA OrdinarySteps ==
  ASSUME TypeOK, UNCHANGED call, NoneLetIn,
         NEW t \in Tasks, NEW r1, SetTask(t, r1), Ordinary(task[t], r1)
  PROVE  JQ!Next
<1>1. task[t] \in Row /\ task'[t] = r1 /\ \A x \in Tasks \ {t} : task'[x] = task[x]
  BY DEF TypeOK, SetTask
<1>2. JQ!SomeGiveUp /\ UNCHANGED AskedBy
  BY NoneLetInShrinks DEF AskedBy, Starting, JQ!SomeGiveUp
<1>3. task[t].status \in Status /\ Phases[t] = PhaseOf(task[t])
  BY <1>1 DEF Row, Phases
<1>4. CASE r1.status = task[t].status
  BY <1>1, <1>4, UnseenSteps DEF PhaseOf
<1>5. CASE task[t].status = "dispatching" /\ r1.status = "running"
  BY <1>1, <1>5, UnseenSteps DEF PhaseOf, Active
<1>6. CASE task[t].status = "absent" /\ r1.status = "queued"
  <2>1. Phases[t] = "absent" /\ PhaseOf(task'[t]) = "waiting"
    BY <1>1, <1>3, <1>6, PhasesOfRows DEF Status, Active, Terminal
  <2>2. JQ!Move(t, {"absent"}, {"waiting"})
    BY <1>1, <2>1, PhaseMoves
  <2>3. JQ!Submit(t)
    BY <1>2, <2>2 DEF JQ!Submit, AskedBy
  <2> QED BY <2>3 DEF JQ!Next
<1>7. CASE task[t].status \in Active /\ r1.status \in {"queued", "failed"}
  <2>1. Phases[t] = "held" /\ PhaseOf(task'[t]) \in {"waiting", "failed"}
    BY <1>1, <1>3, <1>7, PhasesOfRows DEF Status, Active, Terminal
  <2>2. JQ!Move(t, {"held"}, {"waiting", "failed"})
    BY <1>1, <2>1, PhaseMoves
  <2>3. JQ!GiveBack(t)
    BY <1>2, <2>2 DEF JQ!GiveBack, AskedBy
  <2> QED BY <2>3 DEF JQ!Next
<1>8. CASE task[t].status \in Active /\ r1.status \in Result
  <2>1. Phases[t] = "held" /\ PhaseOf(task'[t]) \in {"completed", "failed", "suspended", "cancelled"}
    BY <1>1, <1>3, <1>8, PhasesOfRows DEF Status, Active, Terminal, Result
  <2>2. JQ!Move(t, {"held"}, {"completed", "failed", "suspended", "cancelled"})
    BY <1>1, <2>1, PhaseMoves
  <2>3. JQ!Finish(t)
    BY <1>2, <2>2 DEF JQ!Finish, AskedBy
  <2> QED BY <2>3 DEF JQ!Next
<1> QED BY <1>1, <1>4, <1>5, <1>6, <1>7, <1>8, OrdinaryRows DEF Result

\* A process gets between the read and the write of its activation, on a task
\* that is held; or it gets nowhere near the row.
LEMMA Activations ==
  ASSUME TypeOK, NEW s \in Slots, Activate(s)
  PROVE  JQ!Next
<1>1. slot[s] \in Execution /\ slot[s].task \in Tasks /\ slot[s].pc = "start"
  BY Executions DEF Activate
<1>2. UNCHANGED <<task, call>>
  BY DEF Activate
<1>3. CASE task[slot[s].task].status = "dispatching" /\ slot' = [slot EXCEPT ![s].pc = "activate"]
  <2>1. PICK e : e = [slot[s] EXCEPT !.pc = "activate"]
    OBVIOUS
  <2>2. e.pc = "activate" /\ e.task = slot[s].task
    BY <1>1, <2>1 DEF Execution
  <2>3. \A x \in Slots : slot'[x] = IF x = s THEN e ELSE slot[x]
    BY <1>3, <2>1 DEF TypeOK
  <2>4. Starting' = Starting \cup {slot[s].task}
    BY <1>1, <2>2, <2>3 DEF Starting
  <2>5. PICK t \in Tasks : t = slot[s].task
    BY <1>1
  <2>6. Phases[t] = "held"
    BY <1>3, <2>5 DEF Phases, PhaseOf, Active
  <2>7. JQ!LetIn(t)
    BY <1>2, <2>4, <2>5, <2>6 DEF JQ!LetIn, Phases, Starting
  <2> QED BY <2>7 DEF JQ!Next
<1>4. CASE \/ \E result \in Result : EndsWith(s, result)
           \/ LeaveSuperseded(s) \/ slot' = [slot EXCEPT ![s].pc = "work"]
  <2>1. slot'[s].pc # "activate" /\ \A x \in Slots \ {s} : slot'[x] = slot[x]
    BY <1>1, <1>4 DEF EndsWith, LeaveSuperseded, Free, Idle, TypeOK, Execution
  <2>2. NoneLetIn
    BY <2>1 DEF NoneLetIn
  <2> QED BY <1>2, <2>2, UnseenSteps
<1> QED BY <1>3, <1>4 DEF Activate, Result

\* A process begins what it was let in to, whatever became of the task.
LEMMA Beginnings ==
  ASSUME TypeOK, [Next]_vars, NEW s \in Slots, CommitActivation(s)
  PROVE  JQ!Next
<1>1. PICK t \in Tasks : t = slot[s].task
  BY CommittedRows
<1>2. t \in Starting
  BY <1>1 DEF Starting, CommitActivation
<1>3. /\ task[t].status \in Status /\ task'[t].status = "running"
      /\ \A x \in Tasks \ {t} : task'[x] = task[x]
  BY <1>1, CommittedRows DEF TypeOK, Row
<1>4. Phases[t] \in JQ!Phase /\ PhaseOf(task'[t]) \in {"held"}
  BY <1>3, PhasesOfRows DEF Phases, PhaseOf, Active
<1>5. JQ!Move(t, JQ!Phase, {"held"})
  BY <1>3, <1>4, PhaseMoves
<1>6. NoneLetIn
  <2>1. slot'[s].pc # "activate" /\ \A x \in Slots \ {s} : slot'[x] = slot[x]
    BY Executions DEF CommitActivation, TypeOK, Execution
  <2> QED BY <2>1 DEF NoneLetIn
<1>7. JQ!SomeGiveUp /\ UNCHANGED call
  BY <1>6, NoneLetInShrinks DEF Starting, JQ!SomeGiveUp, CommitActivation
<1>8. JQ!Begin(t)
  BY <1>2, <1>5, <1>7 DEF JQ!Begin, Starting
<1> QED BY <1>8 DEF JQ!Next

\* A request is let in by the phase of its task.
LEMMA RequestsAsked ==
  ASSUME TypeOK, NEW q \in Calls, NEW op \in Op, NEW t \in Tasks, ReadControl(q, op, t)
  PROVE  JQ!Next
<1>1. PICK o : o = IF op = "retry" THEN "resume" ELSE op
  OBVIOUS
<1>2. o \in JQ!Op
  BY <1>1 DEF Op, JQ!Op
<1>3. PICK c : c = [op |-> op, task |-> t, seen |-> ViewOf(task[t])]
  OBVIOUS
<1>4. Asked(c) = [op |-> o, task |-> t]
  BY <1>1, <1>3 DEF Asked, NoRequest, Op
<1>5. call[q] = NoRequest /\ call' = [call EXCEPT ![q] = c]
  BY <1>3 DEF ReadControl
<1>6. AskedBy[q] = NoRequest /\ AskedBy' = [AskedBy EXCEPT ![q] = [op |-> o, task |-> t]]
  BY <1>4, <1>5 DEF AskedBy, Asked, TypeOK
<1>7. Phases[t] \in JQ!From(o)
  <2>1. task[t].status \in Status
    BY DEF TypeOK, Row
  <2>2. Admits(op, task[t])
    BY DEF ReadControl
  <2> QED BY <1>1, <2>1, <2>2 DEF Op, Phases, PhaseOf, Admits, JQ!From, Status, Active, Terminal,
                                 Pausable, Resumable
<1>8. UNCHANGED <<task, slot>>
  BY DEF ReadControl
<1>9. JQ!Ask(q, o, t)
  BY <1>6, <1>7, <1>8 DEF JQ!Ask, AskedBy, Phases
<1> QED BY <1>2, <1>9 DEF JQ!Next

\* A request is answered, whatever became of its task.
LEMMA RequestsAnswered ==
  ASSUME TypeOK, [Next]_vars, NEW q \in Calls, CommitControl(q)
  PROVE  JQ!Next
<1>1. call[q] \in Request /\ call[q].op \in Op
  BY CommittedRows DEF Request
<1>2. PICK t \in Tasks : t = call[q].task
  BY <1>1 DEF Request
<1>3. PICK o : o = IF call[q].op = "retry" THEN "resume" ELSE call[q].op
  OBVIOUS
<1>4. AskedBy[q] = [op |-> o, task |-> t] /\ AskedBy[q] # NoRequest
  BY <1>1, <1>2, <1>3 DEF AskedBy, Asked, NoRequest, Op
<1>5. /\ task[t].status \in Status /\ task'[t].status = Target(call[q].op)
      /\ \A x \in Tasks \ {t} : task'[x] = task[x]
  BY <1>2, CommittedRows DEF TypeOK, Row
<1>6. Phases[t] \in JQ!Phase /\ PhaseOf(task'[t]) \in {JQ!To(o)}
  BY <1>1, <1>3, <1>5, PhasesOfRows DEF Phases, PhaseOf, Target, JQ!To, Op, Active, Terminal
<1>7. JQ!Move(t, JQ!Phase, {JQ!To(o)})
  BY <1>5, <1>6, PhaseMoves
<1>8. call' = [call EXCEPT ![q] = NoRequest]
  BY DEF CommitControl
<1>9. AskedBy' = [AskedBy EXCEPT ![q] = NoRequest]
  BY <1>8 DEF AskedBy, Asked, TypeOK
<1>10. NoneLetIn
  BY DEF CommitControl, RevokedBy, Revoke, NoneLetIn, Idle
<1>11. JQ!SomeGiveUp
  BY <1>10, NoneLetInShrinks DEF Starting, JQ!SomeGiveUp
<1>12. JQ!Answer(q)
  BY <1>4, <1>7, <1>9, <1>11 DEF JQ!Answer, AskedBy
<1> QED BY <1>12 DEF JQ!Next

\* Every step of the scheduler is one of the queue, or is not seen there.
LEMMA StepRefines ==
  ASSUME TypeOK, [Next]_vars
  PROVE  QueueNext
<1>1. CASE UNCHANGED vars
  BY <1>1 DEF QueueNext, vars, Phases, AskedBy, Starting
<1>2. ASSUME NEW u \in Users, Reserve(u) PROVE JQ!Next
  BY <1>2, ReserveTakes DEF JQ!Next
<1>3. ASSUME ControlNext PROVE JQ!Next
  BY <1>3, RequestsAsked, RequestsAnswered DEF ControlNext
<1>4. ASSUME \A s \in Slots : ~Activate(s) /\ ~CommitActivation(s), DispatchNext \/ WorkerNext \/ RecoveryNext,
             \A u \in Users : ~Reserve(u)
      PROVE  JQ!Next
  <2>1. UNCHANGED call
    BY <1>4 DEF DispatchNext, WorkerNext, RecoveryNext, Submit, Publish, PublishFails,
                DispatcherDies, Deliver, Redeliver, Crash, Heartbeat, Check,
                End, Finalize, FinalizeFails, LeaseExpires, Repair, Reclaim, RollsBackAfterRevoke
  <2>2. NoneLetIn
    BY <1>4, OthersLetNobodyIn
  <2>3. CASE UNCHANGED task
    BY <2>1, <2>2, <2>3, UnseenSteps
  <2>4. ASSUME NEW t \in Tasks, NEW r1, SetTask(t, r1), Ordinary(task[t], r1) PROVE JQ!Next
    BY <2>1, <2>2, <2>4, OrdinarySteps
  <2>5. ASSUME NEW q \in Calls, CommitControl(q) PROVE JQ!Next
    BY <2>5, RequestsAnswered
  <2> QED BY <1>4, <2>3, <2>4, <2>5, RowSteps
<1>5. ASSUME Next PROVE JQ!Next
  BY <1>2, <1>3, <1>4, <1>5, Activations, Beginnings DEF Next
<1> QED BY <1>1, <1>5 DEF QueueNext

\* However crashes, deliveries, heartbeats, recoveries, requests and starts
\* interleave, the scheduler is a job queue: it takes the tasks in line and no
\* more than the limit leaves, and only a request and a process that were let in
\* by the phase of the task act on it out of turn.
THEOREM ImplementsJobQueue == Spec => IsJobQueue
<1>1. Init => JQ!Init
  BY DEF Init, JQ!Init, JQ!NoneSubmitted, PhaseOf, Active, Asked, Idle
<1>2. TypeOK /\ [Next]_vars => [JQ!Next]_<<Phases, AskedBy, Starting>>
  BY StepRefines DEF QueueNext
<1> QED BY <1>1, <1>2, TypeCorrect, PTL DEF Spec, IsJobQueue, JQ!Spec, JQ!vars, Phases, AskedBy, Starting

-----------------------------------------------------------------------------
(* The lock on the quota row, for a user who has an account.               *)

\* From the lock to the commit a dispatcher has the quota row; what it counted
\* or picked still fits, since only the holder of the row fills slots.
Fits(d) ==
  /\ dispatcher[d].at \in {"locked", "counted", "picked"} => lockedBy = d
  /\ dispatcher[d].at = "counted" =>
       dispatcher[d].room = 0 \/ Cardinality(Holds) + dispatcher[d].room <= dispatcher[d].limit
  /\ dispatcher[d].batch # {} =>
       /\ dispatcher[d].at = "picked"
       /\ Cardinality(Holds) + Cardinality(dispatcher[d].batch) <= dispatcher[d].limit

\* Who waits for the quota row, or has it, knows that there is one.
RowIsThere ==
  /\ lockedBy # NoOne => quota.row # "absent"
  /\ \A d \in Dispatchers : dispatcher[d].at = "wait" => quota.row = "committed"

LockInv == LockTypeOK /\ RowIsThere /\ \A d \in Dispatchers : Fits(d)

\* The sets of tasks the queue is made of are finite, and a smaller one counts less.
LEMMA CountsOfTasks ==
  /\ \A S \in SUBSET Line : IsFiniteSet(S) /\ Cardinality(S) \in Nat /\ (Cardinality(S) = 0 <=> S = {})
  /\ \A S \in SUBSET Line, T \in SUBSET Line : S \subseteq T => Cardinality(S) <= Cardinality(T)
<1>1. \A S \in SUBSET Line : IsFiniteSet(S)
  BY LockAssumption, FS_Subset
<1> QED BY <1>1, FS_CardinalityType, FS_EmptySet, FS_Subset

\* A step of somebody who fills no slot and leaves the dispatchers as they are.
LEMMA OthersFit ==
  ASSUME LockInv, NEW t \in Line, NEW from \in SUBSET RowStatus, NEW to \in SUBSET (RowStatus \ {"held"}),
         Others(t, from, to)
  PROVE  LockInv'
<1>1. PICK s \in to : row' = [row EXCEPT ![t] = s]
  BY DEF Others
<1>2. LockTypeOK'
  BY <1>1 DEF LockInv, LockTypeOK, Others
<1>3. Holds' \subseteq Holds
  BY <1>1 DEF LockInv, LockTypeOK, Holds
<1>4. Cardinality(Holds') <= Cardinality(Holds) /\ Cardinality(Holds') \in Nat /\ Cardinality(Holds) \in Nat
  BY <1>3, CountsOfTasks DEF Holds
<1>5. ASSUME NEW d \in Dispatchers PROVE Fits(d)'
  <2>1. dispatcher[d].limit \in Nat /\ dispatcher[d].room \in Nat /\ Cardinality(dispatcher[d].batch) \in Nat
    BY CountsOfTasks, LockAssumption DEF LockInv, LockTypeOK, Transaction, AnyLimit
  <2> QED BY <1>4, <2>1 DEF LockInv, Fits, Others
<1>6. RowIsThere'
  BY DEF LockInv, RowIsThere, Others
<1> QED BY <1>2, <1>5, <1>6 DEF LockInv

\* What a dispatcher has read and picked stays of its type.
LEMMA Transactions ==
  ASSUME NEW x \in Transaction, NEW at \in {"idle", "insert", "wait", "locked", "counted", "picked"}
  PROVE  /\ [x EXCEPT !.at = at] \in Transaction
         /\ \A l \in AnyLimit : [x EXCEPT !.at = at, !.limit = l] \in Transaction
         /\ \A r \in Nat : [x EXCEPT !.at = at, !.room = r] \in Transaction
         /\ \A b \in SUBSET Line : [x EXCEPT !.at = at, !.batch = b] \in Transaction
         /\ IdleDispatcher \in Transaction
  BY DEF Transaction, IdleDispatcher, AnyLimit

\* The types, step by step.
LEMMA LockTypes ==
  ASSUME LockTypeOK, [LockNext]_lockVars
  PROVE  LockTypeOK'
<1> USE LockAssumption DEF LockTypeOK
<1>q. quota.limit \in AnyLimit /\ DefaultLimit \in AnyLimit
  BY DEF AnyLimit
<1>1. ASSUME NEW d \in Dispatchers, AskForQuota(d) \/ InsertLost(d) PROVE LockTypeOK'
  <2>1. PICK l \in AnyLimit, at \in {"insert", "wait", "locked"} :
          \/ dispatcher' = [dispatcher EXCEPT ![d] = [@ EXCEPT !.at = at, !.limit = l]]
          \/ dispatcher' = [dispatcher EXCEPT ![d] = [@ EXCEPT !.at = at]]
    BY <1>1, <1>q DEF AskForQuota, InsertLost, Becomes, BecomesWith
  <2>2. PICK x \in Transaction : dispatcher' = [dispatcher EXCEPT ![d] = x]
    BY <2>1, Transactions
  <2>3. dispatcher' \in [Dispatchers -> Transaction]
    BY <2>2
  <2> QED BY <1>1, <2>3 DEF AskForQuota, InsertLost
<1>2. ASSUME NEW d \in Dispatchers, InsertQuota(d) PROVE LockTypeOK'
  <2>1. dispatcher' \in [Dispatchers -> Transaction]
    BY <1>2, <1>q, Transactions DEF InsertQuota, BecomesWith
  <2> QED BY <1>2, <1>q, <2>1 DEF InsertQuota
<1>4. ASSUME NEW d \in Dispatchers, LockQuota(d) PROVE LockTypeOK'
  <2>1. dispatcher' \in [Dispatchers -> Transaction]
    BY <1>4, Transactions DEF LockQuota, Becomes
  <2> QED BY <1>4, <2>1 DEF LockQuota
<1>5. ASSUME NEW d \in Dispatchers, CountSlots(d) PROVE LockTypeOK'
  <2>1. Cardinality(Holds) \in Nat /\ dispatcher[d].limit \in Nat
    BY CountsOfTasks DEF Holds, Transaction, AnyLimit
  <2> DEFINE used == Cardinality(Holds)
             free == IF used < dispatcher[d].limit THEN dispatcher[d].limit - used ELSE 0
             r == Smaller(free, DispatchBatch)
  <2>r. r \in Nat
    BY <2>1 DEF Smaller
  <2>2. dispatcher' = [dispatcher EXCEPT ![d].at = "counted", ![d].room = r]
    BY <1>5 DEF CountSlots
  <2> HIDE DEF r
  <2>3. dispatcher' \in [Dispatchers -> Transaction]
    BY <2>2, <2>r, Transactions
  <2> QED BY <1>5, <2>3 DEF CountSlots
<1>6. ASSUME NEW d \in Dispatchers, PickBatch(d) PROVE LockTypeOK'
  <2>1. PICK b \in SUBSET Line : dispatcher' = [dispatcher EXCEPT ![d].at = "picked", ![d].batch = b]
    BY <1>6 DEF PickBatch, Waits
  <2>2. dispatcher' \in [Dispatchers -> Transaction]
    BY <2>1, Transactions
  <2> QED BY <1>6, <2>2 DEF PickBatch
<1>7. ASSUME NEW d \in Dispatchers, CommitBatch(d) PROVE LockTypeOK'
  <2>1. row' \in [Line -> RowStatus]
    BY <1>7 DEF CommitBatch, RowStatus
  <2>2. dispatcher' \in [Dispatchers -> Transaction] /\ lockedBy' \in Dispatchers \cup {NoOne}
    BY <1>7, Transactions DEF CommitBatch, Release
  <2> QED BY <1>7, <1>q, <2>1, <2>2 DEF CommitBatch
<1>8. ASSUME NEW d \in Dispatchers, Rollback(d) PROVE LockTypeOK'
  <2>1. dispatcher' \in [Dispatchers -> Transaction] /\ lockedBy' \in Dispatchers \cup {NoOne}
    BY <1>8, Transactions DEF Rollback, Release
  <2> QED BY <1>8, <1>q, <2>1 DEF Rollback
<1>9. ASSUME NEW t \in Line, SubmitTask(t) \/ ResumeTask(t) \/ StopTask(t) \/ LeaveSlot(t)
      PROVE  LockTypeOK'
  BY <1>9 DEF SubmitTask, ResumeTask, StopTask, LeaveSlot, Others, RowStatus
<1>10. ASSUME NEW l \in Limits, SetLimit(l) PROVE LockTypeOK'
  BY <1>10 DEF SetLimit, AnyLimit
<1>11. CASE UNCHANGED lockVars
  BY <1>11 DEF lockVars
<1> QED BY <1>1, <1>2, <1>4, <1>5, <1>6, <1>7, <1>8, <1>9, <1>10, <1>11 DEF LockNext

\* Every step keeps the row there for those who need it.
LEMMA RowStays ==
  ASSUME HasAccount, LockTypeOK, RowIsThere, [LockNext]_lockVars
  PROVE  RowIsThere'
<1> USE LockAssumption DEF LockTypeOK, Transaction, RowIsThere, Is
<1>1. ASSUME NEW d \in Dispatchers, AskForQuota(d) PROVE RowIsThere'
  BY <1>1 DEF AskForQuota, Becomes, BecomesWith
<1>2. ASSUME NEW d \in Dispatchers, InsertQuota(d) PROVE RowIsThere'
  BY <1>2 DEF InsertQuota, BecomesWith
<1>3. ASSUME NEW d \in Dispatchers, InsertLost(d) PROVE RowIsThere'
  BY <1>3 DEF InsertLost, BecomesWith
<1>4. ASSUME NEW d \in Dispatchers, LockQuota(d) PROVE RowIsThere'
  BY <1>4 DEF LockQuota, Becomes
<1>5. ASSUME NEW d \in Dispatchers, CountSlots(d) PROVE RowIsThere'
  <2>1. PICK r : dispatcher' = [dispatcher EXCEPT ![d].at = "counted", ![d].room = r]
    BY <1>5 DEF CountSlots
  <2> QED BY <1>5, <2>1 DEF CountSlots
<1>6. ASSUME NEW d \in Dispatchers, PickBatch(d) PROVE RowIsThere'
  BY <1>6 DEF PickBatch
<1>7. ASSUME NEW d \in Dispatchers, CommitBatch(d) PROVE RowIsThere'
  BY <1>7 DEF CommitBatch, Release, IdleDispatcher
<1>8. ASSUME NEW d \in Dispatchers, Rollback(d) PROVE RowIsThere'
  BY <1>8 DEF Rollback, Release, IdleDispatcher
<1>9. ASSUME NEW t \in Line, SubmitTask(t) \/ ResumeTask(t) \/ StopTask(t) \/ LeaveSlot(t)
      PROVE  RowIsThere'
  BY <1>9 DEF SubmitTask, ResumeTask, StopTask, LeaveSlot, Others
<1>10. ASSUME NEW l \in Limits, SetLimit(l) PROVE RowIsThere'
  BY <1>10 DEF SetLimit
<1>11. CASE UNCHANGED lockVars
  BY <1>11 DEF lockVars
<1> QED BY <1>1, <1>2, <1>3, <1>4, <1>5, <1>6, <1>7, <1>8, <1>9, <1>10, <1>11 DEF LockNext

\* Every step keeps what has been counted and picked fitting.
LEMMA LockStep ==
  ASSUME HasAccount, LockInv, [LockNext]_lockVars
  PROVE  \A d \in Dispatchers : Fits(d)'
<1> USE DEF LockInv, LockTypeOK, Transaction, Is
<1>n. \A e \in Dispatchers : /\ dispatcher[e].limit \in Nat /\ dispatcher[e].room \in Nat
                             /\ Cardinality(dispatcher[e].batch) \in Nat
  BY CountsOfTasks, LockAssumption DEF AnyLimit
<1>h. Cardinality(Holds) \in Nat
  BY CountsOfTasks DEF Holds
<1>1. ASSUME NEW d \in Dispatchers,
             AskForQuota(d) \/ InsertLost(d) \/ LockQuota(d) \/ InsertQuota(d),
             NEW e \in Dispatchers
      PROVE  Fits(e)'
  <2>1. UNCHANGED row /\ (e # d => dispatcher'[e] = dispatcher[e])
    BY <1>1 DEF AskForQuota, InsertQuota, InsertLost, LockQuota, Becomes, BecomesWith
  <2>2. UNCHANGED Holds
    BY <2>1 DEF Holds
  <2>3. lockedBy # e \/ lockedBy' = e
    BY <1>1, LockAssumption DEF AskForQuota, InsertQuota, InsertLost, LockQuota, RowIsThere
  <2>4. /\ dispatcher'[d].batch = dispatcher[d].batch
        /\ dispatcher'[d].at \in {"insert", "wait", "locked"}
        /\ dispatcher'[d].at = "locked" => lockedBy' = d
        /\ dispatcher[d].at \in {"idle", "insert", "wait"}
    BY <1>1 DEF AskForQuota, InsertQuota, InsertLost, LockQuota, Becomes, BecomesWith
  <2> QED BY <2>1, <2>2, <2>3, <2>4 DEF Fits
<1>2. ASSUME NEW d \in Dispatchers, CountSlots(d), NEW e \in Dispatchers PROVE Fits(e)'
  <2> DEFINE used == Cardinality(Holds)
             free == IF used < dispatcher[d].limit THEN dispatcher[d].limit - used ELSE 0
             room == Smaller(free, DispatchBatch)
  <2>1. /\ dispatcher' = [dispatcher EXCEPT ![d].at = "counted", ![d].room = room]
        /\ UNCHANGED <<row, lockedBy>> /\ dispatcher[d].at = "locked"
    BY <1>2 DEF CountSlots
  <2>2. room = 0 \/ used + room <= dispatcher[d].limit
    BY <1>n, <1>h, LockAssumption DEF Smaller
  <2> HIDE DEF room
  <2>3. UNCHANGED Holds
    BY <2>1 DEF Holds
  <2>4. CASE e = d
    BY <2>1, <2>2, <2>3, <2>4 DEF Fits
  <2>5. CASE e # d
    BY <2>1, <2>3, <2>5 DEF Fits
  <2> QED BY <2>4, <2>5
<1>3. ASSUME NEW d \in Dispatchers, PickBatch(d), NEW e \in Dispatchers PROVE Fits(e)'
  <2>1. PICK batch \in SUBSET Waits :
          /\ FirstInLine(batch, dispatcher[d].room)
          /\ dispatcher' = [dispatcher EXCEPT ![d].at = "picked", ![d].batch = batch]
    BY <1>3 DEF PickBatch
  <2>2. UNCHANGED <<row, lockedBy>> /\ dispatcher[d].at = "counted"
    BY <1>3 DEF PickBatch
  <2>3. UNCHANGED Holds
    BY <2>2 DEF Holds
  <2>4. /\ Cardinality(batch) \in Nat /\ Cardinality(Waits) \in Nat
        /\ Cardinality(batch) = 0 => batch = {}
    BY CountsOfTasks DEF Waits
  <2>5. Cardinality(batch) <= dispatcher[d].room
    BY <1>n, <2>1, <2>4 DEF FirstInLine, Smaller
  <2>6. batch = {} \/ Cardinality(Holds) + Cardinality(batch) <= dispatcher[d].limit
    BY <1>n, <1>h, <2>2, <2>4, <2>5 DEF Fits
  <2>7. CASE e = d
    BY <2>1, <2>2, <2>3, <2>6, <2>7 DEF Fits
  <2>8. CASE e # d
    BY <2>1, <2>2, <2>3, <2>8 DEF Fits
  <2> QED BY <2>7, <2>8
<1>4. ASSUME NEW d \in Dispatchers, CommitBatch(d) \/ Rollback(d), NEW e \in Dispatchers PROVE Fits(e)'
  <2>1. /\ lockedBy' = IF lockedBy = d THEN NoOne ELSE lockedBy
        /\ dispatcher' = [dispatcher EXCEPT ![d] = IdleDispatcher]
    BY <1>4 DEF CommitBatch, Rollback, Release
  <2>2. CASE e = d
    BY <2>1, <2>2 DEF Fits, IdleDispatcher
  <2>3. CASE e # d /\ dispatcher[e].at \in {"locked", "counted", "picked"}
    <3>1. lockedBy = e /\ lockedBy' = e /\ dispatcher'[e] = dispatcher[e]
      BY <2>1, <2>3 DEF Fits
    <3>2. Rollback(d)
      BY <1>4, <2>3, <3>1 DEF CommitBatch, Fits
    <3>3. UNCHANGED Holds
      BY <3>2 DEF Rollback, Holds
    <3> QED BY <3>1, <3>3 DEF Fits
  <2>4. CASE e # d /\ dispatcher[e].at \notin {"locked", "counted", "picked"}
    <3>1. dispatcher'[e] = dispatcher[e] /\ dispatcher[e].batch = {}
      BY <2>1, <2>4 DEF Fits
    <3> QED BY <2>4, <3>1 DEF Fits
  <2> QED BY <2>2, <2>3, <2>4
<1>5. ASSUME NEW t \in Line, SubmitTask(t) \/ ResumeTask(t) \/ StopTask(t) \/ LeaveSlot(t)
      PROVE  \A d \in Dispatchers : Fits(d)'
  <2>1. PICK from \in SUBSET RowStatus, to \in SUBSET (RowStatus \ {"held"}) : Others(t, from, to)
    BY <1>5 DEF SubmitTask, ResumeTask, StopTask, LeaveSlot, RowStatus
  <2> QED BY <2>1, OthersFit DEF LockInv
<1>6. ASSUME NEW l \in Limits, SetLimit(l), NEW d \in Dispatchers PROVE Fits(d)'
  BY <1>6 DEF SetLimit, Fits, Holds
<1>7. ASSUME UNCHANGED lockVars, NEW d \in Dispatchers PROVE Fits(d)'
  BY <1>7 DEF lockVars, Fits, Holds
<1> QED BY <1>1, <1>2, <1>3, <1>4, <1>5, <1>6, <1>7 DEF LockNext

\* Whatever transactions dispatch for a user at once, and whichever of them is lost,
\* a batch fits the limit its dispatcher read (lock_user_quota_row), provided that
\* the user has an account: without a users row the code locks nothing.
THEOREM BatchesFit ==
  ASSUME HasAccount
  PROVE  LockSpec => []BatchFits
<1>1. LockInit => LockInv
  BY LockAssumption DEF LockInit, LockInv, LockTypeOK, Transaction, RowIsThere, Fits, IdleDispatcher, AnyLimit, RowStatus
<1>2. LockInv /\ [LockNext]_lockVars => LockInv'
  BY LockTypes, RowStays, LockStep DEF LockInv
<1>3. LockInv => BatchFits
  BY DEF LockInv, Fits, BatchFits
<1> QED BY <1>1, <1>2, <1>3, PTL DEF LockSpec
=============================================================================

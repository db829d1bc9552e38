-------------------------- MODULE CreationScheduler --------------------------
(***************************************************************************)
(* The life of a CreationTask row: the scheduler that dispatches it, the   *)
(* Celery processes that execute it, the API calls that pause, resume and  *)
(* cancel it, and the recovery tick that takes it back from a lost worker. *)
(*                                                                         *)
(* One action is one database transaction (or one broker event).  A        *)
(* transaction that reads a row without locking it and writes it later is  *)
(* two actions, with the values it read kept in between: the ORM keeps the *)
(* attributes it loaded first, decides on them, and its UPDATE carries     *)
(* only the columns that differ from them.  Control requests and the       *)
(* activation of a process are of this kind.                               *)
(***************************************************************************)
EXTENDS Naturals, FiniteSets, Functions

CONSTANTS
  Tasks,          \* creation_tasks rows
  Users,          \* owners of tasks
  UserOf,         \* [Tasks -> Users]
  Rank,           \* [Tasks -> Nat], the order (priority, queue_seq, id)
  Limit,          \* [Users -> Nat \ {0}], get_user_concurrency_limit
  BatchMax,       \* CREATION_MAX_DISPATCH_BATCH
  MaxRetries,     \* max_retries of a row
  MaxRecoveries,  \* MAX_RECOVERY_COUNT
  Kind,           \* [Tasks -> Kinds], task_type
  OverBudget,     \* tasks check_budget stops while the budget flag is on
  Slots,          \* Celery worker processes
  Ids,            \* worker_task_id values (uuid4 of a dispatch)
  NoId,           \* worker_task_id IS NULL
  Calls           \* control requests in flight at once

Kinds == {"generation", "rewrite", "storyboard", "storyboard_lane"}

ASSUME ConstantsAssumption ==
  /\ UserOf \in [Tasks -> Users]
  /\ Rank \in [Tasks -> Nat] /\ IsInjective(Rank)
  /\ Limit \in [Users -> Nat \ {0}]
  /\ BatchMax \in Nat \ {0}
  /\ MaxRetries \in Nat
  /\ MaxRecoveries \in Nat
  /\ Kind \in [Tasks -> Kinds]
  /\ OverBudget \subseteq {t \in Tasks : Kind[t] = "generation"}
  /\ NoId \notin Ids
  /\ IsFiniteSet(Tasks)

VARIABLES
  task,    \* the rows
  outbox,  \* reservations a dispatcher has committed and not yet published
  msgs,    \* messages visible in the broker
  slot,    \* what each worker process is doing
  call     \* control requests between their read and their commit

vars == <<task, outbox, msgs, slot, call>>

-----------------------------------------------------------------------------
Terminal == {"completed", "failed", "cancelled"}
Active == {"dispatching", "running"}           \* RUNNING_SLOT_STATUSES
Pausable == {"queued", "dispatching", "running"}
Resumable == {"paused", "failed"}
Status == {"absent", "queued", "paused"} \cup Active \cup Terminal

Lease == {"none", "fresh", "expired"}          \* worker_lease_expires_at

Row == [status: Status, worker: Ids \cup {NoId}, lease: Lease,
        beat: BOOLEAN,                         \* last_heartbeat_at IS NOT NULL
        retries: 0..MaxRetries, recoveries: 0..MaxRecoveries]

Message == [task: Tasks, id: Ids]

Op == {"pause", "resume", "retry", "cancel"}

\* The attributes a session has loaded, as far as its decisions and its
\* UPDATE depend on them.
View == [status: Status, worker: Ids \cup {NoId}, leased: BOOLEAN,
         retries: 0..MaxRetries]
ViewOf(r) == [status |-> r.status, worker |-> r.worker,
              leased |-> r.lease # "none", retries |-> r.retries]

Request == [op: Op, task: Tasks, seen: View]
NoRequest == [op |-> "none"]

Result == {"completed", "failed", "paused", "cancelled"}

\* A process holding a message: "start" before activation, "activate" between
\* the read and the write of the activation, "work" in the pipeline,
\* "finalize" with its result decided.  copied: the visibility timeout has
\* already put the message back.
Execution ==
  {e \in [pc: {"start", "activate", "work", "finalize"}, task: Tasks,
          id: Ids, result: Result \cup {"none"}, copied: BOOLEAN] :
     e.pc = "finalize" <=> e.result # "none"}
Idle == [pc |-> "idle", id |-> NoId]

TypeOK ==
  /\ task \in [Tasks -> Row]
  /\ outbox \subseteq Message
  /\ msgs \subseteq Message
  /\ slot \in [Slots -> Execution \cup {Idle}]
  /\ call \in [Calls -> Request \cup {NoRequest}]

Init ==
  /\ task = [t \in Tasks |-> [status |-> "absent", worker |-> NoId,
                              lease |-> "none", beat |-> FALSE,
                              retries |-> 0, recoveries |-> 0]]
  /\ outbox = {}
  /\ msgs = {}
  /\ slot = [s \in Slots |-> Idle]
  /\ call = [q \in Calls |-> NoRequest]

-----------------------------------------------------------------------------
(* Row updates shared by several transactions.                             *)

\* Mutant of Unbind: the row keeps its worker_task_id.
UnbindKeepingWorker(r, s) == [r EXCEPT !.status = s, !.lease = "none"]

\* Leave the worker: status s, worker_task_id and lease set to NULL.
Unbind(r, s) == [r EXCEPT !.status = s, !.worker = NoId, !.lease = "none"]

\* acquire_or_refresh_lease: heartbeat now, lease TTL ahead.
Refresh(r) == [r EXCEPT !.beat = TRUE, !.lease = "fresh"]

\* A row has a worker exactly while it occupies a slot.
Bound(r) == r.worker # NoId <=> r.status \in Active

SetTask(t, r) == task' = [task EXCEPT ![t] = r]

Free(s) == slot' = [slot EXCEPT ![s] = Idle]

MessageOf(s) == [task |-> slot[s].task, id |-> slot[s].id]

\* celery control.revoke(id, terminate=True), best effort: the processes that
\* run id and its messages go, or nothing happens.
Revoke(i) ==
  \/ UNCHANGED <<slot, msgs>>
  \/ /\ slot' = [s \in Slots |-> IF slot[s].id = i THEN Idle ELSE slot[s]]
     /\ msgs' = {m \in msgs : m.id # i}

-----------------------------------------------------------------------------
(* Dispatch.                                                               *)

Queued(u) == {t \in Tasks : UserOf[t] = u /\ task[t].status = "queued"}
RunningSlots(u) == {t \in Tasks : UserOf[t] = u /\ task[t].status \in Active}

\* Mutant of Room: rows still dispatching are not counted.
RoomCountingRunning(u) ==
  LET held == {t \in RunningSlots(u) : task[t].status = "running"}
  IN  IF Cardinality(held) < Limit[u] THEN Limit[u] - Cardinality(held) ELSE 0

\* min(limit - running slots, batch), 0 when the user is at the limit
Room(u) ==
  LET left == IF Cardinality(RunningSlots(u)) < Limit[u]
              THEN Limit[u] - Cardinality(RunningSlots(u)) ELSE 0
  IN  IF left < BatchMax THEN left ELSE BatchMax

\* Mutant of Batch: descending order.
BatchLastFirst(u) ==
  {t \in Queued(u) :
     Cardinality({x \in Queued(u) : Rank[x] > Rank[t]}) < Room(u)}

\* The first Room(u) queued tasks in rank order.
Batch(u) ==
  {t \in Queued(u) :
     Cardinality({x \in Queued(u) : Rank[x] < Rank[t]}) < Room(u)}

\* A new uuid is one nothing refers to any more.
FreeIds ==
  {i \in Ids : /\ \A t \in Tasks : task[t].worker # i
               /\ \A m \in outbox \cup msgs : m.id # i
               /\ \A s \in Slots : slot[s].id # i
               /\ \A q \in Calls : call[q] # NoRequest => call[q].seen.worker # i}

Submit(t) ==
  /\ task[t].status = "absent"
  /\ SetTask(t, [task[t] EXCEPT !.status = "queued"])
  /\ UNCHANGED <<outbox, msgs, slot, call>>

\* _reserve_dispatch_batch.  A row whose payload does not validate fails on
\* the spot.  A row over budget is sent from queued to failed, which
\* transition_task_status rejects: the transaction rolls back, so a batch
\* with such a row reserves nothing.
Reserve(u) ==
  /\ Batch(u) # {}
  /\ Batch(u) \cap OverBudget = {}
  /\ \E bad \in SUBSET Batch(u) :
       \E give \in Injection(Batch(u) \ bad, FreeIds) :
         /\ task' = [t \in Tasks |->
              CASE t \in bad -> Unbind(task[t], "failed")
                [] t \in Batch(u) \ bad ->
                     [task[t] EXCEPT !.status = "dispatching",
                                     !.worker = give[t], !.lease = "fresh"]
                [] OTHER -> task[t]]
         /\ outbox' = outbox \cup
              {[task |-> t, id |-> give[t]] : t \in Batch(u) \ bad}
  /\ UNCHANGED <<msgs, slot, call>>

Publish(m) ==
  /\ m \in outbox
  /\ outbox' = outbox \ {m}
  /\ msgs' = msgs \cup {m}
  /\ UNCHANGED <<task, slot, call>>

\* apply_async raised, though the broker may have taken the message:
\* _requeue_failed_dispatch, if the row is still this reservation's.
PublishFails(m) ==
  /\ m \in outbox
  /\ outbox' = outbox \ {m}
  /\ msgs' \in {msgs, msgs \cup {m}}
  /\ LET r == task[m.task] IN
       SetTask(m.task, IF r.status = "dispatching" /\ r.worker = m.id
                       THEN Unbind(r, "queued") ELSE r)
  /\ UNCHANGED <<slot, call>>

\* The dispatcher dies between its commit and the publish.
DispatcherDies(m) ==
  /\ m \in outbox
  /\ outbox' = outbox \ {m}
  /\ UNCHANGED <<task, msgs, slot, call>>

-----------------------------------------------------------------------------
(* Execution.                                                              *)

Deliver(s, m) ==
  /\ slot[s] = Idle
  /\ m \in msgs
  /\ msgs' = msgs \ {m}
  /\ slot' = [slot EXCEPT ![s] = [pc |-> "start", task |-> m.task,
                                  id |-> m.id, result |-> "none",
                                  copied |-> FALSE]]
  /\ UNCHANGED <<task, outbox, call>>

\* visibility_timeout: the broker hands out an unacknowledged message again.
Redeliver(s) ==
  /\ slot[s] # Idle
  /\ ~slot[s].copied
  /\ slot' = [slot EXCEPT ![s].copied = TRUE]
  /\ msgs' = msgs \cup {MessageOf(s)}
  /\ UNCHANGED <<task, outbox, call>>

\* The process is lost; acks_late and reject_on_worker_lost requeue the message.
Crash(s) ==
  /\ slot[s] # Idle
  /\ Free(s)
  /\ msgs' = IF slot[s].copied THEN msgs ELSE msgs \cup {MessageOf(s)}
  /\ UNCHANGED <<task, outbox, call>>

Superseded(s) == task[slot[s].task].worker \notin {NoId, slot[s].id}

EndsWith(s, result) ==
  slot' = [slot EXCEPT ![s].pc = "finalize", ![s].result = result]

\* "worker superseded": most executors return without a word; a storyboard
\* lane treats it as any other error and goes on to finalize as failed.
LeaveSuperseded(s) ==
  IF Kind[slot[s].task] = "storyboard_lane" THEN EndsWith(s, "failed") ELSE Free(s)

\* Mutant of MarkRunning: the lease is left to the first heartbeat.
MarkRunningUnleased(r) == [r EXCEPT !.status = "running", !.beat = TRUE]

\* mark_task_running on the row of slot s, without its guards.
MarkRunning(r) == Refresh([r EXCEPT !.status = "running"])

\* _activate_creation_task up to the guards of mark_task_running, which see
\* the attributes read here.
Activate(s) ==
  /\ slot[s].pc = "start"
  /\ LET r == task[slot[s].task]
     IN  \/ /\ Superseded(s)
            /\ LeaveSuperseded(s)
         \/ /\ ~Superseded(s)
            /\ \/ r.status \notin Active
               \/ r.worker = NoId                        \* worker_not_owner
            /\ EndsWith(s, IF r.status \in {"paused", "cancelled"}
                           THEN r.status ELSE "failed")
         \/ /\ r.worker = slot[s].id
            /\ r.status = "running"
            /\ slot' = [slot EXCEPT ![s].pc = "work"]
         \/ /\ r.worker = slot[s].id
            /\ r.status = "dispatching"
            /\ slot' = [slot EXCEPT ![s].pc = "activate"]
  /\ UNCHANGED <<task, outbox, msgs, call>>

\* The write of mark_task_running, decided on what Activate read.
CommitActivation(s) ==
  /\ slot[s].pc = "activate"
  /\ SetTask(slot[s].task, MarkRunning(task[slot[s].task]))
  /\ slot' = [slot EXCEPT ![s].pc = "work"]
  /\ UNCHANGED <<outbox, msgs, call>>

\* When a process heartbeats, from the background thread or from a progress
\* callback: every executor but the generation one starts the thread before
\* it activates and stops it after it has finalized.
Beats(s) ==
  \/ slot[s].pc = "work"
  \/ /\ slot[s].pc \in {"start", "activate", "finalize"}
     /\ Kind[slot[s].task] # "generation"

\* heartbeat_task: it asks neither for the status nor for the owner.
Heartbeat(s) ==
  /\ Beats(s)
  /\ SetTask(slot[s].task, Refresh(task[slot[s].task]))
  /\ UNCHANGED <<outbox, msgs, slot, call>>

\* Mutant of Check: only the owner is checked.
CheckOwnerOnly(s) ==
  /\ slot[s].pc = "work"
  /\ Superseded(s)
  /\ LeaveSuperseded(s)
  /\ UNCHANGED <<task, outbox, msgs, call>>

\* The checks of a progress callback that stop the execution, one session
\* for the owner and one for the status.  A check that passes changes nothing.
Check(s) ==
  /\ slot[s].pc = "work"
  /\ \/ /\ Superseded(s)
        /\ LeaveSuperseded(s)
     \/ /\ task[slot[s].task].status \in {"paused", "cancelled"}
        /\ EndsWith(s, task[slot[s].task].status)
  /\ UNCHANGED <<task, outbox, msgs, call>>

\* The pipeline returns or raises.  Before the row is running it can only
\* raise: the activation's transaction fails, a storyboard project is gone.
End(s) ==
  /\ \/ /\ slot[s].pc = "work"
        /\ \E result \in {"completed", "failed"} : EndsWith(s, result)
     \/ /\ slot[s].pc \in {"start", "activate"}
        /\ EndsWith(s, "failed")
  /\ UNCHANGED <<task, outbox, msgs, call>>

\* Mutant of Finalized: the last result wins.
FinalizedAlways(r, result) == Unbind(r, result)

\* finalize_task: nothing in it names the worker that reports.
Finalized(r, result) ==
  IF r.status \in Active THEN Unbind(r, result) ELSE r

Finalize(s) ==
  /\ slot[s].pc = "finalize"
  /\ SetTask(slot[s].task, Finalized(task[slot[s].task], slot[s].result))
  /\ Free(s)
  /\ UNCHANGED <<outbox, msgs, call>>

\* The transaction of finalize_task fails: the executor logs it and returns,
\* and only the lease can free the row.
FinalizeFails(s) ==
  /\ slot[s].pc = "finalize"
  /\ Free(s)
  /\ UNCHANGED <<task, outbox, msgs, call>>

-----------------------------------------------------------------------------
(* Control requests.                                                       *)

\* The guards of the routes and of pause_task, resume_task and cancel_task;
\* retry is resume_task behind the retry route's max_retries check.
Admits(op, r) ==
  CASE op = "pause"  -> r.status \in Pausable
    [] op = "resume" -> r.status \in Resumable
    [] op = "retry"  -> r.status \in Resumable /\ r.retries < MaxRetries
    [] op = "cancel" -> r.status \notin Terminal \cup {"absent"}

Target(op) ==
  CASE op = "pause" -> "paused" [] op = "cancel" -> "cancelled" [] OTHER -> "queued"

\* The UPDATE of a request that read seen, applied to the row r: the new
\* status, and only those other columns that the request changed.
Updated(op, seen, r) ==
  [r EXCEPT
    !.status  = Target(op),
    !.worker  = IF seen.worker # NoId THEN NoId ELSE @,
    !.lease   = IF seen.leased THEN "none" ELSE @,
    !.retries = IF Target(op) = "queued" /\ seen.status = "failed"
                   /\ seen.retries < MaxRetries
                THEN seen.retries + 1 ELSE @]

\* cancel_task revokes the worker it saw.
RevokedBy(op, seen) == IF op = "cancel" THEN Revoke(seen.worker)
                                        ELSE UNCHANGED <<slot, msgs>>

ReadControl(q, op, t) ==
  /\ call[q] = NoRequest
  /\ Admits(op, task[t])
  /\ call' = [call EXCEPT ![q] = [op |-> op, task |-> t, seen |-> ViewOf(task[t])]]
  /\ UNCHANGED <<task, outbox, msgs, slot>>

CommitControl(q) ==
  /\ call[q] # NoRequest
  /\ LET c == call[q] IN
       /\ SetTask(c.task, Updated(c.op, c.seen, task[c.task]))
       /\ RevokedBy(c.op, c.seen)
  /\ call' = [call EXCEPT ![q] = NoRequest]
  /\ UNCHANGED outbox

-----------------------------------------------------------------------------
(* Recovery tick.                                                          *)

\* The lease passes without a refresh.
LeaseExpires(t) ==
  /\ task[t].lease = "fresh"
  /\ SetTask(t, [task[t] EXCEPT !.lease = "expired"])
  /\ UNCHANGED <<outbox, msgs, slot, call>>

\* repair_active_dispatching_tasks, one row of it (the rows are independent
\* and a locked row is skipped).
Repair(t) ==
  /\ task[t].status = "dispatching"
  /\ task[t].worker # NoId
  /\ task[t].beat
  /\ task[t].lease = "fresh"
  /\ SetTask(t, [task[t] EXCEPT !.status = "running"])
  /\ UNCHANGED <<outbox, msgs, slot, call>>

\* Mutants of Reclaimable: an expired lease is enough; dispatching rows only.
ReclaimableAnyStatus(r) == r.lease = "expired"
ReclaimableDispatching(r) == r.status = "dispatching" /\ r.lease # "fresh"

Reclaimable(r) ==
  \/ r.status \in Active /\ r.lease = "expired"
  \/ r.status = "dispatching" /\ r.lease = "none"

\* Mutant of Reclaimed: one recovery too many.
ReclaimedOnceMore(r) ==
  IF r.recoveries > MaxRecoveries
  THEN Unbind(r, "failed")
  ELSE [Unbind(r, "queued") EXCEPT !.recoveries = @ + 1]

Reclaimed(r) ==
  IF r.recoveries >= MaxRecoveries
  THEN Unbind(r, "failed")
  ELSE [Unbind(r, "queued") EXCEPT !.recoveries = @ + 1]

\* reclaim_stale_running_tasks, one row of it.
Reclaim(t) ==
  /\ Reclaimable(task[t])
  /\ SetTask(t, Reclaimed(task[t]))
  /\ Revoke(task[t].worker)
  /\ UNCHANGED <<outbox, call>>

\* A reclaim or a cancellation whose transaction fails after the revoke: the
\* revoke is sent before the commit and cannot be taken back.
RollsBackAfterRevoke(t) ==
  /\ Reclaimable(task[t]) \/ Admits("cancel", task[t])
  /\ Revoke(task[t].worker)
  /\ UNCHANGED <<task, outbox, call>>

-----------------------------------------------------------------------------
DispatchNext ==
  \/ \E t \in Tasks : Submit(t)
  \/ \E u \in Users : Reserve(u)
  \/ \E m \in outbox : Publish(m) \/ PublishFails(m) \/ DispatcherDies(m)

WorkerNext ==
  \E s \in Slots :
    \/ \E m \in msgs : Deliver(s, m)
    \/ Redeliver(s) \/ Crash(s)
    \/ Activate(s) \/ CommitActivation(s)
    \/ Heartbeat(s) \/ Check(s) \/ End(s)
    \/ Finalize(s) \/ FinalizeFails(s)

ControlNext ==
  \E q \in Calls :
    \/ \E op \in Op, t \in Tasks : ReadControl(q, op, t)
    \/ CommitControl(q)

RecoveryNext ==
  \E t \in Tasks :
    LeaseExpires(t) \/ Repair(t) \/ Reclaim(t) \/ RollsBackAfterRevoke(t)

Next == DispatchNext \/ WorkerNext \/ ControlNext \/ RecoveryNext

Spec == Init /\ [][Next]_vars

-----------------------------------------------------------------------------
(* Fairness.  The ticks run again and again, the broker hands out what it   *)
(* holds, and a lease nobody refreshes runs out.  Strong fairness excludes  *)
(* only an executor or a broker that fails at every single attempt: a       *)
(* process that gets to the same point over and over completes its step     *)
(* once, a message that is tried over and over is published once, and none  *)
(* is overtaken for ever.                                                   *)

Stopped(t) == task[t].status \in {"paused", "cancelled"}
Beating(t) == \E s \in Slots : Beats(s) /\ slot[s].task = t

\* The pipeline itself comes to an end only where nobody wants it to stop:
\* stopping is the business of Check.
EndsByItself(s) == End(s) /\ ~Stopped(slot[s].task)

Fairness ==
  /\ \A u \in Users : WF_vars(Reserve(u))
  /\ \A m \in Message : /\ WF_vars(Publish(m) \/ PublishFails(m) \/ DispatcherDies(m))
                        /\ SF_vars(Publish(m))
                        /\ SF_vars(\E s \in Slots : Deliver(s, m))
  /\ \A s \in Slots : /\ SF_vars(Activate(s))
                      /\ SF_vars(CommitActivation(s))
                      /\ SF_vars(EndsByItself(s))
                      /\ SF_vars(Finalize(s))
                      /\ WF_vars(Check(s))
  /\ \A q \in Calls : WF_vars(CommitControl(q))
  /\ \A t \in Tasks : /\ WF_vars(LeaseExpires(t) /\ ~Beating(t))
                      /\ WF_vars(Reclaim(t))

FairSpec == Spec /\ Fairness

-----------------------------------------------------------------------------
(* What the scheduler owes.                                                *)

\* A row that occupies a slot has a lease, whatever the order in which
\* workers, users and ticks write it: reclaim_stale_running_tasks looks for
\* no running row without one, so such a row would keep its slot for ever.
ActiveIsLeased ==
  \A t \in Tasks : task[t].status \in Active => task[t].lease # "none"

\* A request or an activation that commits on a row t it has not read as it
\* is: the UPDATE of a transaction that was overtaken (pause_task, resume_task,
\* cancel_task; mark_task_running behind the read of its executor).
Overtaken(t) ==
  \/ \E q \in Calls : /\ CommitControl(q)
                      /\ call[q].task = t /\ call[q].seen # ViewOf(task[t])
  \/ \E s \in Slots : /\ CommitActivation(s)
                      /\ slot[s].task = t
                      /\ task[t].status # "dispatching" \/ task[t].worker # slot[s].id

\* A row is bound to a worker exactly while it occupies a slot: the ownership
\* checks of the executors and of _requeue_failed_dispatch rely on it.  Only a
\* transaction that was overtaken breaks this, and only on its own row.
BindingIsKept ==
  [][\A t \in Tasks :
       Bound(task[t]) => Bound(task'[t]) \/ Overtaken(t)]_vars

\* A task that waits for its owner (or for nobody) moves only when the owner
\* asks, or by a process that was let in before: neither a worker that is still
\* running it, nor a late result, nor the recovery tick puts it back to work.
\* Heartbeats do give such rows a lease, so the tick must not take them for
\* lost.  A row that is completed or cancelled moves only by a transaction that
\* was overtaken.
ParkedStaysParked ==
  [][\A t \in Tasks :
       /\ task[t].status \in Terminal \cup {"paused"}
       /\ task'[t].status # task[t].status
       => \/ Overtaken(t)
          \/ /\ task[t].status \in Resumable
             /\ \E q \in Calls : CommitControl(q) /\ call[q].task = t]_vars

\* "At any moment at most N tasks are running": the slots of a user never
\* exceed get_user_concurrency_limit.
SlotLimit == \A u \in Users : Cardinality(RunningSlots(u)) <= Limit[u]

\* "A terminal state is irreversible", and "concurrent updates are serialised":
\* completed and cancelled are for ever, whichever requests and workers race.
TerminalFinal ==
  [][\A t \in Tasks : task[t].status \in {"completed", "cancelled"}
                      => task'[t].status = task[t].status]_vars

\* A queued task leaves the queue for good: it ends or it is parked, through
\* any finite number of crashes, lost messages and expired leases.
Settles ==
  \A t \in Tasks : task[t].status = "queued"
                   ~> task[t].status \in Terminal \cup {"paused"}

\* A pause or a cancellation reaches the process that executes the task.
StopReachesWorker ==
  \A s \in Slots, t \in Tasks :
    slot[s].pc = "work" /\ slot[s].task = t /\ Stopped(t)
    ~> ~(slot[s].pc = "work" /\ slot[s].task = t /\ Stopped(t))

PhaseOf(r) ==
  CASE r.status = "queued" -> "waiting"
    [] r.status \in Active -> "held"
    [] r.status = "paused" -> "suspended"
    [] OTHER -> r.status

\* What a request asks of the queue: a retry is a resumption.
Asked(c) ==
  IF c = NoRequest THEN NoRequest
  ELSE [op |-> IF c.op = "retry" THEN "resume" ELSE c.op, task |-> c.task]

JQ == INSTANCE JobQueue WITH
  phase    <- [t \in Tasks |-> PhaseOf(task[t])],
  asked    <- [q \in Calls |-> Asked(call[q])],
  starting <- {slot[s].task : s \in {x \in Slots : slot[x].pc = "activate"}},
  Requests <- Calls, None <- NoRequest

\* Seen from outside, the scheduler is a job queue: however crashes, deliveries,
\* heartbeats, recoveries and overtaken transactions interleave, only a request
\* that was let in and a process that was let in act on a task out of turn;
\* every other step keeps to the line, the limit, and what is over.
IsJobQueue == JQ!Spec
=============================================================================

--------------------------- MODULE StoryboardRuns ---------------------------
(***************************************************************************)
(* A storyboard project: the preflight that snapshots the novel, the runs  *)
(* that fan out into one lane per output format, the Celery processes that *)
(* draw the lanes, and the aggregation of the lanes into the run.          *)
(*                                                                         *)
(* Three rows say what became of a lane: its creation task (job), the lane *)
(* row and the version it fills.  They are written by different            *)
(* transactions, and this module is about how they agree.  The creation    *)
(* task is a row of CreationScheduler, with its leases, its outbox and its *)
(* retries left out; holder is its worker_task_id.                         *)
(*                                                                         *)
(* A request to control a run and the activation of a process read rows    *)
(* without locking them and write them later, each only in the columns     *)
(* that differ from what it read: they are two actions each.               *)
(***************************************************************************)
EXTENDS Naturals, FiniteSets

CONSTANTS
  Runs,        \* storyboard_runs rows
  Lanes,       \* the output formats
  LaneSets,    \* what normalize_lanes makes of a project's choice of them
  Workers,     \* Celery processes
  Ids, NoId,   \* worker_task_id values, and NULL
  Keys, NoKey, \* Idempotency-Key values, and none
  Requests,    \* requests between their reads and their commit
  Sources,     \* what a new snapshot may find in the novel
  MaxEvents    \* for each lane set, bound on the user's commands (preflight, run
               \* control, finalize) and faults (crash, duplicate, lost publish,
               \* early reclaim)

ASSUME StoryboardAssumption ==
  /\ IsFiniteSet(Runs) /\ IsFiniteSet(Lanes)
  /\ LaneSets \subseteq SUBSET Lanes \ {{}}
  /\ NoId \notin Ids /\ NoKey \notin Keys
  \* "unidentified": a character profile without a skin tone or an ethnicity.
  /\ Sources \subseteq {"no_chapters", "no_profiles", "unidentified", "complete"}
  /\ MaxEvents \in [LaneSets -> Nat]

\* A lane row, with its version and its creation task: created together.
Rows == Runs \X Lanes

VARIABLES
  outputs,   \* project.output_lanes
  project,   \* project.status
  snapshot,  \* what the latest source snapshot holds
  run,       \* storyboard_runs: status and idempotency key
  lane,      \* storyboard_run_lanes.status
  version,   \* storyboard_versions.status
  job,       \* creation_tasks.status
  holder,    \* creation_tasks.worker_task_id
  msgs,      \* messages visible in the broker
  worker,    \* what each process is doing
  request,   \* requests past their guards, with what they read
  events,    \* commands and faults so far
  overtaken  \* history: rows that a transaction wrote or passed over which
             \* had read them, or their run, in another state

rows == <<outputs, project, snapshot, run, lane, version>>
queue == <<job, holder>>
vars == <<outputs, project, snapshot, run, lane, version, job, holder, msgs, worker,
          request, events, overtaken>>

-----------------------------------------------------------------------------
Terminal == {"completed", "failed", "cancelled"}
Held == {"dispatching", "running"}
JobStatus == {"absent", "queued", "paused"} \cup Held \cup Terminal
LaneBusy == {"running", "submitted", "queued"}

ProjectStatus == {"draft", "preflight_passed", "preflight_blocked", "generating",
                  "reviewing", "finalized", "failed", "cancelled"}

Message == [row: Rows, id: Ids]
Idle == [pc |-> "idle"]
Execution == [pc: {"start", "activate", "begin", "draft", "gate", "save", "leave", "finalize"},
              row: Rows, id: Ids, seen: Sources \cup {"none"},
              loaded: {"generating", "completed", "failed", "none"},
              end: Terminal \cup {"paused", "none"}]

RunRow == [status: {"absent", "running", "paused"} \cup Terminal,
           state: {"absent", "queued", "running", "paused"} \cup Terminal,
           key: Keys \cup {NoKey}]
LaneStatus == {"absent", "paused"} \cup LaneBusy \cup Terminal

\* What a control request has loaded of a lane and its task, and of the run.
View == [job: JobStatus, holder: Ids \cup {NoId}, lane: LaneStatus]
ViewOf(v) == [job |-> job[v], holder |-> holder[v], lane |-> lane[v]]

Op == {"pause", "resume", "cancel"}
NoRequest == [op |-> "none"]
Start == [op: {"start"}, key: Keys \cup {NoKey}]
Control == [op: Op, run: Runs, loaded: RunRow, project: ProjectStatus,
            seen: UNION {[S -> View] : S \in SUBSET Rows}]

TypeOK ==
  /\ outputs \in LaneSets
  /\ project \in ProjectStatus
  /\ snapshot \in Sources \cup {"none"}
  /\ run \in [Runs -> RunRow]
  /\ lane \in [Rows -> LaneStatus]
  /\ version \in [Rows -> {"absent", "generating", "completed", "failed"}]
  /\ job \in [Rows -> JobStatus]
  /\ holder \in [Rows -> Ids \cup {NoId}]
  /\ msgs \subseteq Message
  /\ worker \in [Workers -> Execution \cup {Idle}]
  /\ request \in [Requests -> Start \cup Control \cup {NoRequest}]
  /\ events \in 0..MaxEvents[outputs]
  /\ overtaken \subseteq Rows

Init ==
  /\ outputs \in LaneSets
  /\ project = "draft"
  /\ snapshot = "none"
  /\ run = [r \in Runs |-> [status |-> "absent", state |-> "absent", key |-> NoKey]]
  /\ lane = [v \in Rows |-> "absent"]
  /\ version = [v \in Rows |-> "absent"]
  /\ job = [v \in Rows |-> "absent"]
  /\ holder = [v \in Rows |-> NoId]
  /\ msgs = {}
  /\ worker = [w \in Workers |-> Idle]
  /\ request = [q \in Requests |-> NoRequest]
  /\ events = 0
  /\ overtaken = {}

-----------------------------------------------------------------------------
Event == events < MaxEvents[outputs] /\ events' = events + 1

(* Starting a run.                                                         *)

\* The latest snapshot is used again unless a new one is asked for.  Nothing
\* asks what the project is doing: preflight overwrites any status.
Preflight ==
  \E source \in Sources, refresh \in BOOLEAN :
    /\ snapshot' = IF refresh \/ snapshot = "none" THEN source ELSE snapshot
    /\ project' = IF snapshot' = "complete" THEN "preflight_passed"
                                            ELSE "preflight_blocked"
    /\ Event
    /\ UNCHANGED <<outputs, run, lane, version, job, holder, msgs, worker, request, overtaken>>

\* The guards of create_run_and_dispatch; a known key gets the run it named.
MayStart(k) ==
  /\ project = "preflight_passed"
  /\ k # NoKey => \A r \in Runs : run[r].key # k
  /\ \A r \in Runs : run[r].status \notin {"running", "paused"}

RowsOf(r) == {r} \X outputs

\* The next run row, its lanes, versions and creation tasks, in one commit.
CreateRun(k) ==
  \E r \in Runs :
    /\ run[r].status = "absent"
    /\ run' = [run EXCEPT ![r] = [status |-> "running", state |-> "running", key |-> k]]
    /\ lane' = [v \in Rows |-> IF v \in RowsOf(r) THEN "submitted" ELSE lane[v]]
    /\ version' = [v \in Rows |-> IF v \in RowsOf(r) THEN "generating" ELSE version[v]]
    /\ job' = [v \in Rows |-> IF v \in RowsOf(r) THEN "queued" ELSE job[v]]
    /\ project' = "generating"
    /\ UNCHANGED <<outputs, snapshot, holder, msgs, worker, events, overtaken>>

\* The action "retry" of a run that is over is no more than this: it needs a
\* project whose preflight has passed again since.
StartRun(k) == MayStart(k) /\ CreateRun(k) /\ UNCHANGED request

\* Two requests at once: each decides on what it read before the other's commit.
ReadStart(q, k) ==
  /\ request[q] = NoRequest
  /\ MayStart(k)
  /\ request' = [request EXCEPT ![q] = [op |-> "start", key |-> k]]
  /\ UNCHANGED <<rows, queue, msgs, worker, events, overtaken>>

CommitStart(q) ==
  /\ request[q].op = "start"
  /\ CreateRun(request[q].key)
  /\ request' = [request EXCEPT ![q] = NoRequest]

-----------------------------------------------------------------------------
(* The aggregation.                                                        *)

LanesOf(r) == {lane[v] : v \in RowsOf(r)}

Aggregate(seen) ==
  IF seen = {"completed"} THEN "completed"
  ELSE IF "failed" \in seen THEN "failed"
  ELSE IF seen = {"cancelled"} THEN "cancelled"
  ELSE IF "paused" \in seen /\ seen \cap LaneBusy = {} THEN "paused" ELSE "running"

ProjectAfter(status) ==
  CASE status = "completed" -> "reviewing"
    [] status = "failed" -> "failed"
    [] status = "cancelled" -> "cancelled"
    [] OTHER -> project

\* GET of a run: refresh_run_status and a commit.  The worker refreshes too,
\* after its own commit, and closes the session without another: that refresh
\* is rolled back, so no step of a worker contains one.
Poll(r) ==
  /\ run[r].status # "absent"
  /\ run' = [run EXCEPT ![r].status = Aggregate(LanesOf(r)), ![r].state = Aggregate(LanesOf(r))]
  /\ project' = ProjectAfter(run'[r].status)
  /\ UNCHANGED <<outputs, snapshot, lane, version, queue, msgs, worker, request, events, overtaken>>

-----------------------------------------------------------------------------
(* Run control.                                                            *)

\* Mutant of Admitted: a lane whose task waits in the queue is forgotten.
AdmittedNotQueued(op) ==
  CASE op = "pause"  -> Held
    [] op = "resume" -> {"paused", "failed"}
    [] op = "cancel" -> Held \cup {"paused"}

\* The tasks that pause_task, resume_task and cancel_task take.
Admitted(op) ==
  CASE op = "pause"  -> Held \cup {"queued"}
    [] op = "resume" -> {"paused", "failed"}
    [] op = "cancel" -> Held \cup {"queued", "paused"}

Target(op) ==
  CASE op = "pause" -> "paused" [] op = "resume" -> "queued" [] op = "cancel" -> "cancelled"

\* run_action up to its writes: the run, its lanes and their tasks are loaded,
\* the lanes one after the other, here at once.  A resumption needs a task.
ReadAction(q, op, r) ==
  /\ request[q] = NoRequest
  /\ CASE op = "pause"  -> run[r].state \notin Terminal \cup {"absent", "paused"}
       [] op = "resume" -> /\ run[r].state \notin Terminal \cup {"absent"}
                           /\ \E v \in RowsOf(r) : job[v] \in Admitted("resume")
       [] op = "cancel" -> run[r].state \notin {"absent", "cancelled"}
  /\ request' = [request EXCEPT ![q] =
                   [op |-> op, run |-> r, loaded |-> run[r], project |-> project,
                    seen |-> [v \in RowsOf(r) |-> ViewOf(v)]]]
  /\ Event
  /\ UNCHANGED <<rows, queue, msgs, worker, overtaken>>

\* The column x, for a session that loaded it as it was and made it to.
Column(was, to, x) == IF was = to THEN x ELSE to

\* The tasks a request c changes, and the lanes: cancel_task returns a task that
\* is over as it is, and its lane is overwritten all the same.
Taken(c) == {v \in DOMAIN c.seen : c.seen[v].job \in Admitted(c.op)}
Written(c) == IF c.op = "cancel" THEN DOMAIN c.seen ELSE Taken(c)

\* The run after request c: a resumption leaves it running and its run_state queued.
RunAfter(c) ==
  [run[c.run] EXCEPT
    !.status = Column(c.loaded.status, IF c.op = "resume" THEN "running" ELSE Target(c.op), @),
    !.state  = Column(c.loaded.state, Target(c.op), @)]

\* cancel_task revokes the worker it saw: process and message go, or neither.
RevokedBy(c) ==
  LET revoked == {m \in Message : m.row \in Taken(c) /\ m.id = c.seen[m.row].holder} IN
  \/ UNCHANGED <<msgs, worker>>
  \/ /\ c.op = "cancel"
     /\ msgs' = msgs \ revoked
     /\ worker' = [w \in Workers |->
          IF worker[w] # Idle /\ \E m \in revoked : m.row = worker[w].row /\ m.id = worker[w].id
          THEN Idle ELSE worker[w]]

\* The writes of run_action and the commit.
CommitAction(q) ==
  LET c == request[q] IN
  /\ c.op \in Op
  /\ job' = [v \in Rows |-> IF v \in Taken(c) THEN Target(c.op) ELSE job[v]]
  /\ holder' = [v \in Rows |-> IF v \in Taken(c) THEN Column(c.seen[v].holder, NoId, holder[v])
                                                 ELSE holder[v]]
  /\ lane' = [v \in Rows |-> IF v \in Written(c)
                            THEN Column(c.seen[v].lane, Target(c.op), lane[v]) ELSE lane[v]]
  /\ run' = [run EXCEPT ![c.run] = RunAfter(c)]
  /\ project' = IF c.op = "cancel" THEN Column(c.project, "cancelled", project) ELSE project
  /\ RevokedBy(c)
  /\ request' = [request EXCEPT ![q] = NoRequest]
  /\ overtaken' = overtaken \cup
       {v \in DOMAIN c.seen : c.seen[v] # ViewOf(v) \/ c.loaded # run[c.run]}
  /\ UNCHANGED <<outputs, snapshot, version, events>>

\* The user finalizes a version: the project's status, whatever it was.
FinalizeVersion(v) ==
  /\ version[v] = "completed"
  /\ project' = "finalized"
  /\ Event
  /\ UNCHANGED <<outputs, snapshot, run, lane, version, queue, msgs, worker, request, overtaken>>

-----------------------------------------------------------------------------
(* The queue and the broker.                                               *)

UsedIds == {m.id : m \in msgs} \cup {holder[v] : v \in Rows}
           \cup {worker[w].id : w \in {x \in Workers : worker[x] # Idle}}
           \cup UNION {{request[q].seen[v].holder : v \in DOMAIN request[q].seen} :
                       q \in {x \in Requests : request[x].op \in Op}}

\* A dispatch binds a new id and publishes; a publish may be lost.
Dispatch(v) ==
  \E id \in Ids \ UsedIds :
    /\ job[v] = "queued"
    /\ job' = [job EXCEPT ![v] = "dispatching"]
    /\ holder' = [holder EXCEPT ![v] = id]
    /\ \/ msgs' = msgs \cup {[row |-> v, id |-> id]} /\ UNCHANGED events
       \/ Event /\ UNCHANGED msgs
    /\ UNCHANGED <<rows, worker, request, overtaken>>

\* Nothing in the broker or in a process will report on the held task.
Lost(v) == /\ job[v] \in Held
           /\ \A m \in msgs : ~(m.row = v /\ m.id = holder[v])
           /\ \A w \in Workers : worker[w] # Idle =>
                ~(worker[w].row = v /\ holder[v] \in {NoId, worker[w].id})

Release(v, status) ==
  /\ job' = [job EXCEPT ![v] = status]
  /\ holder' = [holder EXCEPT ![v] = NoId]

\* The recovery tick: the lease ran out, also under a process that is only
\* slow.  At its limit of recoveries the task fails, and its lane is not told.
Reclaim(v) ==
  /\ job[v] \in Held
  /\ \E status \in {"queued", "failed"} : Release(v, status)
  /\ IF Lost(v) /\ job'[v] = "queued" THEN UNCHANGED events ELSE Event
  /\ UNCHANGED <<rows, msgs, worker, request, overtaken>>

Deliver(w) ==
  \E m \in msgs :
    /\ worker[w] = Idle
    /\ msgs' = msgs \ {m}
    /\ worker' = [worker EXCEPT ![w] = [pc |-> "start", row |-> m.row, id |-> m.id,
                                        seen |-> "none", loaded |-> "none",
                                        end |-> "none"]]
    /\ UNCHANGED <<rows, queue, request, events, overtaken>>

\* Late acknowledgement: a lost process, or one that outlives the visibility
\* timeout, leaves its message in the broker.
Redelivered(w) == msgs \cup {[row |-> worker[w].row, id |-> worker[w].id]}

Crash(w) ==
  /\ worker[w] # Idle
  /\ msgs' = Redelivered(w)
  /\ worker' = [worker EXCEPT ![w] = Idle]
  /\ Event
  /\ UNCHANGED <<rows, queue, request, overtaken>>

VisibilityTimeout(w) ==
  /\ worker[w] # Idle
  /\ msgs' = Redelivered(w)
  /\ msgs' # msgs
  /\ Event
  /\ UNCHANGED <<rows, queue, worker, request, overtaken>>

-----------------------------------------------------------------------------
(* run_storyboard_lane.                                                    *)

At(w, pc) == worker[w].pc = pc
Goto(w, pc) == worker' = [worker EXCEPT ![w].pc = pc]
Leaving(w, pc, end) ==
  worker' = [worker EXCEPT ![w].pc = pc, ![w].end = end,
                           ![w].seen = "none", ![w].loaded = "none"]
Leave(w, end) == Leaving(w, "leave", end)

\* How a check of the task ends the execution: the handler knows a pause and a
\* cancellation by their text and takes everything else for a failure, a
\* process that was superseded included.
Verdict(w) ==
  LET v == worker[w].row IN
  IF holder[v] \notin {NoId, worker[w].id} THEN "failed"
  ELSE IF job[v] = "cancelled" THEN "cancelled"
  ELSE IF job[v] = "paused" THEN "paused" ELSE "none"

\* _activate_creation_task up to the write of mark_task_running: besides, the
\* task must be this process's, and dispatching or running already.  (The tick
\* that takes a dispatching row with a heartbeat for a running one only spares
\* a process the write, and is left out.)
Activate(w) ==
  LET v == worker[w].row IN
  /\ At(w, "start")
  /\ \/ Verdict(w) # "none" /\ Leave(w, Verdict(w))
     \/ /\ Verdict(w) = "none" /\ (job[v] \notin Held \/ holder[v] = NoId)
        /\ Leave(w, "failed")
     \/ /\ Verdict(w) = "none" /\ job[v] \in Held /\ holder[v] # NoId
        /\ Goto(w, IF job[v] = "running" THEN "begin" ELSE "activate")
  /\ UNCHANGED <<rows, queue, msgs, request, events, overtaken>>

\* The write, on whatever has become of the row.
CommitActivation(w) ==
  LET v == worker[w].row IN
  /\ At(w, "activate")
  /\ job' = [job EXCEPT ![v] = "running"]
  /\ Goto(w, "begin")
  /\ overtaken' = IF job[v] = "dispatching" /\ holder[v] = worker[w].id
                  THEN overtaken ELSE overtaken \cup {v}
  /\ UNCHANGED <<rows, holder, msgs, request, events>>

Begin(w) ==
  /\ At(w, "begin")
  /\ lane' = [lane EXCEPT ![worker[w].row] = "running"]
  /\ Goto(w, "draft")
  /\ UNCHANGED <<outputs, project, snapshot, run, version, queue, msgs, request, events, overtaken>>

\* Check the task, read the latest snapshot, draw the shots, load the version.
Draft(w) ==
  /\ At(w, "draft")
  /\ IF Verdict(w) # "none" THEN Leave(w, Verdict(w))
     ELSE IF snapshot \in {"none", "no_chapters"} THEN Leave(w, "failed")
     ELSE worker' = [worker EXCEPT ![w].pc = "gate", ![w].seen = snapshot,
                                   ![w].loaded = version[worker[w].row]]
  /\ UNCHANGED <<rows, queue, msgs, request, events, overtaken>>

\* The generation raises: no answer from the model, a row that is gone.
DraftFails(w) ==
  /\ At(w, "draft")
  /\ Leave(w, "failed")
  /\ UNCHANGED <<rows, queue, msgs, request, events, overtaken>>

\* Mutant of Ends: the lane is left as it is.
EndsVersionOnly(w, status) ==
  /\ version' = [version EXCEPT ![worker[w].row] = IF status = worker[w].loaded THEN @ ELSE status]
  /\ Leaving(w, "finalize", status)
  /\ UNCHANGED <<outputs, project, snapshot, run, lane, queue, msgs, request, events, overtaken>>

\* The commit that ends a lane: version, lane and the result to report.  The
\* session writes the version's status only if it is not the one it loaded.
Ends(w, status) ==
  /\ version' = [version EXCEPT ![worker[w].row] = IF status = worker[w].loaded THEN @ ELSE status]
  /\ lane' = [lane EXCEPT ![worker[w].row] = status]
  /\ Leaving(w, "finalize", status)
  /\ UNCHANGED <<outputs, project, snapshot, run, queue, msgs, request, events, overtaken>>

StyleGateFails(w) == At(w, "gate") /\ Ends(w, "failed")

\* The style gate passed: check the task a second time.
StyleGatePasses(w) ==
  /\ At(w, "gate")
  /\ IF Verdict(w) # "none" THEN Leave(w, Verdict(w)) ELSE Goto(w, "save")
  /\ UNCHANGED <<rows, queue, msgs, request, events, overtaken>>

\* Mutant of Save: the lane is completed ahead of its version.
SaveLaneOnly(w) ==
  /\ At(w, "save")
  /\ lane' = [lane EXCEPT ![worker[w].row] = "completed"]
  /\ Leaving(w, "finalize", "completed")
  /\ UNCHANGED <<outputs, project, snapshot, run, version, queue, msgs, request, events, overtaken>>

\* The identity gate, then the cards, the version and the lane in one commit.
Save(w) ==
  /\ At(w, "save")
  /\ Ends(w, IF worker[w].seen = "unidentified" THEN "failed" ELSE "completed")

\* The exception handler writes the lane, not the version.
LaneException(w) ==
  /\ At(w, "leave")
  /\ lane' = [lane EXCEPT ![worker[w].row] = worker[w].end]
  /\ Goto(w, "finalize")
  /\ UNCHANGED <<outputs, project, snapshot, run, version, queue, msgs, request, events, overtaken>>

\* _finalize_creation, then the acknowledgement: finalize_task takes the result
\* of any process as long as the task is held, and drops it otherwise.
Finalize(w) ==
  LET v == worker[w].row IN
  /\ At(w, "finalize")
  /\ IF job[v] \in Held THEN Release(v, worker[w].end) ELSE UNCHANGED queue
  /\ worker' = [worker EXCEPT ![w] = Idle]
  /\ UNCHANGED <<rows, msgs, request, events, overtaken>>

-----------------------------------------------------------------------------
UserNext ==
  \/ Preflight
  \/ \E k \in Keys \cup {NoKey} : StartRun(k)
  \/ \E q \in Requests : (\E k \in Keys \cup {NoKey} : ReadStart(q, k)) \/ CommitStart(q)
  \/ \E r \in Runs : Poll(r) \/ \E q \in Requests, op \in Op : ReadAction(q, op, r)
  \/ \E q \in Requests : CommitAction(q)
  \/ \E v \in Rows : FinalizeVersion(v)

QueueNext == \E v \in Rows : Dispatch(v) \/ Reclaim(v)

Works(w) ==
  \/ Activate(w) \/ CommitActivation(w) \/ Begin(w) \/ Draft(w) \/ DraftFails(w) \/ StyleGateFails(w)
  \/ StyleGatePasses(w) \/ Save(w) \/ LaneException(w) \/ Finalize(w)

WorkerNext ==
  \E w \in Workers : Deliver(w) \/ Crash(w) \/ VisibilityTimeout(w) \/ Works(w)

Next == UserNext \/ QueueNext \/ WorkerNext

Spec == Init /\ [][Next]_vars

-----------------------------------------------------------------------------
(* Safety.                                                                 *)

\* Success is told by three rows, which different transactions write, and each
\* time the version was drawn to its end: a task that is completed, a lane that
\* is, and a run whose lanes all were when it was polled, however many processes
\* drew the lane, died over it or were superseded on it (run_storyboard_lane).
\* The version may be "failed": a process that had loaded it as completed does
\* not write what another one wrote since.
Drawn(v) == version[v] \in {"completed", "failed"}
SuccessIsDrawn ==
  /\ \A v \in Rows : job[v] = "completed" \/ lane[v] = "completed" => Drawn(v)
  /\ \A r \in Runs : run[r].status = "completed" => \A v \in RowsOf(r) : Drawn(v)

\* Nothing of a cancelled run is queued, held or paused, although lanes go on
\* writing their rows after the cancellation and every poll takes the run's
\* status from those rows (run_action, refresh_run_status): what is left alive
\* in it was written by a request or an activation that had been overtaken.
CancelledRunIsOver ==
  \A r \in Runs : run[r].status = "cancelled" =>
                    \A v \in RowsOf(r) \ overtaken : job[v] \in Terminal

-----------------------------------------------------------------------------
(* Liveness.                                                               *)

\* Celery Beat dispatches and recovers, the broker delivers, a process that is
\* not lost goes on.  Nothing polls.
Fairness ==
  /\ \A v \in Rows : /\ WF_vars(Dispatch(v))
                     /\ WF_vars(Reclaim(v) /\ Lost(v) /\ job'[v] = "queued")
  /\ \A q \in Requests : WF_vars(CommitAction(q))
  /\ \A w \in Workers : WF_vars(Deliver(w)) /\ WF_vars(Works(w))
FairSpec == Spec /\ Fairness

\* A client that asks for the run's status again and again.
PolledSpec == FairSpec /\ \A r \in Runs : WF_vars(Poll(r))

\* The run of a task that ended is reported as over: no lane is left behind by
\* a crash, a duplicate or a superseded process (run_storyboard_lane).
RunSettles ==
  \A v \in Rows : job[v] = "completed" ~> run[v[1]].status \in Terminal \cup {"paused"}

=============================================================================

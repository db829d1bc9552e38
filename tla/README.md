# Formal models of AI-JinShu

AI-JinShu writes novels with language models. A user's request becomes a row of
`creation_tasks`; a scheduler dispatches the row to a Celery worker within the
user's concurrency limit; the worker runs a graph of LLM steps chapter by
chapter, checkpoints each chapter, and finalizes the row. Novels are rewritten
and turned into storyboards by tasks of the same kind. Everything can be paused,
cancelled, lost and recovered on the way. This directory holds TLA+ models of
that machinery, the TLC runs that check them on small instances and the TLAPS
proofs of their safety properties for every size of system.

## 1. Inventory

### 1.1 Components

Sources are under `src/app/`.

| Component | Source | State it keeps | Operations | Module |
|---|---|---|---|---|
| Creation scheduler | `services/scheduler/scheduler_service.py`, `models/creation_task.py` | row: status, worker_task_id, lease, heartbeat, retry and recovery counters, resume cursor | submit, reserve batch, publish, requeue failed publish, activate, heartbeat, finalize, pause, resume, cancel, repair, reclaim | `CreationScheduler` |
| Quota and locks | `services/scheduler/concurrency_service.py`, `lock_service.py` | quota rows and their locks | count running slots, limit, lock the user | `DispatchLock` |
| Lease, ticks, broker, processes | `services/task_runtime/lease_service.py`, `tasks/scheduler.py`, `workers/celery_app.py` | lease columns; messages, unacknowledged deliveries | heartbeat, dispatch and recovery ticks; deliver, acknowledge late, redeliver, revoke | `CreationScheduler` |
| Generation executor, checkpoints, cursor | `tasks/generation.py`, `services/task_runtime/*` | one execution; `creation_task_checkpoints`, `resume_cursor_json` | resume, loop over segments, stop requests, finalize | `BookGeneration` |
| Generation graph | `services/generation/graph.py`, `nodes/*`, `policies.py` | graph state of a segment; written chapters | outline, write, review, commit, closure gate, bridge, tail rewrite, final review | `BookGeneration`, `OutlineGate`, `ChapterDraft` |
| Review and LLM agents | `services/generation/agents.py`, `nodes/writer.py`, `review.py` | the calls in hand | writer ladder, four reviewers, gate, route | `DraftReview` |
| Story memory, progression memory | `services/memory/*`, `services/generation/chapter_commit.py` | summaries, story bible, reports, foreshadowing, arcs | remember, replace, forget, show to the next writer | `StoryMemory`, `ChapterDraft` |
| Rewrite executor and routes | `tasks/rewrite.py`, `api/routes/rewrite.py` | requests, target versions, units | request, write, retry, cancel, activate a version | `RewriteRequests` |
| Storyboard runs and lanes | `services/storyboard/runtime_v2.py`, `tasks/storyboard.py`, `api/routes/storyboards.py` | project, snapshot, runs, lanes, versions | preflight, start, poll, pause, resume, cancel, draw a lane | `StoryboardRuns` |
| Storyboard versions, cards, exports | `api/routes/storyboards.py`, `tasks/storyboard.py` | shots, cards, prompts, default and final flags, exports | edit, activate, finalize, export | `StoryboardVersions` |
| Legacy storyboard pipeline | `tasks/storyboard.py` | task row, units, versions | generate, pause, resume, cancel, retry | `StoryboardPipeline` |
| Circuit breaker, agent runner | `core/llm_circuit_breaker.py`, `services/agents/llm_agent.py` | counters, open and half-open state | record call, select endpoint | `ModelCalls` |
| Feature flags, promotion | `core/feature_flags.py`, `services/cv/promotion_engine.py` | flag, promotion row, cache | evaluate, set flag, sync registry, read | `FlagRollout` |
| System settings | `services/system_settings/*`, `api/routes/admin.py` | rows, two caches per process | write, invalidate, read | `RuntimeSettings` |
| Token accounting | `core/llm_usage.py`, `services/quota.py` | usage session, totals, ledger | count, report, charge | `TokenAccounting` |
| Status snapshots | `services/generation/status_snapshot.py`, streams of `api/routes/generation.py` | Redis copy of a row | publish after commit, merge and stream | `StatusMirror` |
| Accounts | `core/authn.py`, `api/routes/auth.py` | users, one-time tokens | log in, verify, disable | none |
| Frontend, migrations, deployment | `web`, `alembic`, `deploy` | none of the protocol | none | none |

### 1.2 Interactions

- The API routes, the two ticks and the workers all write the same row, each in
  a transaction of its own. The dispatcher commits a reservation first and
  publishes the message afterwards, in no common transaction.
- A worker learns of a pause or of losing the row only by reading it at its
  progress callbacks; the scheduler learns of a lost worker only by the lease.
- Celery acknowledges late and requeues on a lost process; Redis hands a message
  out again after the visibility timeout (3600 s) even if its process is alive.
  The message keeps its id, so both processes pass every ownership check.
- The executor resumes from the cursor and from `runtime_state`, both written by
  progress callbacks and graph nodes while it runs, and by `resume_task`.
- SQLAlchemy sessions run at READ COMMITTED with `autoflush=False`; a row that a
  session has loaded keeps its attributes even if `with_for_update` reads it
  again, and an UPDATE carries only the columns whose values changed. There is
  no version column. This is what makes check-then-write gaps observable.

### 1.3 What is hard

The list of hazards, line by line, is in `PROJECT.json`. In short: a row changed
between the read and the write of another transaction; results of workers that
no longer own the row; messages lost, duplicated, or published by a call that
reported failure; crashes between a commit and a publish, between the commit of
a text and what is remembered of it, and between a revoke and a commit; leases
that run out under a live worker; heartbeats that refresh rows nobody runs;
counters at their limits; a copy of a status (a lane of its task, a request of
its task, Redis of the row, a cache of a table) that is written late or twice; a
resume that starts at the wrong chapter or never ends; a reviewer that gave no
verdict and is counted as one that agreed.

### 1.4 What makes each part correct

- Scheduler: never more slots than the limit; first in line first served; a row
  is bound to a worker exactly while it occupies a slot; a slot can always be
  taken back; parked and finished rows stay so; every queued row ends or is
  parked; a stop reaches the worker.
- Dispatch: the batch that several dispatchers of one user pick fits the limit.
- Resume: a restart never loses a written chapter, never leaves a gap, and
  makes progress.
- Graph: each segment ends whatever the reviews say; the book is long enough
  when it is completed; a chapter is written from an outline of its own.
- Memory: what is remembered of a chapter is of the text that is stored, and
  goes in with it; each chapter is written with the ending of the one before it.
- Review: the gate does not consent when it has heard too few reviewers.
- Rewrite: a completed version has all its chapters; a request gets through.
- Storyboard: a lane that reports success has drawn its version; a cancelled
  run leaves no task behind; a chapter with a checkpoint has shots; the run ends
  for who polls it; cards and their older copy agree; an export settles.
- Services: a half-open breaker has its probe; what is charged was used; a
  stream shows chapters that were reached; every cache catches up.

## 2. Modules

| Module | Role |
|---|---|
| `JobQueue` | abstract specification: what the scheduler promises to the owner of a task |
| `CreationScheduler` | scheduler, broker, executors, control requests and recovery; implements `JobQueue` |
| `DispatchLock` | the dispatch of one user's queue statement by statement |
| `BookGeneration` | one generation task: executor, segments, persisted position, stops and resumes |
| `OutlineGate` | what precedes the first chapter of a segment: outlines, plan, confirmation |
| `ChapterDraft` | the loops around the draft of a chapter and its progression memory |
| `DraftReview` | the calls that make a draft and its review |
| `StoryMemory` | what the book remembers and what a writer is shown |
| `RewriteRequests` | the rewriting of a novel |
| `StoryboardRuns` | runs, lanes, versions and their tasks, each task an instance of `JobQueue` |
| `StoryboardVersions` | what happens to versions after their generation |
| `StoryboardPipeline` | the older storyboard task |
| `ModelCalls`, `FlagRollout`, `RuntimeSettings`, `TokenAccounting`, `StatusMirror` | the services beside the long tasks |
| `MCCreationScheduler`, `MCStoryboardRuns` | small instances |
| `MCExecutors` | `RewriteRequests`, `StoryboardPipeline` and `DispatchLock` side by side |
| `MCServices` | the five services side by side |
| `MCChapter` | `ChapterDraft`, `DraftReview` and `StoryMemory` side by side |
| `*Proofs` | the theorems, see section 5 |

How they meet: what is one execution between `Activate` and `Finalize` in
`CreationScheduler` is the whole of `BookGeneration`, `OutlineGate` and
`ChapterDraft` for a novel, of `RewriteRequests` for a rewriting, of
`StoryboardRuns` or `StoryboardPipeline` for a storyboard; what is `Crash`,
`Park` and `Resume` there is all of recovery and control. `BookGeneration`
assumes that executions of a task do not overlap; when they may is the subject
of `CreationScheduler`, and the modules of the other executors have overlapping
ones themselves. `StoryboardRuns` reaches the scheduler only through `JobQueue`,
which `CreationScheduler` is proved to implement.

"Side by side" means that the modules share no variable (a bound on events at
most). A variable `part` is chosen at the start and says which of them moves; the
others keep their initial state. Such a module asks the questions of its parts in
one run each, and adds no behaviour to any of them.

### 2.1 CreationScheduler

**State.** `task[t]` is a row: `status`, `worker` (worker_task_id), `lease`
(NULL, in the future, in the past), `beat` (last_heartbeat_at is set), `retries`
and `recoveries`. `outbox` holds reservations that a dispatcher committed and
has not published; it is the dispatcher's memory and is lost with it. `msgs` is
the broker, `slot[s]` a worker process, `call[q]` a control request between its
read and its commit.

**Steps.** One action is one transaction or one broker event.

| Code | Action |
|---|---|
| `submit_task` | `Submit` |
| `_reserve_dispatch_batch` under the dispatch lock | `Reserve`: the first tasks in rank order that fit the limit and the batch; those with a bad payload fail on the spot |
| `_publish_worker_task`, `_requeue_failed_dispatch`, a dead dispatcher | `Publish`, `PublishFails`, `DispatcherDies` |
| delivery, visibility timeout, lost process | `Deliver`, `Redeliver`, `Crash` |
| `_activate_creation_task` and `mark_task_running` | `Activate`, then `CommitActivation` where the gap between them is open |
| `heartbeat_task`, background thread | `Heartbeat` |
| checks of a progress callback | `Check` |
| return or exception of the pipeline | `End` |
| `finalize_task` | `Finalize`, `FinalizeFails` |
| pause, resume, retry and cancel routes | `Control` (one step) or `ReadControl`, `CommitControl` (open gap) |
| passing of time | `LeaseExpires` |
| `repair_active_dispatching_tasks`, `reclaim_stale_running_tasks` | `Repair`, `Reclaim`, `RollsBackAfterRevoke` |

`OpenWindows` names the transactions whose gap other transactions may enter:
`"control"` for the routes, `"activation"` for `mark_task_running`. The code has
both gaps. A run with a window closed asks what holds if that transaction were
one step, and separates what goes wrong because of the gap from what does not.
`Updated` carries the ORM's rule: a request writes the columns it changed
relative to what it read, and leaves the others as the row has them.

**Abstractions.** A payload is valid or not, by free choice. Leases have no
clock: a fresh one may expire at any moment. A revoke removes the process and
the messages of an id, or does nothing. The four executors differ in two ways
that the model keeps (`Kind`): the heartbeat thread of the generation executor
(`generation.py:1160`) runs only while its pipeline does, those of the others
from before activation until after finalization; and a storyboard lane that
finds itself superseded goes on to finalize as failed. `OverBudget` is the verdict of the budget check.

### 2.2 JobQueue

A task waits, is held, is suspended, or is over. `Take` starts a prefix of the
waiting line within the limit. `CreationScheduler` maps `queued` to waiting,
`dispatching` and `running` to held, `paused` to suspended. The mapping needs no
history: leases, workers, messages, crashes and repairs are stutters.

### 2.3 BookGeneration

**State.** What survives an execution: `cursor` (resume_cursor_json.next), `rt`
(its runtime_state), `last` (the last checkpoint), `written` (chapters with a
committed version), `reviewed` (the report of the final review). What does not:
`book`, the local variables of `submit_book_generation_task`, and `seg`, the
state of the graph. `pc` is the place of the execution.

| Code | Action |
|---|---|
| `_resolve_generation_resume`, early completion | `ResumePlan`, `Begin` |
| head and tail of the loop over segments, its end | `StartSegment`, `EndSegment`, `EndLoop` |
| `run_final_book_review_only_langgraph` | `Review`, `ReviewDone` |
| completion | `Finish` |
| `node_init`, `node_prewrite`, `node_outline`, `confirmation_gate` | `InitGraph` |
| from `volume_replan` to the commit of `node_finalize` | `WriteChapter`; `Refuse` where `_ensure_retry_write_allowed` raises |
| `node_consistency_check`, `outline_revise`, `node_save_blocked` | `BlockChapter` |
| `chapter_done` in the progress callback | `ChapterDone` |
| the rest of `node_finalize`, `_route_finalize`, `node_advance_chapter` | `Advance` |
| `node_closure_gate` with `node_tail_rewrite`, `node_bridge_chapter` | `GateRewritesTail`, `GateCloses`, `GateExtends`, `GateContinues` |
| lost worker | `Crash` |
| exception handler of the executor | `Raise`, in `Park` and `Refuse` |
| `pause_task`, a task given up by the recovery tick, `resume_task` | `ParkIdle`, `Resume` |

**Abstractions.** What the gate counts in the text, open lines and the coverage
of promises, is a free `Verdict`. Outlines are left out: a plan that was made
for the present range may or may not have an outline for each of its chapters,
so `InitGraph` may keep it or not. Reviews, revisions and the rerun before
`node_finalize` change text only. `volume_no` follows from the chapter. The
task starts at chapter 1. `written` never shrinks: a rewrite replaces a version,
and no step of generation deletes one. The attempts of tail rewrites and bridges
live in `seg` only, since `node_init` sets them to zero whatever was persisted.
A stop is a pause, an error or a rejected write: all take the same handler.

**Not reachable in the code.** `graph.py` has nodes `final_book_review` and
`quality_rewrite_init` without an edge from the rest of the graph; the executor
calls the final review directly and ignores what it returns. The last branch of
`_resolve_generation_resume`, which resumes from the checkpoints, is for a mode
that no writer stores: a resume goes by the runtime state, then by the cursor.

### 2.4 DispatchLock

API requests, finished executors and both ticks dispatch for the same user at
once. `_reserve_dispatch_batch` first asks for the quota row (`AskForQuota`),
inserts it if nobody has (`InsertQuota`, `InsertLost` for the transaction that
comes second), locks it (`LockQuota`), counts the slots (`CountSlots`), and picks
row by row (`PickBatch`, a row that is over its budget goes no further) until it
commits (`CommitBatch`) or rolls back. `StopTask` frees and fills rows meanwhile;
`SetLimit` is the administrator. A session that has loaded the quota keeps what
it loaded, so the limit a dispatcher goes by may be the one from before its wait:
`BatchFits` says that it fits that one.

What this says of `Reserve` in `CreationScheduler`: between pick and commit the
order in line may change (a task is resumed), the limit of slots cannot be
exceeded by dispatchers. A task whose `user_uuid` has no row in `users` is
dispatched without any lock; the theorem has that as its hypothesis.

### 2.5 OutlineGate

`outlines` are the rows, `plan` the outlines in the runtime state, `process[p].mem`
those an execution holds in memory.

| Code | Action |
|---|---|
| dispatch, reclaim, pause, resume, cancel, delivery, lost process, visibility timeout | `Dispatch`, `Reclaim`, `Pause`, `Resume`, `Cancel`, `Deliver`, `Crash`, `VisibilityTimeout` |
| `restore_segment_plan_outlines`, `_covers_outline_range` | `RestorePlan`, `TakeRows` |
| `run_volume_outlines`, batch by batch, `_harmonize_volume_outlines` | `BeginOutlines`, `ReuseBatch`, `MakeBatch`, `Harmonize` |
| `save_full_outlines`, `persist_resume_runtime_state` | `SaveOutlines` |
| `node_confirmation_gate` and its two loops | `Ask`, `PassGate`, `SeesRow`, `SeesDispatch` |
| `confirm_outline_generation` | `Confirm`, `ConfirmDispatch` |
| `node_volume_replan` | `Replan` |
| first chapter, end | `WriteChapter`, `End` |

### 2.6 ChapterDraft

`graph` is the state of the graph, `pc` its node. A text is a number, so that
what the progression memory holds can be compared with what is stored.

| Code | Action |
|---|---|
| `_rollback_progression_before_resume`, `node_load_context` | `Start`, `Load` |
| `node_consistency_check`, `outline_revise`, `node_save_blocked` | `CheckConsistency`, `ReviseOutline`, `SaveBlocked` |
| `node_refine_chapter_outline`, `node_beats`, `node_writer`, `node_review`, `_route_review`, `node_revise` | `RefineOutline`, `Beats`, `Write`, `ReviewDraft`, `RouteReview`, `Revise` |
| `node_cross_chapter_check`, `node_rollback_rerun` | `CrossCheck`, `Rerun` |
| `node_finalize` and its routes | `Commit`, `Finalize`, `ChapterDone`, `RerunsCommitted` |
| `node_tail_rewrite`, `node_closure_gate` | `TailRewrite`, `SegmentEnds` |
| lost worker, exception | `Stops` |

`Promotion` is the decision of `ProgressionPromotionService`, which promotes each
channel on its own; a merge may be lost while the memory of the chapter stays.

### 2.7 DraftReview

The ladder of `node_writer`: the same call again, the next output method, the
other variant, the next round, then the exception (`SameMethod`, `NextMethod`,
`OtherVariant`, `NextRound`, `WriterRaises`). Each reviewer: an answer, a
transient error, a malformed answer that is asked for again, an exception that
turns into an empty default (`ReviewerAnswers`, `Graded`, `TransientError`,
`AskAgain`, `ReviewerSkipped`, `CombinedFails`). `Consents`, `OverCorrects`,
`Reaches` and `Route` are the arithmetic of `build_review_gate` and
`_route_review`, in percent. `Read` has the rule that a score of zero counts as a
missing one. Reviewers share nothing and are asked in sequence.

### 2.8 StoryMemory

Every kind of memory is rows that name a chapter and the text they were made of.
`LoadContext` is what `build_chapter_context` shows to the writer, `Commit` with
`StoryBibleHandler`, `ProgressionHandler`, `QualityReportHandler`, `Extract` and
`LongformArtifacts` what `node_finalize` writes, in its transactions and in its
order; `Start`, `Rerun`, `TailRewrite` and `Blocked` are what replaces or forgets.
`Crash` may come between any two. `basis[c]` is a history variable: the ending
the writer of `c` was shown.

### 2.9 RewriteRequests

| Code | Action |
|---|---|
| dispatch, reclaim, delivery, lost process, visibility timeout | `Dispatch`, `Reclaim`, `Deliver`, `Crash`, `VisibilityTimeout` |
| `submit_rewrite_task` up to its loop | `LeavesSuperseded`, `StartRefused`, `Activate`, `Begin` |
| a chapter | `Check`, `WriteChapter`, `Fails`, `Mark` |
| end, exception, report to the scheduler | `Finish`, `Handler`, `Report` |
| routes | `Pause`, `Cancel`, `Resume` and `Resubmit` (both halves of `retry_rewrite_request`), `ActivateVersion` |

### 2.10 StoryboardRuns, MCStoryboardRuns

Three rows tell of a lane, its creation task (`job`, an instance of `JobQueue`),
the `lane` and the `version`, and three transactions write them.

| Code | Action |
|---|---|
| `build_source_snapshot`, `run_preflight` | `Preflight` |
| `start_storyboard_run`, in one step or past its guards | `StartRun`, `ReadStart` and `CommitStart` |
| `refresh_run_status` on a poll or a stream | `Poll` |
| `run_action` | `PauseRun`, `ResumeRun`, `CancelRun` |
| scheduler and broker | `Dispatch`, `Reclaim`, `Deliver`, `Crash`, `VisibilityTimeout` |
| `run_storyboard_lane` | `Activate`, `Begin`, `Draft`, `DraftFails`, `StyleGateFails`, `StyleGatePasses`, `Save`, `LaneException`, `Finalize` |
| `finalize_storyboard_version` | `FinalizeVersion` |

### 2.11 StoryboardVersions

Shots, cards and prompts are values that stand for "this text and no other".
`DrawLane`, `GateFails`, `DrawLegacy` make a version; `WriteShots`, `UpdateCard`,
`RegenerateCharacters`, `BackfillCards`, `SetDefaultVersion`, `ActivateVersion`
and `FinalizeVersion` (or `ReadFinalize`, `CommitFinalize`) are the routes.
`CreateExport` publishes the message before `CommitExport`; `ExportReturns`,
`ExportStarts`, `ExportEnds` are `run_storyboard_export`, `ExportCrash` and
`ExportRedelivered` the broker, which may hold several copies of one message.

### 2.12 StoryboardPipeline

One task goes through all versions chapter by chapter; `units` are its
checkpoints. A session refreshes its copy of the row only after a commit and
writes only what differs from what it loaded, so each process carries what it
has `seen`. `Activate`, `Begin`, `StartVersion`, `NextChapter`, `SaveChapter`,
`VersionEnds`, `GateFails`, `StyleGatePasses`, `CompleteVersion`, `Complete`,
`Handler` and `Finalize` follow `run_storyboard_pipeline`; `StayPaused` and
`SeeCancelled` are its polls; `Pause`, `Resume`, `Cancel`, `Retry` the routes.

### 2.13 The services

`ModelCalls`: `Select` and `GiveUp` are one step under the lock of the breaker,
as is each record of an outcome (`Succeed`, `Fail`); `Cooldown` is time.
Selection excludes the endpoints a call has tried.

`FlagRollout`: `Evaluate` reads and decides, `CommitDecision` writes the columns
that changed, `PushToFlag` or `PushFails` carries the outcome to the flag;
`SyncReads` and `SyncWrites` push the registry file over it; `Load`, `Store` and
`Expire` are the cached reader.

`RuntimeSettings`: `Put` commits, `Invalidate` clears the caches of the API in
four assignments; a reader goes through `CheckCache`, `StoreValue`, `StoreTime`
and `Use`, with other threads in between.

`TokenAccounting`: `BeginSession` starts at the total of the row, `CallModel`
counts, `Report` raises the row's total, `Charge` or `ChargeFails` writes the
ledger, `Settle` overwrites the totals, whoever owns the row by then.

`StatusMirror`: a publisher commits, reads the row again (`RefreshRow`) and
writes Redis (`WriteSnapshot`); the worker announces its chapters (`Callback`,
`NextChapter`, `Announce`, `SetStatus`); a stream reads the row, then the key, and
emits the merge (`ReadRow`, `Emit`).

## 3. Runs

Symmetry is over processes and dispatch ids only, in runs without liveness.
Deadlock is not checked: every one of these systems stops when its tasks are over
or its bounded events are used up, and the program then waits for requests.

| Run | Instance | Shows |
|---|---|---|
| `scheduler` | 2 tasks of one user (a novel and a storyboard lane), limit 1, 1 process, 2 ids, 1 recovery, gaps closed | `SlotLimit`, `BoundWhileActive`, `ParkedStaysParked`, `TerminalFinal`, `IsJobQueue` |
| `scheduler_races` | 1 task, 2 processes, 2 ids, 1 retry, 1 recovery, 1 open control request, gaps open | `TypeOK`, `ActiveIsLeased` |
| `scheduler_live` | 1 task, 1 process, 2 ids, 1 recovery, 1 open control request, gaps open, fairness | `Settles`, `StopReachesWorker` |
| `book` | 14 chapters, give or take 1, one volume, blocking gate on, any 2 of four faults | `NoGaps`, `ResumeLosesNothing`, `LongEnough`, `SegmentEnds`, `CompletesUnlessParked` |
| `volume_loop` | finding: 4 chapters in volumes of 2, no fault | the last chapter of a volume is written for ever (`Completes`) |
| `outline` | segment of 2 in a book of 3, batches of 1, 2 processes, 3 ids, 2 events | `EveryChapterPlanned`, `OwnerGetsThrough` |
| `chapter` | 3 chapters; 1 retry, revision and tail rewrite, 2 faults; 6 texts, 1 crash; 3 output methods, 2 rounds of every retry | `MemoryFollowsText`, `ArcFollowsMemory`, `CommittedTogether`, `SegmentHangsTogether`, `SkippedNeverConsents`, `SegmentIsLeft` |
| `executors` | rewriting of chapters 2 to 4, 2 tasks, 2 processes, 3 ids, 1 event; pipeline with 2 lanes of 2 chapters, 2 processes, 2 ids, 2 events; 3 tasks of one user, one of them over budget, 2 dispatchers, limits 1 and 2 | `CompletedIsRewritten`, `CheckpointHasShots`, `JobTellsVersions`, `BatchFits`, `RewriteIsReached`, `SlotComesBack` |
| `storyboard` | 1 run of one lane with 3 events or two with 2, 2 processes, 2 ids | `LaneTellsVersion`, `CancelledRunIsOver` |
| `storyboard_live` | 1 lane, 2 processes, 2 events, 1 open start request, a client that polls | `RunSettles` |
| `storyboard_versions` | 2 versions, one of the older pipeline, 1 export, 1 open finalization, 2 contents, 2 events | `CardsMatchPrompts`, `ExportSettles` |
| `services` | 2 calls, thresholds of 2; 1 watchdog and reader, 3 writes of the flag; 1 administrator, API thread and worker, 1 write; 2 dispatches, 3 tokens, 3 events; 1 publisher and stream, 2 chapters, 2 events | `ServicesTypeOK`, `HalfOpenIsProbed`, `NothingIsInvented`, `ShowsReachedChapter`, `ReadersCatchUp`, `SettingsCatchUp`, `RunningIsShown` |

**Why the bounds are enough.** Two tasks and a limit of one are the smallest
contended queue: the batch, the order, a slot freed and given away while its old
worker or message is still around. The old worker and the new one may then be
the same process at different times or, in `scheduler_races`, two processes at
once, on one row. Two ids let an old dispatch coexist with a new one; an id
returns to the pool only when no row, message, process or request refers to it.
One recovery reaches both branches of the recovery counter. The messages of one
id form a set, so a third copy of a message adds nothing to two.

For `book`, a target of 14 is the smallest whose window of closing
(0.15 of the book, two chapters) is wider than its flexibility (0.1, one
chapter), so that the minimum length and the phase of the book are both needed
and a wrong one of either shows; below it one guard hides the other. Two faults
give each pair of a lost write and the crash or stop that makes it matter. The
volume is longer than the book because of `volume_loop`: with a second volume no
execution of the code ends, and the liveness properties would show nothing else.

In the other runs, two chapters, lanes or versions give a first one that is done
and a next one that is not, three chapters of a segment one in the middle; two
processes and two events (or one of each kind) give an old execution that goes on
beside the one that replaced it; two of every retry budget give an attempt after
a failed one and an exhausted budget. Thresholds of two tell the first failure
from the one that opens. Two runs of one storyboard project at once are beyond
TLC's reach; the theorems cover any number of runs and racing requests. Where a
safety property is proved, its run is a guard against a mistake in the statement,
not the evidence.

## 4. Fairness

`CreationScheduler`: `Fairness` assumes what the schedule of `celery_app.py` and
the broker provide: the ticks run again and again (`Reserve`, `Reclaim` weakly
fair); an unrefreshed lease runs out; an open request commits; an executor's check
is made; and, strongly, what can be interrupted by crashes but is tried again each
time: publish, delivery, activation, the end of the pipeline and finalization.
Strong fairness excludes an executor that crashes at every attempt. The code does
not end such a loop: a process lost within its lease is redelivered without raising
`recovery_count`. The pipeline is assumed to end only for rows nobody wants to
stop, so that `StopReachesWorker` cannot be won by waiting for it. Liveness is
checked with one task. With two, a user who pauses and resumes the first task for
ever starves the second, and so the property is about the scheduler's own steps,
not about users.

`BookGeneration`: an execution goes on until it stops and an active task gets one
(what `Settles` shows of the scheduler), and an owner resumes a parked task. Faults
are bounded, not fair. `GateRelents` is an assumption of the two properties that
speak of completion, not of the code: a gate that can close the book again and
again does so once. Without it the book may be rewritten for ever, since each
execution of the graph has its two tail rewrites again. `SegmentEnds` does without.

The other modules assume the same of what they share with the scheduler, weak
fairness of dispatch, of the reclaim of a lost row, of delivery and of each
process's own steps, and beside it:

- `OutlineGate`: the user confirms what is asked and resumes what is paused.
  `OwnerGetsThrough` holds for behaviours in which no process is left behind for
  ever in the gate by a row that was taken from it (section 6).
- `RewriteRequests`: the user resumes or submits again what stopped, and cancels
  what is stuck. `RewriteIsReached` needs to assume that again and again only one
  process has the rewriting: two of them can reset each other's progress for ever.
- `StoryboardRuns`: for `RunSettles`, a client that polls (`PolledSpec`), since
  nothing else derives the status of a run.
- `StoryboardVersions`: the request that published an export commits, and the
  export worker starts and ends.
- `ChapterDraft`: the graph takes its next step (`GraphNext`).
- `ModelCalls`: a call goes on, the cooldown passes. `FlagRollout`,
  `RuntimeSettings`: caches expire, threads go on. `StatusMirror`: dispatcher,
  worker, publishers and streams go on.

## 5. Proofs

Every safety property of a passing run (invariant, action property, refinement)
is a theorem, for all constants that satisfy the assumption named. The proofs are
hierarchical, one lemma per action or per part of the next-state relation.

| Module | Theorem: property | Assumption on constants |
|---|---|---|
| `CreationSchedulerProofs` | `TypeCorrect`: `TypeOK`; `AlwaysRecoverable`: `ActiveIsLeased`; `SlotsBounded`: `SlotLimit`; `WorkersAreBound`: `BoundWhileActive`; `ParkedRowsStay`: `ParkedStaysParked`; `EndIsFinal`: `TerminalFinal`; `ImplementsJobQueue`: `IsJobQueue` | `ConstantsAssumption` |
| same | `BatchesFit`: `BatchFits` | `LockAssumption` |
| `BookGenerationProofs` | `BookTypes`: `TypeOK`; `BookHasNoGaps`: `NoGaps`; `ResumeIsSafe`: `ResumeLosesNothing`; `CompletedIsLongEnough`: `LongEnough` | `BookAssumption` |
| `OutlineGateProofs` | `OutlineTypes`: `TypeOK`; `EveryChapterIsPlanned`: `EveryChapterPlanned` | `OutlineAssumption` |
| `ChapterProofs` | `DraftTypes`: `TypeOK`; `MemoryIsOfText`: `MemoryFollowsText`; `ArcIsMerge`: `ArcFollowsMemory` | `DraftAssumption` |
| same | `ChaptersAreCommitted`: `CommittedTogether`; `SegmentsHangTogether`: `SegmentHangsTogether`; `ConsentIsInformed`: `SkippedNeverConsents` | `DraftAssumption`, `ChapterAssumption` |
| `ExecutorsProofs` | `RewriteTypes`: `TypeOK`; `RewriteIsWhole`: `CompletedIsRewritten` | `RewriteAssumption` |
| same | `CheckpointsHaveShots`: `CheckpointHasShots`; `JobsTellVersions`: `JobTellsVersions` | `ExecutorsAssumption` |
| `StoryboardRunsProofs` | `StoryboardTypes`: `TypeOK`; `LanesTellVersions`: `LaneTellsVersion`; `CancelledRunsAreOver`: `CancelledRunIsOver` | `StoryboardAssumption` |
| `StoryboardVersionsProofs` | `VersionTypes`: `TypeOK`; `CardsAndPrompts`: `CardsMatchPrompts` | `VersionsAssumption` |
| `ServicesProofs` | `BreakerTypes`: `TypeOK`; `ProbeIsKept`: `HalfOpenIsProbed` | `ModelCallsAssumption` |
| same | `ServiceTypes`: `ServicesTypeOK`; `TokensAreUsed`: `NothingIsInvented`; `StreamsShowReached`: `ShowsReachedChapter` | `ModelCallsAssumption`, `ServicesAssumption` |

The assumptions are types of the constants, with these exceptions, which the code
justifies. `Rank` is injective (the order ends with the row's id). A segment ends
within the book. A foreshadowing is paid off no earlier than it is planted (the
story plan says so; nothing in the code would notice otherwise). Confidences are
between 0 and 100 (`agents.py:1660`, `1745`, `1790`, `1854`, `1935` and
`heuristics.py:141` clamp them).

Three hypotheses are about behaviour and not about types. `OpenWindows = {}` in
`WorkersAreBound`, `EndIsFinal` and `ImplementsJobQueue`, and
`"activation" \notin OpenWindows` in `SlotsBounded` and `ParkedRowsStay`: the code
has both gaps, and with them the properties fail (section 6); the theorems say
that the gaps are all that is wrong. `HasAccount` in `BatchesFit`.

### 5.1 Arguments

**Scheduler.** `TypeOK` with `ActiveIsLeased` is inductive; what matters is
`CommitControl`: a request clears the lease only if it also leaves the active
statuses. `SlotLimit` needs that no process is between the halves of an activation
(`NoneActivating`); `OnlyReserveTakes` shows that every other step leaves the slots
of each user no more, `BatchBounded` counts the batch by an injection of its tasks
into their places in line. `BoundWhileActive` needs `NoCalls` too, and that only a
reservation binds. The refinement maps each row by `PhaseOf`: `Moves` relates the
phases a step may join, `RowStepRefines` takes the steps of one row, `ReserveTakes`
shows that what `Reserve` takes is a prefix of the waiting line, for which ranks
must be injective and the batch finite.

**Dispatch.** `LockInv`: types, the quota row is there once somebody waits for it or
has it, and `Fits`, that what has been picked with the slots counted is within the
limit as long as the lock is held. Two transactions never count at once.

**Book.** None of the three properties is inductive: each step trusts what another
part of the program left behind. `BookInv` says what. `StoredInv`: the chapters
before the persisted position are written, or the mode says that the segments are
over and the book is long enough; a task without a position has done nothing.
`ExecutorInv`: the same of the executor's variables while it decides, and enough
chapters wherever completion is the next thing. `GraphInv`: the chapters before the
current one are written, and the current one too between its commit and the
advance. `PersistStep` is the argument about failed writes; `GateStep` reduces the
decisions of the gate to it; `StopStep` shows that no stop or resume touches mode
or position.

**Outlines.** `PlanInv`: for each place of an execution, what of the segment its
memory holds (`Safe`). A plan that is taken from the runtime state or from the rows
is complete; batches that are being made are complete below the one in hand; and no
step of another process reaches into the memory of this one.

**Chapters.** `DraftInv`: types, bounds of the counters, `NothingAhead` (nothing is
stored or remembered beyond the current chapter) and `Remembers` (what is
remembered is of the stored text, and the arc is the merge of what is
remembered). The steps that matter are `Rollback`, which forgets from a chapter on
before it is written again, and the commit of text and memory in one transaction.
`MemoryInv` adds to the types `Together` (the summary, the events, the report and
the progression of the last text of a chapter are there with it), `Places` (where
the execution may be) and `Hangs` (the ending that the writer of a chapter was
shown is that of the text before it, as long as nothing replaced that text; what
does replace it starts over from there). `ReviewInv`: every reviewer that was
skipped has cost the sum of confidences 70 (`Doubts`: confidence plus 70 times the
skipped is at most 100 times the calls), and two of four are too much for consent.

**Rewriting.** `RewriteInv`: whichever process writes at chapter `c` has the target
rewritten up to `c`; the units and the position of the request and of each task
have too. Rewritten chapters stay so, hence no superseded process disturbs
another; completing is the end of one that came past `Last`.

**Storyboards.** `RunInv`: types, rows of a run are made together, a lane says
completed only of a drawn version and a process that will say so has drawn it, and
a run is cancelled only when the tasks of its lanes are over. `BoardInv`: the
versions before the one a process draws are drawn, what it skips has shots, it
reaches gate and composition only when the version is whole, and its end only when
all are drawn; the first undrawn version is the minimum of a well-founded order.
`VersionInv`: exports count their copies and name existing versions; cards equal
prompts unless the version is one of the older pipeline.

**Services.** `ProbeInv` is type and property together. `TokenInv` is inductive with
its types: a session's count was used, and total and ledger are some session's
count. `StatusInv`: what the row, the Redis key, a publisher's snapshot, the worker
and a stream hold of a chapter is at most the chapter that the row has reached, and
the row only goes on (`StaysReached`); completed means past the book; so a late
snapshot can be old and never ahead.

### 5.2 Model-checked only

Liveness under fairness (`Settles`, `StopReachesWorker`, `SegmentEnds`,
`CompletesUnlessParked`, `OwnerGetsThrough`, `SegmentIsLeft`, `RewriteIsReached`,
`SlotComesBack`, `RunSettles`, `ExportSettles`, `ReadersCatchUp`, `SettingsCatchUp`,
`RunningIsShown`): the prover has no `ENABLED`, so the conditions of fairness cannot
be discharged. `Completes` is refuted by `volume_loop`.

## 6. Not modelled, and where code and documents disagree

Not modelled: what prompts, embeddings, rankings and scores say (a free choice);
accounts, tokens and roles; the frontend, migrations and deployment; the
bucketing of novels by a flag; the formats of an export; `retry_generation`, which
makes a second task out of the cursor of the first; the length of a book over
restarts (each execution has all attempts of the gate again, so the maximum holds
within one execution only, and nothing claims more).

What the models say of the code, beside the one finding that is a run
(`volume_loop`). File and line are of `src/app/`.

**Scheduler.** With the gaps open, a result of a worker that lost its row finalizes
it (`scheduler_service.py:324`), a pause read before completion overwrites
`completed` (`:389`), an activation decided on a stale read exceeds the limit
(`:163`), and a row can hold a slot without a lease (`:543`). A row over its budget
stays first in line and blocks the queue and, in the same tick, the users after it
(`:705`). The guard of a submission does not count paused tasks, so a submission
between a pause and a resume gives two active tasks on one novel.

**Book.** A stop after the last chapter cannot be resumed (`nodes/finalize.py:146`); a
restart skips the final review (`generation.py:1124`). `retry_generation` without an
id, after a cancellation, computes its range from the task and overshoots the book;
after an early close, a cancellation during the review makes the retry by id start
past a chapter that was never written.

**Outlines.** A process whose row was paused or taken waits in the gate for ever
(`scheduler_service.py:406` only changes the row). A confirmation that races with a
new dispatch confirms the row of the old one.

**Chapters.** `consistency_revise_attempts` is never reset; `GenerationState` does
not declare `progression_score`, so the graph drops it; cross-chapter checks return
nothing on failure. All reviewers failing passes the draft (0.75 and 0.8 are above
0.7), though with separate reviewers the gate refuses its consent; a combined
reviewer that fails gets it. A score of zero is read as 0.75 and a confidence of
zero as 0.6 or 0.75 (`or`).

**Memory.** Entity states, relations and vectors carry no chapter, so a rewritten
chapter is shown what came after it; events of replaced texts stay, and are counted
in volume reports; a foreshadowing that was paid off in a text that is replaced is
not reopened unless it is planned again; a blocked chapter keeps its earlier
summary. Two processes or an edit by the user break continuity.

**Rewriting.** A retry with nothing left to do completes the task and leaves request
and version running; a second delivery of a completed or requeued message marks
both failed; handler and finalization ask for no owner, so two processes can undo
each other's progress; a task that fails at the recovery limit leaves its request
running, which a retry refuses with 409; a cancellation in the last chapter still
shows the target; two concurrent `activate_version` leave two defaults.

**Storyboards.** A second delivery of a completed lane marks it failed
(`docs/interview-prep-architecture-qa.md:110`); `_refresh_run_after_lane` only
flushes, and its work is rolled back (`tasks/storyboard.py:846`); a run with
completed and cancelled lanes is running for ever; the recovery limit leaves a lane
running; an export publishes before it commits, and a fast worker finds no row
(`storyboards.py:1615`); edits in flight change a final version; the older pipeline
loops on a pause in a stale process, which keeps its slot
(`tasks/storyboard.py:325`).

**Services.** The docstring of the breaker has the primary selected when all are
open, the code selects a fallback; fallbacks are never half-open;
`half_open_probe_ratio` is not used. A canary of 10 % writes `enabled=True`, which is
on for everyone (`promotion_engine.py:359`; `docs/agent-engineering-roadmap.md:55`);
a failed write of the flag is not tried again; a stale promotion undoes a rollback.
A thread that clears a settings cache between check and use makes the reader get
None or fall back to the environment. A task that failed and was resumed is charged
twice, one that was paused or cancelled never; a stale completion overwrites the
totals. A late snapshot says "queued" with a run state of "paused".

**Accounts.** A confirmation can overwrite a concurrent disabling, a one-time token
be used twice, a failed login be lost from the count, two first users both become
administrators.

## 7. Plan

Done: every component above that keeps state of a long task, with a theorem for
every safety property. Next:

1. Relations between modules as theorems: the job of `StoryboardPipeline`, the task
   of `RewriteRequests` and the row of `OutlineGate` move as `JobQueue` lets them;
   `DispatchLock` implements `Reserve` where the lock is held.
2. The types of `StoryboardPipeline`, `StoryMemory` and `DraftReview` as theorems of
   their own (their invariants contain them).
3. `retry_generation` and the chain of tasks of one book.
4. The bound of a segment's length within one execution of `BookGeneration`.

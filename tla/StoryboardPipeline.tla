------------------------- MODULE StoryboardPipeline -------------------------
(***************************************************************************)
(* The older way to draw a storyboard: one creation task goes through all  *)
(* versions of a project chapter by chapter (run_storyboard_pipeline).     *)
(*                                                                         *)
(* Each chapter is committed with a checkpoint, so that a process that     *)
(* takes over skips it.  Pause and cancellation are written twice, to the  *)
(* creation task (job) and to the storyboard_tasks row (task).  A process  *)
(* reads the second from its session, which refreshes the row only after a *)
(* commit, and which writes only what differs from what it has loaded.     *)
(***************************************************************************)
EXTENDS Naturals, FiniteSets

CONSTANTS
  Lanes,       \* number of versions, one for each lane
  Chapters,    \* chapters of the novel version
  Workers,     \* Celery processes
  Ids, NoId,   \* worker_task_id values, and NULL
  MaxEvents    \* bound on the user's commands and the faults

VARIABLES
  task,      \* storyboard_tasks.run_state
  job,       \* the creation task's phase in the queue
  holder,    \* creation_tasks.worker_task_id
  version,   \* storyboard_versions.status
  shots,     \* for each version, the chapters that have shots
  prompts,   \* the versions with character prompts
  units,     \* checkpoints: for each version's lane, the completed chapters
  worker,    \* what each process is doing
  events

drawn == <<version, shots, prompts, units>>
vars == <<task, job, holder, version, shots, prompts, units, worker, events>>

LaneVersions == 1..Lanes
Chapter == 1..Chapters

Queue == INSTANCE JobPhases WITH phase <- job, Tasks <- {"task"}

Over == {"completed", "failed", "cancelled"}
TaskState == {"submitted", "queued", "running", "paused"} \cup Over

VersionStatus == {"generating", "completed", "failed"}

\* at: the version it draws; done: chapters it does not draw again; loaded and was:
\* the run_state and the version's status in its session; end: what it will report.
Idle == [pc |-> "idle"]
Execution == [pc: {"start", "begin", "version", "chapter", "draw", "gate", "compose",
                   "end", "leave", "finalize"},
              id: Ids, at: LaneVersions, done: SUBSET Chapter,
              loaded: TaskState \cup {"expired"}, was: VersionStatus \cup {"none"},
              end: Over \cup {"paused", "none"}]

TypeOK ==
  /\ task \in TaskState
  /\ job \in [{"task"} -> Queue!Phase]
  /\ holder \in Ids \cup {NoId}
  /\ version \in [LaneVersions -> VersionStatus]
  /\ shots \in [LaneVersions -> SUBSET Chapter]
  /\ prompts \subseteq LaneVersions
  /\ units \in [LaneVersions -> SUBSET Chapter]
  /\ worker \in [Workers -> Execution \cup {Idle}]
  /\ events \in 0..MaxEvents

\* The request to generate has created the versions, the task and its job.
Init ==
  /\ task = "submitted"
  /\ job = [t \in {"task"} |-> "waiting"]
  /\ holder = NoId
  /\ version = [v \in LaneVersions |-> "generating"]
  /\ shots = [v \in LaneVersions |-> {}]
  /\ prompts = {}
  /\ units = [v \in LaneVersions |-> {}]
  /\ worker = [w \in Workers |-> Idle]
  /\ events = 0

Phase == job["task"]
Move(from, to) == Queue!Move("task", from, to)
Event == events < MaxEvents /\ events' = events + 1

-----------------------------------------------------------------------------
(* The user's commands.                                                    *)

Pause ==
  /\ task \in {"running", "submitted"}
  /\ Move({"waiting", "held"}, {"suspended"})
  /\ holder' = NoId
  /\ task' = "paused"
  /\ Event
  /\ UNCHANGED <<drawn, worker>>

Resume ==
  /\ task = "paused"
  /\ Move({"suspended", "failed"}, {"waiting"})
  /\ holder' = NoId
  /\ task' = "queued"
  /\ Event
  /\ UNCHANGED <<drawn, worker>>

\* cancel_task returns a task that is over as it is.  The revoke kills the
\* process, or it does not.
Cancel ==
  /\ task \notin Over
  /\ IF Phase \in Over THEN UNCHANGED <<job, holder, worker>>
     ELSE /\ Move({"waiting", "held", "suspended"}, {"cancelled"})
          /\ holder' = NoId
          /\ \/ UNCHANGED worker
             \/ worker' = [w \in Workers |->
                  IF worker[w] # Idle /\ worker[w].id = holder THEN Idle ELSE worker[w]]
  /\ task' = "cancelled"
  /\ Event
  /\ UNCHANGED drawn

\* A creation task that failed is resumed.  (Otherwise new versions are created
\* for a new one.)
Retry ==
  /\ task \in Over
  /\ Move({"suspended", "failed"}, {"waiting"})
  /\ holder' = NoId
  /\ task' = "submitted"
  /\ Event
  /\ UNCHANGED <<drawn, worker>>

-----------------------------------------------------------------------------
(* The queue and the broker.                                               *)

Started(id) == [pc |-> "start", id |-> id, at |-> 1, done |-> {}, loaded |-> "expired",
                was |-> "none", end |-> "none"]
UsedIds == {holder} \cup {worker[w].id : w \in {x \in Workers : worker[x] # Idle}}

\* The message gets to a process, or is lost.
Dispatch ==
  \E id \in Ids \ UsedIds :
    /\ Move({"waiting"}, {"held"})
    /\ holder' = id
    /\ \/ /\ \E w \in Workers : worker[w] = Idle /\ worker' = [worker EXCEPT ![w] = Started(id)]
          /\ UNCHANGED events
       \/ Event /\ UNCHANGED worker
    /\ UNCHANGED <<task, drawn>>

Lost == holder # NoId /\ \A w \in Workers : worker[w] # Idle => worker[w].id # holder

\* The recovery tick: a lease that ran out, also under a process that is only slow.
Reclaim ==
  /\ Move({"held"}, {"waiting", "failed"})
  /\ holder' = NoId
  /\ IF Lost /\ Phase' = "waiting" THEN UNCHANGED events ELSE Event
  /\ UNCHANGED <<task, drawn, worker>>

\* The message of a lost process is delivered again.
Crash(w) ==
  /\ worker[w] # Idle
  /\ worker' = [worker EXCEPT ![w] = Started(@.id)]
  /\ Event
  /\ UNCHANGED <<task, job, holder, drawn>>

\* So is that of a process slower than the visibility timeout.
Redeliver(w) ==
  \E x \in Workers :
    /\ worker[x] # Idle /\ worker[w] = Idle
    /\ worker' = [worker EXCEPT ![w] = Started(worker[x].id)]
    /\ Event
    /\ UNCHANGED <<task, job, holder, drawn>>

-----------------------------------------------------------------------------
(* run_storyboard_pipeline.                                                *)

At(w, pc) == worker[w].pc = pc
Leaving(w, pc, end) ==
  worker' = [worker EXCEPT ![w].pc = pc, ![w].end = end, ![w].done = {},
                           ![w].loaded = "expired", ![w].was = "none"]
Leave(w, end) == Leaving(w, "leave", end)
Exit(w) == worker' = [worker EXCEPT ![w] = Idle]

\* What the session writes for run_state s, and what it has loaded once the task
\* is published after the commit.
Written(w, s) == IF worker[w].loaded = s THEN task ELSE s
Goto(w, pc, loaded) == worker' = [worker EXCEPT ![w].pc = pc, ![w].loaded = loaded]

Superseded(w) == holder \notin {NoId, worker[w].id}

\* Nothing has been written so far: a superseded process just goes away.
Activate(w) ==
  /\ At(w, "start")
  /\ IF Superseded(w) THEN Exit(w)
     ELSE IF Phase = "cancelled" THEN Leave(w, "cancelled")
     ELSE IF Phase = "suspended" THEN Leave(w, "paused")
     ELSE IF Phase # "held" THEN Leave(w, "failed")
     ELSE Goto(w, "begin", task)
  /\ UNCHANGED <<task, job, holder, drawn, events>>

\* The novel, its chapters or the versions are gone, or the model does not answer.
Fails(w) ==
  /\ worker[w].pc \in {"begin", "draw", "gate", "compose"}
  /\ Leave(w, "failed")
  /\ UNCHANGED <<task, job, holder, drawn, events>>

Begin(w) ==
  /\ At(w, "begin")
  /\ task' = Written(w, "running")
  /\ Goto(w, "version", task')
  /\ UNCHANGED <<job, holder, drawn, events>>

\* Waiting for a resume, in the process: the row is loaded after each commit.
StayPaused(w) ==
  /\ At(w, "version") /\ worker[w].loaded = "paused"
  /\ Goto(w, "version", task)
  /\ UNCHANGED <<task, job, holder, drawn, events>>

SeeCancelled(w) ==
  /\ At(w, "version") /\ worker[w].loaded = "cancelled"
  /\ version' = [v \in LaneVersions |-> "failed"]
  /\ Leaving(w, "finalize", "cancelled")
  /\ UNCHANGED <<task, job, holder, shots, prompts, units, events>>

\* Mutant of StartVersion: a checkpoint of any version will do.
StartVersionAnyLane(w) ==
  /\ At(w, "version") /\ worker[w].loaded \notin {"paused", "cancelled"}
  /\ task' = Written(w, "running")
  /\ worker' = [worker EXCEPT ![w].pc = "chapter", ![w].loaded = task',
                              ![w].done = UNION {units[v] : v \in LaneVersions}]
  /\ UNCHANGED <<job, holder, drawn, events>>

\* get_completed_units: the chapters that need not be drawn.
Completed(v) == units[v]

StartVersion(w) ==
  /\ At(w, "version") /\ worker[w].loaded \notin {"paused", "cancelled"}
  /\ task' = Written(w, "running")
  /\ worker' = [worker EXCEPT ![w].pc = "chapter", ![w].loaded = task',
                              ![w].done = Completed(worker[w].at)]
  /\ UNCHANGED <<job, holder, drawn, events>>

\* Before each chapter the creation task is asked.
NextChapter(w) ==
  /\ At(w, "chapter")
  /\ IF worker[w].done = Chapter THEN Goto(w, "gate", worker[w].loaded)
     ELSE IF Superseded(w) THEN Exit(w)
     ELSE IF Phase = "cancelled" THEN Leave(w, "cancelled")
     ELSE IF Phase = "suspended" THEN Leave(w, "paused")
     ELSE Goto(w, "draw", worker[w].loaded)
  /\ UNCHANGED <<task, job, holder, drawn, events>>

Drawing(w) == CHOOSE c \in Chapter \ worker[w].done :
                \A d \in Chapter \ worker[w].done : c <= d

\* persist_episode_shots replaces the shots of one chapter.
Shots(v, c) == [shots EXCEPT ![v] = @ \cup {c}]

\* mark_unit_completed, of a version's partition.
Marked(v, c) == units' = [units EXCEPT ![v] = @ \cup {c}]

\* Mutant of SaveChapter: the checkpoint is committed first.
CheckpointFirst(w) ==
  LET v == worker[w].at  c == Drawing(w) IN
  /\ At(w, "draw")
  /\ Marked(v, c)
  /\ shots' = IF c \in units[v] THEN Shots(v, c) ELSE shots
  /\ worker' = IF c \in units[v]
               THEN [worker EXCEPT ![w].pc = "chapter", ![w].loaded = "expired",
                                   ![w].done = @ \cup {c}]
               ELSE worker
  /\ UNCHANGED <<task, job, holder, version, prompts, events>>

\* The shots of the chapter and its checkpoint, in one commit.
SaveChapter(w) ==
  LET v == worker[w].at  c == Drawing(w) IN
  /\ At(w, "draw")
  /\ shots' = Shots(v, c)
  /\ Marked(v, c)
  /\ worker' = [worker EXCEPT ![w].pc = "chapter", ![w].loaded = "expired",
                              ![w].done = @ \cup {c}]
  /\ UNCHANGED <<task, job, holder, version, prompts, events>>

VersionEnds(w, status) ==
  version' = [version EXCEPT ![worker[w].at] = IF worker[w].was = status THEN @ ELSE status]

\* Style gate and identity gate: version, task and the result to report.
GateFails(w) ==
  /\ At(w, "gate") \/ At(w, "compose")
  /\ VersionEnds(w, "failed")
  /\ task' = Written(w, "failed")
  /\ Leaving(w, "finalize", "failed")
  /\ UNCHANGED <<job, holder, shots, prompts, units, events>>

\* Then the prompts are composed: the version is loaded first.
StyleGatePasses(w) ==
  /\ At(w, "gate")
  /\ task' = Written(w, "running")
  /\ worker' = [worker EXCEPT ![w].pc = "compose", ![w].loaded = task',
                              ![w].was = version[worker[w].at]]
  /\ UNCHANGED <<job, holder, drawn, events>>

CompleteVersion(w) ==
  LET v == worker[w].at  last == v = Lanes IN
  /\ At(w, "compose")
  /\ prompts' = prompts \cup {v}
  /\ VersionEnds(w, "completed")
  /\ task' = Written(w, "running")
  /\ worker' = [worker EXCEPT ![w].pc = IF last THEN "end" ELSE "version",
                              ![w].at = IF last THEN v ELSE v + 1, ![w].done = {},
                              ![w].loaded = task', ![w].was = "none"]
  /\ UNCHANGED <<job, holder, shots, units, events>>

\* Nobody asks whether the task was paused or cancelled meanwhile.
Complete(w) ==
  /\ At(w, "end")
  /\ task' = Written(w, "completed")
  /\ Leaving(w, "finalize", "completed")
  /\ UNCHANGED <<job, holder, drawn, events>>

\* The exception handler: the row is loaded anew.
Handler(w) ==
  /\ At(w, "leave")
  /\ task' = worker[w].end
  /\ worker' = [worker EXCEPT ![w].pc = "finalize"]
  /\ UNCHANGED <<job, holder, drawn, events>>

\* _finalize_creation: taken from any process while the job is held.
Finalize(w) ==
  /\ At(w, "finalize")
  /\ IF Phase = "held"
     THEN /\ Move({"held"}, {IF worker[w].end = "paused" THEN "suspended" ELSE worker[w].end})
          /\ holder' = NoId
     ELSE UNCHANGED <<job, holder>>
  /\ Exit(w)
  /\ UNCHANGED <<task, drawn, events>>

-----------------------------------------------------------------------------
UserNext == Pause \/ Resume \/ Cancel \/ Retry

Works(w) ==
  \/ Activate(w) \/ Begin(w) \/ StayPaused(w) \/ SeeCancelled(w) \/ StartVersion(w)
  \/ NextChapter(w) \/ SaveChapter(w) \/ GateFails(w) \/ StyleGatePasses(w)
  \/ CompleteVersion(w) \/ Complete(w) \/ Handler(w) \/ Finalize(w)

Next ==
  \/ UserNext \/ Dispatch \/ Reclaim
  \/ \E w \in Workers : Crash(w) \/ Redeliver(w) \/ Fails(w) \/ Works(w)

Spec == Init /\ [][Next]_vars

-----------------------------------------------------------------------------
\* No chapter is skipped by a process that takes over: what a checkpoint says is
\* drawn has shots, however many processes draw the version at once
\* (get_completed_units, persist_episode_shots).
CheckpointHasShots == \A v \in LaneVersions : units[v] \subseteq shots[v]

\* A creation task that reports success has drawn every version to its end.
JobTellsVersions ==
  Phase = "completed" => \A v \in LaneVersions : shots[v] = Chapter /\ v \in prompts
=============================================================================

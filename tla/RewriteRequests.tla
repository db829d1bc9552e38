--------------------------- MODULE RewriteRequests ---------------------------
(***************************************************************************)
(* The rewriting of a novel from a chapter on.  A request has a target     *)
(* version, which inherits the chapters before, and creation tasks, one    *)
(* after another: a retry resumes one that failed or was paused, or makes  *)
(* a new one.  A process writes chapter after chapter into the target and  *)
(* in the end makes it the version that the novel shows.                   *)
(*                                                                         *)
(* The status of the request is a copy that processes and routes write.    *)
(***************************************************************************)
EXTENDS Naturals, FiniteSets

CONSTANTS
  From, Last,   \* rewrite_from_chapter, rewrite_to_chapter
  MaxTasks,     \* bound on the creation tasks of the request
  Processes,    \* Celery processes
  Ids, NoId,    \* worker_task_id values, and NULL
  MaxEvents     \* bound on requests of the user, faults and failures

ASSUME RewriteAssumption ==
  /\ {From, Last, MaxTasks} \subseteq Nat \ {0} /\ From <= Last
  /\ NoId \notin Ids /\ MaxEvents \in Nat

VARIABLES
  text,      \* chapter_versions of the target
  version,   \* novel_versions.status of the target
  shown,     \* the version whose is_default is set
  request,   \* rewrite_requests: status, current_chapter, the task it names
  job,       \* creation_tasks of the request, with their checkpoints
  msgs,      \* Celery messages: task and dispatch
  process,   \* what each process is doing
  events

vars == <<text, version, shown, request, job, msgs, process, events>>

Chapter == 1..Last
Task == 1..MaxTasks
Stop == {"failed", "paused", "cancelled"}
Terminal == {"completed", "failed", "cancelled"}

\* at: the chapter it writes; verdict: what it will report.
Idle == [pc |-> "idle"]
Execution == [pc: {"start", "begin", "run", "write", "mark", "finish", "handler", "report"},
              task: Task, id: Ids, at: Chapter, verdict: Stop \cup {"completed"}]

TypeOK ==
  /\ text \in [Chapter -> {"none", "inherited", "rewritten"}]
  /\ version \in {"draft", "generating", "completed", "failed"}
  /\ shown \in {"base", "target"}
  /\ request \in [status: {"queued", "running", "completed"} \cup Stop,
                  current: 0..Last, task: Task]
  /\ job \in [Task -> [status: {"absent", "queued", "held", "paused"} \cup Terminal,
                       owner: Ids \cup {NoId}, from: Chapter, done: 0..Last]]
  /\ msgs \subseteq Task \X Ids
  /\ process \in [Processes -> Execution \cup {Idle}]
  /\ events \in 0..MaxEvents

\* create_target_version: the base's chapters before the first annotated one.
TargetText == [c \in Chapter |-> IF c < From THEN "inherited" ELSE "none"]

\* create_rewrite_request has committed.
Init ==
  /\ text = TargetText
  /\ version = "draft"
  /\ shown = "base"
  /\ request = [status |-> "queued", current |-> 0, task |-> 1]
  /\ job = [t \in Task |-> [status |-> IF t = 1 THEN "queued" ELSE "absent",
                            owner |-> NoId, from |-> From, done |-> 0]]
  /\ msgs = {}
  /\ process = [p \in Processes |-> Idle]
  /\ events = 0

Event == events < MaxEvents /\ events' = events + 1
At(p, pc) == process[p].pc = pc
Working == {p \in Processes : ~At(p, "idle")}
Goto(p, pc) == process' = [process EXCEPT ![p].pc = pc]
Leave(p) == process' = [process EXCEPT ![p] = Idle]
Ends(p, verdict) == process' = [process EXCEPT ![p].pc = "handler", ![p].verdict = verdict]
Moved(t, to, owner) == [job EXCEPT ![t].status = to, ![t].owner = owner]

-----------------------------------------------------------------------------
(* The queue, as far as this request sees it.                              *)

UsedIds == {job[t].owner : t \in Task} \cup {m[2] : m \in msgs}
           \cup {process[p].id : p \in Working}

\* _prepare_worker_task_dispatch: the request follows its task, whatever it said.
Enqueued(t) == [request EXCEPT !.status = "queued", !.task = t]

Dispatch(t) ==
  /\ job[t].status = "queued" /\ Ids \ UsedIds # {}
  /\ LET id == CHOOSE i \in Ids : i \notin UsedIds IN
       /\ job' = Moved(t, "held", id)
       /\ \/ msgs' = msgs \cup {<<t, id>>} /\ UNCHANGED events
          \/ Event /\ UNCHANGED msgs
  /\ request' = Enqueued(t)
  /\ UNCHANGED <<text, version, shown, process>>

\* The thread of any process of the task refreshes its lease.
LeaseExpired(t) ==
  /\ \A m \in msgs : m[1] # t
  /\ \A p \in Working : process[p].task # t

\* Reclaimed to be dispatched again, or given up at the limit of recoveries.
Reclaim(t) ==
  /\ job[t].status = "held" /\ LeaseExpired(t)
  /\ \E to \in {"queued", "failed"} : job' = Moved(t, to, NoId)
  /\ UNCHANGED <<text, version, shown, request, msgs, process, events>>

\* A process takes a message; what it finds decides the rest.
Deliver(p) ==
  /\ At(p, "idle")
  /\ \E m \in msgs :
       /\ msgs' = msgs \ {m}
       /\ process' = [process EXCEPT ![p] = [pc |-> "start", task |-> m[1], id |-> m[2],
                                             at |-> From, verdict |-> "completed"]]
  /\ UNCHANGED <<text, version, shown, request, job, events>>

Redelivered(p) == msgs' = msgs \cup {<<process[p].task, process[p].id>>}

Crash(p) ==
  /\ ~At(p, "idle")
  /\ Redelivered(p) /\ Leave(p) /\ Event
  /\ UNCHANGED <<text, version, shown, request, job>>

VisibilityTimeout(p) ==
  /\ ~At(p, "idle")
  /\ Redelivered(p) /\ Event
  /\ UNCHANGED <<text, version, shown, request, job, process>>

-----------------------------------------------------------------------------
(* submit_rewrite_task.                                                    *)

Superseded(p) == job[process[p].task].owner \notin {NoId, process[p].id}

LeavesSuperseded(p) ==
  /\ process[p].pc \in {"start", "run"} /\ Superseded(p)
  /\ Leave(p)
  /\ UNCHANGED <<text, version, shown, request, job, msgs, events>>

\* The message of a task that is not active ends in the handler of exceptions.
StartRefused(p) ==
  LET status == job[process[p].task].status IN
  /\ At(p, "start") /\ ~Superseded(p)
  /\ status # "held"
  /\ Ends(p, IF status \in {"paused", "cancelled"} THEN status ELSE "failed")
  /\ UNCHANGED <<text, version, shown, request, job, msgs, events>>

ResumeAt(j) == IF j.done + 1 > j.from THEN j.done + 1 ELSE j.from

\* _activate_creation_task, then _resolve_rewrite_resume.  With no chapter left
\* the task is completed there and then, and the request is not.
Activate(p) ==
  LET t == process[p].task IN
  /\ At(p, "start") /\ job[t].status = "held" /\ ~Superseded(p)
  /\ IF ResumeAt(job[t]) > Last
     THEN job' = Moved(t, "completed", NoId) /\ Leave(p)
     ELSE /\ job' = Moved(t, "held", process[p].id)
          /\ process' = [process EXCEPT ![p].pc = "begin", ![p].at = ResumeAt(job[t])]
  /\ UNCHANGED <<text, version, shown, request, msgs, events>>

Begin(p) ==
  /\ At(p, "begin")
  /\ request' = [request EXCEPT !.status = "running"]
  /\ version' = "generating"
  /\ Goto(p, "run")
  /\ UNCHANGED <<text, shown, job, msgs, events>>

\* The checks before a chapter: a task that failed or ended is not noticed.
Check(p) ==
  LET status == job[process[p].task].status IN
  /\ At(p, "run") /\ ~Superseded(p)
  /\ IF status \in {"paused", "cancelled"} THEN Ends(p, status) ELSE Goto(p, "write")
  /\ UNCHANGED <<text, version, shown, request, job, msgs, events>>

\* The model answers, or the base chapter is taken; chapter and request are
\* committed together.
WriteChapter(p) ==
  /\ At(p, "write")
  /\ text' = [text EXCEPT ![process[p].at] = "rewritten"]
  /\ request' = [request EXCEPT !.current = process[p].at]
  /\ Goto(p, "mark")
  /\ UNCHANGED <<version, shown, job, msgs, events>>

\* The base chapter is missing, the model fails, another process inserts first.
Fails(p) ==
  /\ process[p].pc \in {"begin", "write"} /\ Event
  /\ Ends(p, "failed")
  /\ UNCHANGED <<text, version, shown, request, job, msgs>>

\* mark_unit_completed, get_last_completed_unit
LastDone(j, c) == IF c > j.done THEN c ELSE j.done

\* The checkpoint, in a transaction of its own.
Mark(p) ==
  LET t == process[p].task
      c == process[p].at IN
  /\ At(p, "mark")
  /\ job' = [job EXCEPT ![t].done = LastDone(job[t], c)]
  /\ process' = IF c = Last THEN [process EXCEPT ![p].pc = "finish"]
                ELSE [process EXCEPT ![p].pc = "run", ![p].at = c + 1]
  /\ UNCHANGED <<text, version, shown, request, msgs, events>>

Finish(p) ==
  /\ At(p, "finish")
  /\ request' = [request EXCEPT !.status = "completed"]
  /\ version' = "completed"
  /\ shown' = "target"
  /\ Goto(p, "report")
  /\ UNCHANGED <<text, job, msgs, events>>

\* The handler writes the request and the target whoever owns them by now.
Handler(p) ==
  /\ At(p, "handler")
  /\ request' = [request EXCEPT !.status = process[p].verdict]
  /\ version' = IF process[p].verdict = "paused" THEN version ELSE "failed"
  /\ Goto(p, "report")
  /\ UNCHANGED <<text, shown, job, msgs, events>>

\* finalize_task: only a task that is held takes the report.
Report(p) ==
  LET t == process[p].task IN
  /\ At(p, "report")
  /\ job' = IF job[t].status = "held" THEN Moved(t, process[p].verdict, NoId) ELSE job
  /\ Leave(p)
  /\ UNCHANGED <<text, version, shown, request, msgs, events>>

-----------------------------------------------------------------------------
(* The routes of the request.                                              *)

Pause ==
  /\ job[request.task].status \in {"queued", "held"} /\ Event
  /\ job' = Moved(request.task, "paused", NoId)
  /\ request' = [request EXCEPT !.status = "paused"]
  /\ UNCHANGED <<text, version, shown, msgs, process>>

\* terminate, which may fail: the process goes on.
Revoked(id) ==
  \/ process' = [p \in Processes |->
       IF p \in Working /\ process[p].id = id THEN Idle ELSE process[p]]
  \/ UNCHANGED process

\* Mutant of Cancel: a task that has ended cannot be cancelled.
CancelActive ==
  LET t == request.task IN
  /\ request.status \notin {"completed", "cancelled"} /\ job[t].status \notin Terminal
  /\ request' = [request EXCEPT !.status = "cancelled"]
  /\ job' = Moved(t, "cancelled", NoId) /\ Revoked(job[t].owner)
  /\ UNCHANGED <<text, version, shown, msgs>>

Cancel ==
  LET t == request.task IN
  /\ request.status \notin {"completed", "cancelled"}
  /\ request' = [request EXCEPT !.status = "cancelled"]
  /\ IF job[t].status \in Terminal THEN UNCHANGED <<job, process>>
     ELSE job' = Moved(t, "cancelled", NoId) /\ Revoked(job[t].owner)
  /\ UNCHANGED <<text, version, shown, msgs>>

\* The row of the request is open, its task is not: it cannot be retried.
Stuck == request.status \in {"queued", "running"} /\ job[request.task].status \notin {"queued", "held"}
CancelStuck == Stuck /\ Cancel /\ UNCHANGED events
CancelAny == ~Stuck /\ Cancel /\ Event

Resumable == {t \in Task : job[t].status \in {"failed", "paused"}}

\* Mutant of RetryFrom: a retry goes on where the last task would.
RetryFromNext == IF request.current < Last THEN request.current + 1 ELSE Last

\* current_chapter is done again.
RetryFrom == IF request.current = 0 THEN From ELSE request.current

Retried(t, j) ==
  /\ request.status \in Stop
  /\ request' = [request EXCEPT !.status = "queued", !.task = t]
  /\ job' = [job EXCEPT ![t] = j]
  /\ version' = "draft"
  /\ UNCHANGED <<text, shown, msgs, process, events>>

Resume ==
  \E t \in Resumable : Retried(t, [job[t] EXCEPT !.status = "queued", !.owner = NoId])

Resubmit ==
  /\ Resumable = {}
  /\ \E t \in Task :
       /\ job[t].status = "absent" /\ \A s \in Task : s < t => job[s].status # "absent"
       /\ Retried(t, [job[t] EXCEPT !.status = "queued", !.from = RetryFrom])

\* The user chooses what the novel shows, the target before it is done included.
ActivateVersion ==
  /\ Event
  /\ shown' \in {"base", "target"} \ {shown}
  /\ UNCHANGED <<text, version, request, job, msgs, process>>

-----------------------------------------------------------------------------
Works(p) ==
  \/ LeavesSuperseded(p) \/ StartRefused(p) \/ Activate(p) \/ Begin(p) \/ Check(p)
  \/ WriteChapter(p) \/ Mark(p) \/ Finish(p) \/ Handler(p) \/ Report(p)

Routes == Pause \/ CancelAny \/ CancelStuck \/ Resume \/ Resubmit \/ ActivateVersion

Next ==
  \/ Routes
  \/ \E t \in Task : Dispatch(t) \/ Reclaim(t)
  \/ \E p \in Processes : Deliver(p) \/ Crash(p) \/ VisibilityTimeout(p) \/ Fails(p) \/ Works(p)

Spec == Init /\ [][Next]_vars

\* Queue and processes go on, and so does the user, who sees the status of the
\* task: one that ended without a new version is retried, if need be after a
\* cancellation of what the row of the request takes for open.
Fairness ==
  /\ \A t \in Task : WF_vars(Dispatch(t) /\ msgs' # msgs) /\ WF_vars(Reclaim(t))
  /\ \A p \in Processes : WF_vars(Deliver(p)) /\ WF_vars(Works(p))
  /\ WF_vars(Resume) /\ WF_vars(Resubmit) /\ WF_vars(CancelStuck)

FairSpec == Spec /\ Fairness

-----------------------------------------------------------------------------
\* A version that counts as completed has every chapter, and those from the
\* first annotated one on are rewritten, whatever resumes, retries, second
\* deliveries and superseded processes it took.
CompletedIsRewritten ==
  version = "completed" =>
    \A c \in Chapter : text[c] = IF c < From THEN "inherited" ELSE "rewritten"

\* Every process and message belongs to the dispatch that owns its task.
Alone ==
  /\ \A p \in Working : job[process[p].task].owner = process[p].id
  /\ \A m \in msgs : job[m[1]].owner = m[2]

\* A user who does not give up gets the new version, and the novel shows it,
\* unless there is always one more process that lost its task: the handler of
\* each may fail the task of the next, whose message then comes too late.
RewriteFinishes == []<>Alone => <>(version = "completed" /\ shown = "target")

=============================================================================

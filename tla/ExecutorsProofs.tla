----------------------------- MODULE ExecutorsProofs -----------------------------
(***************************************************************************)
(* Theorems about two executors: RewriteRequests, for any range of         *)
(* chapters, any number of tasks and processes, and any number of faults   *)
(* and commands; and StoryboardPipeline in its composition, for any number *)
(* of versions, chapters, processes, faults and commands.                  *)
(***************************************************************************)
EXTENDS MCExecutors, WellFoundedInduction, TLAPS

(***************************************************************************)
(* RewriteRequests.                                                        *)
(***************************************************************************)
TaskStatus == {"absent", "queued", "held", "paused"} \cup Terminal
TaskRow == [status: TaskStatus, owner: Ids \cup {NoId}, from: Chapter, done: 0..Last]
RequestRow == [status: {"queued", "running", "completed"} \cup Stop,
               current: 0..Last, task: Task]

\* Every chapter to be rewritten up to c is.
Upto(c) == \A d \in Chapter : From <= d /\ d <= c => text[d] = "rewritten"

\* What a process relies on when it goes on from its chapter.
ProcessSafe(p) ==
  /\ process[p].pc \in {"begin", "run", "write"} =>
       From <= process[p].at /\ Upto(process[p].at - 1)
  /\ process[p].pc = "mark" => From <= process[p].at /\ Upto(process[p].at)
  /\ process[p].pc = "finish" => Upto(Last)

\* What a resume relies on: where a task begins, and its last checkpoint.
TaskSafe(t) ==
  /\ From <= job[t].from /\ Upto(job[t].from - 1)
  /\ Upto(job[t].done)

\* What a retry relies on: the chapter that the request names.
RequestSafe ==
  /\ Upto(request.current)
  /\ request.current # 0 => From <= request.current

Progress ==
  /\ \A c \in Chapter : c < From => text[c] = "inherited"
  /\ \A p \in Processes : ProcessSafe(p)
  /\ \A t \in Task : TaskSafe(t)
  /\ RequestSafe
  /\ version = "completed" => Upto(Last)

RewriteInv == TypeOK /\ Progress

-----------------------------------------------------------------------------
(* Types.                                                                  *)

Typed ==
  /\ text \in [Chapter -> {"none", "inherited", "rewritten"}]
  /\ version \in {"draft", "generating", "completed", "failed"}
  /\ shown \in {"base", "target"}
  /\ request \in RequestRow
  /\ job \in [Task -> TaskRow]
  /\ msgs \subseteq Task \X Ids
  /\ process \in [Processes -> Execution \cup {Idle}]
  /\ events \in 0..MaxEvents

\* TypeOK with names for the rows, of a state and of the next.
LEMMA Types == (TypeOK <=> Typed) /\ (TypeOK' <=> Typed')
  BY DEF TypeOK, Typed, RequestRow, TaskRow, TaskStatus

\* An update of a task's status and owner keeps its chapters.
LEMMA MovedTask ==
  ASSUME job \in [Task -> TaskRow], NEW t \in Task, NEW to \in TaskStatus,
         NEW owner \in Ids \cup {NoId}
  PROVE  /\ Moved(t, to, owner) \in [Task -> TaskRow]
         /\ \A s \in Task : /\ Moved(t, to, owner)[s].from = job[s].from
                            /\ Moved(t, to, owner)[s].done = job[s].done
<1> DEFINE m == [job EXCEPT ![t].status = to, ![t].owner = owner]
<1>1. job[t] \in TaskRow
  OBVIOUS
<1>2. [job[t] EXCEPT !.status = to, !.owner = owner] \in TaskRow
  BY <1>1 DEF TaskRow
<1>3. m = [job EXCEPT ![t] = [job[t] EXCEPT !.status = to, !.owner = owner]]
  OBVIOUS
<1>4. m \in [Task -> TaskRow]
  BY <1>2, <1>3
<1>5. \A s \in Task : m[s].from = job[s].from /\ m[s].done = job[s].done
  BY <1>1, <1>3 DEF TaskRow
<1> QED BY <1>4, <1>5 DEF Moved

\* A process that is somewhere has a task, a dispatch and a chapter.
LEMMA ExecutionOf ==
  ASSUME process \in [Processes -> Execution \cup {Idle}], NEW p \in Processes,
         process[p].pc # "idle"
  PROVE  process[p] \in Execution
  BY DEF Idle

\* A process at another place.
LEMMA ProcessGoes ==
  ASSUME process \in [Processes -> Execution \cup {Idle}], NEW p \in Processes,
         process[p].pc # "idle",
         NEW pc \in {"start", "begin", "run", "write", "mark", "finish", "handler", "report"}
  PROVE  [process EXCEPT ![p].pc = pc] \in [Processes -> Execution \cup {Idle}]
<1>1. process[p] \in Execution
  BY ExecutionOf
<1>2. [process[p] EXCEPT !.pc = pc] \in Execution
  BY <1>1 DEF Execution
<1> QED BY <1>2

\* With another chapter.
LEMMA ProcessGoesAt ==
  ASSUME process \in [Processes -> Execution \cup {Idle}], NEW p \in Processes,
         process[p].pc # "idle",
         NEW pc \in {"start", "begin", "run", "write", "mark", "finish", "handler", "report"},
         NEW c \in Chapter
  PROVE  [process EXCEPT ![p].pc = pc, ![p].at = c] \in [Processes -> Execution \cup {Idle}]
<1>1. process[p] \in Execution
  BY ExecutionOf
<1>2. [process[p] EXCEPT !.pc = pc, !.at = c] \in Execution
  BY <1>1 DEF Execution
<1> QED BY <1>2

\* With a verdict.
LEMMA ProcessEnds ==
  ASSUME process \in [Processes -> Execution \cup {Idle}], NEW p \in Processes,
         process[p].pc # "idle", NEW verdict \in Stop
  PROVE  [process EXCEPT ![p].pc = "handler", ![p].verdict = verdict] \in [Processes -> Execution \cup {Idle}]
<1>1. process[p] \in Execution
  BY ExecutionOf
<1>2. [process[p] EXCEPT !.pc = "handler", !.verdict = verdict] \in Execution
  BY <1>1 DEF Execution
<1> QED BY <1>2

-----------------------------------------------------------------------------
(* Steps that write no chapter.                                            *)

\* The chapters stay, and nobody's expectations grow.
LEMMA Kept ==
  ASSUME TypeOK, TypeOK', Progress, text' = text, request'.current = request.current,
         \A t \in Task : job'[t].from = job[t].from /\ job'[t].done = job[t].done,
         version' # "completed" \/ version' = version,
         \A p \in Processes :
           \/ process'[p].pc \in {"idle", "start", "handler", "report"}
           \/ process'[p] = process[p]
  PROVE  Progress'
<1>1. \A c : Upto(c) => Upto(c)'
  BY DEF Upto
<1>2. \A p \in Processes : ProcessSafe(p)'
  BY DEF ProcessSafe, Progress, Upto
<1>3. \A t \in Task : TaskSafe(t)'
  BY DEF TaskSafe, Progress, Upto
<1>4. RequestSafe'
  BY DEF RequestSafe, Progress, Upto
<1> QED BY <1>2, <1>3, <1>4 DEF Progress, Upto

\* Another status, task or chapter of the request.
LEMMA MovedRequest ==
  ASSUME request \in RequestRow, NEW to \in {"queued", "running", "completed"} \cup Stop
  PROVE  /\ [request EXCEPT !.status = to] \in RequestRow
         /\ [request EXCEPT !.status = to].current = request.current
         /\ \A t \in Task : /\ [request EXCEPT !.status = to, !.task = t] \in RequestRow
                            /\ [request EXCEPT !.status = to, !.task = t].current
                                 = request.current
  BY DEF RequestRow

\* The queue: dispatch, recovery, delivery, and the faults of a process.
LEMMA QueueStep ==
  ASSUME RewriteInv,
         \/ \E t \in Task : Dispatch(t) \/ Reclaim(t)
         \/ \E p \in Processes : Deliver(p) \/ Crash(p) \/ VisibilityTimeout(p)
  PROVE  RewriteInv'
<1>0. TypeOK /\ Typed /\ Progress
  BY Types DEF RewriteInv
<1>1. ASSUME NEW t \in Task, Dispatch(t) PROVE RewriteInv'
  <2>1. PICK id \in Ids : /\ job' = Moved(t, "held", id)
                          /\ \/ msgs' = msgs \cup {<<t, id>>} /\ UNCHANGED events
                             \/ Event /\ UNCHANGED msgs
    BY <1>0, <1>1 DEF Dispatch, Typed
  <2>2. /\ job' \in [Task -> TaskRow]
        /\ \A s \in Task : job'[s].from = job[s].from /\ job'[s].done = job[s].done
    BY <1>0, <2>1, MovedTask DEF TaskStatus, Typed
  <2>3. request' \in RequestRow /\ request'.current = request.current
    BY <1>0, <1>1, MovedRequest DEF Dispatch, Enqueued, Typed
  <2>4. TypeOK'
    BY <1>0, Types, <1>1, <2>1, <2>2, <2>3, RewriteAssumption DEF Dispatch, Event, Typed
  <2> QED BY <1>0, <1>1, <2>2, <2>3, <2>4, Kept DEF Dispatch, RewriteInv
<1>2. ASSUME NEW t \in Task, Reclaim(t) PROVE RewriteInv'
  <2>1. /\ job' \in [Task -> TaskRow]
        /\ \A s \in Task : job'[s].from = job[s].from /\ job'[s].done = job[s].done
    BY <1>0, <1>2, MovedTask DEF Reclaim, TaskStatus, Terminal, Typed
  <2>2. TypeOK'
    BY <1>0, Types, <1>2, <2>1 DEF Reclaim, Typed
  <2> QED BY <1>0, <1>2, <2>1, <2>2, Kept DEF Reclaim, RewriteInv
<1>3. ASSUME NEW p \in Processes, Deliver(p) PROVE RewriteInv'
  <2>1. PICK m \in msgs :
          /\ msgs' = msgs \ {m}
          /\ process' = [process EXCEPT ![p] = [pc |-> "start", task |-> m[1], id |-> m[2],
                                                at |-> From, verdict |-> "completed"]]
    BY <1>0, <1>3 DEF Deliver, Typed
  <2>2. m[1] \in Task /\ m[2] \in Ids /\ From \in Chapter
    BY <1>0, RewriteAssumption DEF Chapter, Typed
  <2>3. process' \in [Processes -> Execution \cup {Idle}]
    BY <1>0, <2>1, <2>2 DEF Execution, Typed
  <2>4. TypeOK'
    BY <1>0, Types, <1>3, <2>1, <2>3 DEF Deliver, Typed
  <2>5. \A q \in Processes : process'[q].pc = "start" \/ process'[q] = process[q]
    BY <1>0, <2>1 DEF Typed
  <2> QED BY <1>0, <1>3, <2>4, <2>5, Kept DEF Deliver, RewriteInv
<1>4. ASSUME NEW p \in Processes, Crash(p) \/ VisibilityTimeout(p) PROVE RewriteInv'
  <2>1. process[p] \in Execution
    BY <1>0, <1>4, ExecutionOf DEF Crash, VisibilityTimeout, At, Typed
  <2>2. msgs' \subseteq Task \X Ids
    BY <1>0, <1>4, <2>1 DEF Crash, VisibilityTimeout, Redelivered, Execution, Typed
  <2>3. process' = process \/ process' = [process EXCEPT ![p] = Idle]
    BY <1>0, <1>4 DEF Crash, VisibilityTimeout, Leave, Typed
  <2>4. TypeOK'
    BY <1>0, Types, <1>4, <2>2, <2>3, RewriteAssumption DEF Crash, VisibilityTimeout, Event, Typed
  <2>5. \A q \in Processes : process'[q].pc = "idle" \/ process'[q] = process[q]
    BY <1>0, <2>3 DEF Idle, Typed
  <2> QED BY <1>0, <1>4, <2>4, <2>5, Kept DEF Crash, VisibilityTimeout, RewriteInv
<1> QED BY <1>1, <1>2, <1>3, <1>4

\* Pause, cancellation, a retry that resumes a task, and what the novel shows.
LEMMA RouteStep ==
  ASSUME RewriteInv, Pause \/ CancelAny \/ CancelStuck \/ Resume \/ ActivateVersion
  PROVE  RewriteInv'
<1>0. TypeOK /\ Typed /\ Progress /\ request.task \in Task
  BY Types DEF RewriteInv, Typed, RequestRow
<1>1. CASE Pause
  <2>1. /\ job' \in [Task -> TaskRow]
        /\ \A s \in Task : job'[s].from = job[s].from /\ job'[s].done = job[s].done
    BY <1>0, <1>1, MovedTask DEF Pause, TaskStatus, Terminal, Typed
  <2>2. request' \in RequestRow /\ request'.current = request.current
    BY <1>0, <1>1, MovedRequest DEF Pause, Stop, Typed
  <2>3. TypeOK'
    BY <1>0, Types, <1>1, <2>1, <2>2, RewriteAssumption DEF Pause, Event, Typed
  <2> QED BY <1>0, <1>1, <2>1, <2>2, <2>3, Kept DEF Pause, RewriteInv
<1>2. CASE CancelAny \/ CancelStuck
  <2>0. Cancel
    BY <1>2 DEF CancelAny, CancelStuck
  <2>1. events' \in 0..MaxEvents
    BY <1>0, <1>2, RewriteAssumption DEF CancelAny, CancelStuck, Event, Typed
  <2>2. /\ job' \in [Task -> TaskRow]
        /\ \A s \in Task : job'[s].from = job[s].from /\ job'[s].done = job[s].done
    BY <1>0, <2>0, <2>1, MovedTask DEF Cancel, TaskStatus, Terminal, Typed
  <2>3. request' \in RequestRow /\ request'.current = request.current
    BY <1>0, <2>0, <2>1, MovedRequest DEF Cancel, Stop, Typed
  <2>4. /\ process' \in [Processes -> Execution \cup {Idle}]
        /\ \A q \in Processes : process'[q].pc = "idle" \/ process'[q] = process[q]
    BY <1>0, <2>0, <2>1 DEF Cancel, Revoked, Idle, Typed
  <2>5. TypeOK'
    BY <1>0, Types, <2>0, <2>1, <2>2, <2>3, <2>4 DEF Cancel, Typed
  <2> QED BY <1>0, <2>0, <2>1, <2>2, <2>3, <2>4, <2>5, Kept DEF Cancel, RewriteInv
<1>3. CASE Resume
  <2>1. PICK t \in Task : Retried(t, [job[t] EXCEPT !.status = "queued", !.owner = NoId])
    BY <1>0, <1>3 DEF Resume, Resumable, Typed
  <2>2. job' = Moved(t, "queued", NoId)
    BY <1>0, <2>1 DEF Retried, Moved, Typed
  <2>3. /\ job' \in [Task -> TaskRow]
        /\ \A s \in Task : job'[s].from = job[s].from /\ job'[s].done = job[s].done
    BY <1>0, <2>2, MovedTask DEF TaskStatus, Typed
  <2>4. request' \in RequestRow /\ request'.current = request.current
    BY <1>0, <2>1, MovedRequest DEF Retried, Typed
  <2>5. TypeOK'
    BY <1>0, Types, <2>1, <2>3, <2>4 DEF Retried, Typed
  <2> QED BY <1>0, <2>1, <2>3, <2>4, <2>5, Kept DEF Retried, RewriteInv
<1>4. CASE ActivateVersion
  <2>1. TypeOK'
    BY <1>0, Types, <1>4, RewriteAssumption DEF ActivateVersion, Event, Typed
  <2> QED BY <1>0, <1>4, <2>1, Kept DEF ActivateVersion, RewriteInv
<1> QED BY <1>1, <1>2, <1>3, <1>4

\* A process that leaves, stops or reports.
LEMMA StopStep ==
  ASSUME RewriteInv, NEW p \in Processes,
         \/ LeavesSuperseded(p) \/ StartRefused(p) \/ Fails(p) \/ Handler(p) \/ Report(p)
  PROVE  RewriteInv'
<1>0. TypeOK /\ Typed /\ Progress
  BY Types DEF RewriteInv
<1>1. process[p] \in Execution
  BY <1>0, ExecutionOf DEF LeavesSuperseded, StartRefused, Fails, Handler, Report, At, Typed
<1>2. /\ process[p].task \in Task /\ process[p].verdict \in Stop \cup {"completed"}
      /\ process[p].pc # "idle" /\ Last \in Chapter
  BY <1>0, <1>1, RewriteAssumption DEF Execution, Chapter, Typed
<1>3. CASE LeavesSuperseded(p)
  <2>1. /\ process' \in [Processes -> Execution \cup {Idle}]
        /\ \A q \in Processes : process'[q].pc = "idle" \/ process'[q] = process[q]
    BY <1>0, <1>3 DEF LeavesSuperseded, Leave, Idle, Typed
  <2>2. TypeOK'
    BY <1>0, Types, <1>3, <2>1 DEF LeavesSuperseded, Typed
  <2> QED BY <1>0, <1>3, <2>1, <2>2, Kept DEF LeavesSuperseded, RewriteInv
<1>4. CASE StartRefused(p) \/ Fails(p)
  <2>1. PICK verdict \in Stop : Ends(p, verdict)
    BY <1>0, <1>4 DEF StartRefused, Fails, Stop, Typed
  <2>2. /\ process' \in [Processes -> Execution \cup {Idle}]
        /\ \A q \in Processes : process'[q].pc = "handler" \/ process'[q] = process[q]
    BY <1>0, <1>1, <1>2, <2>1, ProcessEnds DEF Ends, Execution, Typed
  <2>3. TypeOK'
    BY <1>0, Types, <1>4, <2>2, RewriteAssumption DEF StartRefused, Fails, Event, Typed
  <2> QED BY <1>0, <1>4, <2>2, <2>3, Kept DEF StartRefused, Fails, RewriteInv
<1>5. CASE Handler(p)
  <2>1. /\ process' \in [Processes -> Execution \cup {Idle}]
        /\ \A q \in Processes : process'[q].pc = "report" \/ process'[q] = process[q]
    BY <1>0, <1>1, <1>2, <1>5, ProcessGoes DEF Handler, Goto, Execution, Typed
  <2>2. request' \in RequestRow /\ request'.current = request.current
    BY <1>0, <1>2, <1>5, MovedRequest DEF Handler, Typed
  <2>3. version' \in {version, "failed"}
    BY <1>0, <1>5 DEF Handler, Typed
  <2>4. TypeOK'
    BY <1>0, Types, <1>5, <2>1, <2>2, <2>3 DEF Handler, Typed
  <2> QED BY <1>0, <1>5, <2>1, <2>2, <2>3, <2>4, Kept DEF Handler, RewriteInv
<1>6. CASE Report(p)
  <2>1. /\ process' \in [Processes -> Execution \cup {Idle}]
        /\ \A q \in Processes : process'[q].pc = "idle" \/ process'[q] = process[q]
    BY <1>0, <1>6 DEF Report, Leave, Idle, Typed
  <2>2. /\ job' \in [Task -> TaskRow]
        /\ \A s \in Task : job'[s].from = job[s].from /\ job'[s].done = job[s].done
    BY <1>0, <1>2, <1>6, MovedTask DEF Report, TaskStatus, Terminal, Stop, Typed
  <2>3. TypeOK'
    BY <1>0, Types, <1>6, <2>1, <2>2 DEF Report, Typed
  <2> QED BY <1>0, <1>6, <2>1, <2>2, <2>3, Kept DEF Report, RewriteInv
<1> QED BY <1>3, <1>4, <1>5, <1>6

-----------------------------------------------------------------------------
(* Steps that write a chapter, or go on from one.                          *)

LEMMA Numbers == From \in Nat \ {0} /\ Last \in Nat \ {0} /\ From <= Last
  BY RewriteAssumption

\* What the chapters of a task's row are.
LEMMA ChaptersOf ==
  ASSUME Typed
  PROVE  /\ \A t \in Task : job[t].from \in Chapter /\ job[t].done \in 0..Last
         /\ request.current \in 0..Last
         /\ From \in Chapter /\ Last \in Nat
  BY RewriteAssumption DEF Typed, TaskRow, RequestRow, Chapter

\* A resume starts at a chapter before which all are rewritten.
LEMMA ResumesAfterRewritten ==
  ASSUME Typed, Progress, NEW t \in Task
  PROVE  /\ ResumeAt(job[t]) \in Nat /\ From <= ResumeAt(job[t])
         /\ Upto(ResumeAt(job[t]) - 1)
<1>1. job[t].from \in Nat /\ job[t].done \in Nat /\ From \in Nat
  BY ChaptersOf DEF Chapter
<1>2. From <= job[t].from /\ Upto(job[t].from - 1) /\ Upto(job[t].done)
  BY DEF Progress, TaskSafe
<1>3. CASE job[t].done + 1 > job[t].from
  <2>1. ResumeAt(job[t]) = job[t].done + 1
    BY <1>3 DEF ResumeAt
  <2>2. ResumeAt(job[t]) - 1 = job[t].done
    BY <1>1, <2>1
  <2> QED BY <1>1, <1>2, <1>3, <2>1, <2>2
<1>4. CASE ~(job[t].done + 1 > job[t].from)
  BY <1>1, <1>2, <1>4 DEF ResumeAt
<1> QED BY <1>3, <1>4

\* The chapters stay, and only process p expects something new.
LEMMA OneMoves ==
  ASSUME TypeOK', Progress, text' = text, request'.current = request.current,
         \A t \in Task : job'[t].from = job[t].from /\ job'[t].done = job[t].done,
         version' \in {version, "generating"},
         NEW p \in Processes, ProcessSafe(p)',
         \A q \in Processes : q # p => process'[q] = process[q]
  PROVE  RewriteInv'
<1>1. \A q \in Processes : ProcessSafe(q)'
  BY DEF ProcessSafe, Progress, Upto
<1>2. \A t \in Task : TaskSafe(t)'
  BY DEF TaskSafe, Progress, Upto
<1>3. RequestSafe'
  BY DEF RequestSafe, Progress, Upto
<1> QED BY <1>1, <1>2, <1>3 DEF RewriteInv, Progress, Upto

\* Activation finds the chapter, begin and check go on to it.
LEMMA GoOnStep ==
  ASSUME RewriteInv, NEW p \in Processes, Activate(p) \/ Begin(p) \/ Check(p)
  PROVE  RewriteInv'
<1>0. TypeOK /\ Typed /\ Progress
  BY Types DEF RewriteInv
<1>1. process[p] \in Execution /\ process[p].pc # "idle"
  BY <1>0, ExecutionOf DEF Typed, Activate, Begin, Check, At
<1>2. process[p].task \in Task /\ process[p].at \in Chapter /\ process[p].id \in Ids
  BY <1>1 DEF Execution
<1>3. CASE Activate(p) /\ ResumeAt(job[process[p].task]) > Last
  <2>1. /\ job' = Moved(process[p].task, "completed", NoId)
        /\ process' = [process EXCEPT ![p] = Idle]
        /\ UNCHANGED <<text, version, shown, request, msgs, events>>
    BY <1>3 DEF Activate, Leave
  <2>2. /\ job' \in [Task -> TaskRow]
        /\ \A s \in Task : job'[s].from = job[s].from /\ job'[s].done = job[s].done
    BY <1>0, <1>2, <2>1, MovedTask DEF TaskStatus, Terminal, Typed
  <2>3. TypeOK'
    BY <1>0, <2>1, <2>2, Types DEF Typed
  <2>4. ProcessSafe(p)' /\ \A q \in Processes : q # p => process'[q] = process[q]
    BY <1>0, <2>1 DEF ProcessSafe, Idle, Typed
  <2> QED BY <1>0, <2>1, <2>2, <2>3, <2>4, OneMoves
<1>4. CASE Activate(p) /\ ~(ResumeAt(job[process[p].task]) > Last)
  <2> DEFINE c == ResumeAt(job[process[p].task])
  <2>1. /\ job' = Moved(process[p].task, "held", process[p].id)
        /\ process' = [process EXCEPT ![p].pc = "begin", ![p].at = c]
        /\ UNCHANGED <<text, version, shown, request, msgs, events>>
    BY <1>4 DEF Activate
  <2>a. c \in Nat /\ From <= c /\ Upto(c - 1)
    BY <1>0, <1>2, ResumesAfterRewritten
  <2>b. ~(c > Last)
    BY <1>4
  <2> HIDE DEF c
  <2>2. c \in Chapter
    BY <2>a, <2>b, Numbers DEF Chapter
  <2>3. /\ job' \in [Task -> TaskRow]
        /\ \A s \in Task : job'[s].from = job[s].from /\ job'[s].done = job[s].done
    <3> DEFINE t == process[p].task
               id == process[p].id
    <3>1. t \in Task /\ id \in Ids \cup {NoId} /\ job' = Moved(t, "held", id)
      BY <1>2, <2>1
    <3> HIDE DEF t, id
    <3> QED BY <1>0, <3>1, MovedTask DEF TaskStatus, Typed
  <2>4. process' \in [Processes -> Execution \cup {Idle}]
    BY <1>0, <1>1, <2>1, <2>2, ProcessGoesAt DEF Typed, Execution
  <2>5. TypeOK'
    BY <1>0, <2>1, <2>3, <2>4, Types DEF Typed
  <2>6. /\ process'[p].pc = "begin" /\ process'[p].at = c
        /\ \A q \in Processes : q # p => process'[q] = process[q]
    BY <1>0, <1>1, <2>1 DEF Typed, Execution
  <2>7. ProcessSafe(p)'
    BY <2>1, <2>a, <2>6 DEF ProcessSafe, Upto
  <2> QED BY <1>0, <2>1, <2>3, <2>5, <2>6, <2>7, OneMoves
<1>5. CASE Begin(p)
  <2>1. /\ process' = [process EXCEPT ![p].pc = "run"] /\ process[p].pc = "begin"
        /\ request' = [request EXCEPT !.status = "running"]
        /\ version' = "generating"
        /\ UNCHANGED <<text, shown, job, msgs, events>>
    BY <1>5 DEF Begin, Goto, At
  <2>2. process' \in [Processes -> Execution \cup {Idle}]
    BY <1>0, <1>1, <1>2, <2>1, ProcessGoes DEF Typed, Execution
  <2>3. request' \in RequestRow /\ request'.current = request.current
    BY <1>0, <2>1, MovedRequest DEF Typed
  <2>4. TypeOK'
    BY <1>0, <2>1, <2>2, <2>3, Types DEF Typed
  <2>5. /\ process'[p].pc = "run" /\ process'[p].at = process[p].at
        /\ \A q \in Processes : q # p => process'[q] = process[q]
    BY <1>0, <1>1, <2>1 DEF Typed, Execution
  <2>6. ProcessSafe(p)'
    BY <1>0, <2>1, <2>5 DEF ProcessSafe, Upto, Progress
  <2> QED BY <1>0, <2>1, <2>3, <2>4, <2>5, <2>6, OneMoves
<1>6. CASE Check(p)
  <2>1. process[p].pc = "run" /\ UNCHANGED <<text, version, shown, request, job, msgs, events>>
    BY <1>6 DEF Check, At
  <2>2. \/ process' = [process EXCEPT ![p].pc = "write"]
        \/ \E v \in Stop : process' = [process EXCEPT ![p].pc = "handler", ![p].verdict = v]
    <3> DEFINE found == job[process[p].task].status
    <3>1. IF found \in {"paused", "cancelled"} THEN Ends(p, found) ELSE Goto(p, "write")
      BY <1>6 DEF Check
    <3>2. found \in {"paused", "cancelled"} => found \in Stop
      BY DEF Stop
    <3> HIDE DEF found
    <3>3. CASE found \in {"paused", "cancelled"}
      BY <3>1, <3>2, <3>3 DEF Ends
    <3>4. CASE found \notin {"paused", "cancelled"}
      BY <3>1, <3>4 DEF Goto
    <3> QED BY <3>3, <3>4
  <2>3. process' \in [Processes -> Execution \cup {Idle}]
    <3>1. CASE process' = [process EXCEPT ![p].pc = "write"]
      BY <1>0, <1>1, <3>1, ProcessGoes DEF Typed
    <3>2. CASE \E v \in Stop : process' = [process EXCEPT ![p].pc = "handler", ![p].verdict = v]
      <4>1. PICK v \in Stop : process' = [process EXCEPT ![p].pc = "handler", ![p].verdict = v]
        BY <3>2
      <4> QED BY <1>0, <1>1, <4>1, ProcessEnds DEF Typed
    <3> QED BY <2>2, <3>1, <3>2
  <2>4. TypeOK'
    BY <1>0, <2>1, <2>3, Types DEF Typed
  <2>5. /\ \/ process'[p].pc = "write" /\ process'[p].at = process[p].at
           \/ process'[p].pc = "handler"
        /\ \A q \in Processes : q # p => process'[q] = process[q]
    BY <1>0, <1>1, <2>2 DEF Typed, Execution
  <2>6. ProcessSafe(p)'
    BY <1>0, <2>1, <2>5 DEF ProcessSafe, Upto, Progress
  <2> QED BY <1>0, <2>1, <2>4, <2>5, <2>6, OneMoves
<1> QED BY <1>3, <1>4, <1>5, <1>6

\* A chapter that is written, or copied, is the first that may have been missing.
LEMMA WriteStep ==
  ASSUME RewriteInv, NEW p \in Processes, WriteChapter(p)
  PROVE  RewriteInv'
<1>0. TypeOK /\ Typed /\ Progress
  BY Types DEF RewriteInv
<1>c. PICK c : c = process[p].at
  OBVIOUS
<1>1. /\ process[p].pc = "write" /\ process' = [process EXCEPT ![p].pc = "mark"]
      /\ text' = [text EXCEPT ![c] = "rewritten"]
      /\ request' = [request EXCEPT !.current = c]
      /\ UNCHANGED <<version, shown, job, msgs, events>>
  BY <1>c DEF WriteChapter, At, Goto
<1>2. process[p] \in Execution
  BY <1>0, <1>1, ExecutionOf DEF Typed
<1>3. c \in Chapter
  BY <1>c, <1>2 DEF Execution
<1>4. From <= c /\ Upto(c - 1)
  BY <1>0, <1>c, <1>1 DEF Progress, ProcessSafe
<1>5. /\ process' \in [Processes -> Execution \cup {Idle}]
      /\ process'[p].pc = "mark" /\ process'[p].at = c
      /\ \A q \in Processes : q # p => process'[q] = process[q]
  <2>1. process' \in [Processes -> Execution \cup {Idle}]
    BY <1>0, <1>1, ProcessGoes DEF Typed
  <2> QED BY <2>1, <1>0, <1>c, <1>1, <1>2 DEF Typed, Execution
<1>6. request' \in RequestRow /\ request'.current = c
  BY <1>0, <1>1, <1>3 DEF Typed, RequestRow, Chapter
<1>7. text' \in [Chapter -> {"none", "inherited", "rewritten"}] /\ text'[c] = "rewritten"
  BY <1>0, <1>1, <1>3 DEF Typed
<1>8. TypeOK'
  BY <1>0, <1>1, <1>5, <1>6, <1>7, Types DEF Typed
<1>9. /\ \A x : Upto(x) => Upto(x)'
      /\ Upto(c)'
      /\ \A x \in Chapter : x < From => text'[x] = "inherited"
  <2>1. \A x \in Chapter : text'[x] = text[x] \/ (x = c /\ text'[x] = "rewritten")
    BY <1>0, <1>1, <1>3 DEF Typed
  <2>2. \A x : Upto(x) => Upto(x)'
    BY <2>1 DEF Upto
  <2>3. \A x \in Chapter : x <= c => x <= c - 1 \/ x = c
    BY <1>3 DEF Chapter
  <2>4. Upto(c)'
    <3>1. \A x \in Chapter : From <= x /\ x <= c => text'[x] = "rewritten"
      BY <1>4, <1>7, <2>1, <2>3 DEF Upto
    <3> QED BY <3>1 DEF Upto
  <2>5. \A x \in Chapter : x < From => x # c
    BY <1>3, <1>4, Numbers DEF Chapter
  <2> QED BY <1>0, <2>1, <2>2, <2>4, <2>5 DEF Progress
<1>10. Progress'
  <2>1. \A q \in Processes : ProcessSafe(q)'
    BY <1>0, <1>4, <1>5, <1>9 DEF Progress, ProcessSafe, Upto
  <2>2. \A t \in Task : TaskSafe(t)'
    BY <1>0, <1>1, <1>9 DEF Progress, TaskSafe
  <2>3. RequestSafe'
    BY <1>4, <1>6, <1>9 DEF RequestSafe, Upto
  <2> QED BY <1>0, <1>1, <1>9, <2>1, <2>2, <2>3 DEF Progress
<1> QED BY <1>8, <1>10 DEF RewriteInv

\* The checkpoint names a chapter up to which all are rewritten.
LEMMA MarkStep ==
  ASSUME RewriteInv, NEW p \in Processes, Mark(p)
  PROVE  RewriteInv'
<1>0. TypeOK /\ Typed /\ Progress
  BY Types DEF RewriteInv
<1>c. PICK c, t, n : c = process[p].at /\ t = process[p].task /\ n = LastDone(job[t], c)
  OBVIOUS
<1>1. /\ process[p].pc = "mark"
      /\ job' = [job EXCEPT ![t].done = n]
      /\ process' = IF c = Last THEN [process EXCEPT ![p].pc = "finish"]
                    ELSE [process EXCEPT ![p].pc = "run", ![p].at = c + 1]
      /\ UNCHANGED <<text, version, shown, request, msgs, events>>
  BY <1>c DEF Mark, At
<1>2. process[p] \in Execution
  BY <1>0, <1>1, ExecutionOf DEF Typed
<1>3. c \in Chapter /\ t \in Task
  BY <1>c, <1>2 DEF Execution
<1>4. From <= c /\ Upto(c)
  BY <1>0, <1>c, <1>1 DEF Progress, ProcessSafe
<1>5. n \in 0..Last /\ Upto(n)
  BY <1>0, <1>c, <1>3, <1>4, ChaptersOf, Numbers DEF LastDone, Chapter, Progress, TaskSafe
<1>6. /\ process' \in [Processes -> Execution \cup {Idle}]
      /\ \/ process'[p].pc = "finish" /\ c = Last
         \/ process'[p].pc = "run" /\ process'[p].at = c + 1
      /\ \A q \in Processes : q # p => process'[q] = process[q]
  <2>0. process \in [Processes -> Execution \cup {Idle}] /\ process[p].pc # "idle"
    BY <1>0, <1>1 DEF Typed
  <2>1. CASE c = Last
    <3>1. process' = [process EXCEPT ![p].pc = "finish"]
      BY <1>1, <2>1
    <3>2. process' \in [Processes -> Execution \cup {Idle}]
      BY <2>0, <3>1, ProcessGoes
    <3> QED BY <1>0, <1>2, <2>1, <3>1, <3>2 DEF Typed, Execution
  <2>2. CASE c # Last
    <3>1. process' = [process EXCEPT ![p].pc = "run", ![p].at = c + 1]
      BY <1>1, <2>2
    <3>2. c + 1 \in Chapter
      BY <1>3, <2>2, Numbers DEF Chapter
    <3>3. process' \in [Processes -> Execution \cup {Idle}]
      BY <2>0, <3>1, <3>2, ProcessGoesAt
    <3> QED BY <1>0, <1>c, <1>2, <3>1, <3>3 DEF Typed, Execution
  <2> QED BY <2>1, <2>2
<1>7. /\ job' \in [Task -> TaskRow]
      /\ job'[t].from = job[t].from /\ job'[t].done = n
      /\ \A s \in Task : s # t => job'[s] = job[s]
  BY <1>0, <1>1, <1>3, <1>5 DEF Typed, TaskRow
<1>8. TypeOK'
  BY <1>0, <1>1, <1>6, <1>7, Types DEF Typed
<1>9. \A x : Upto(x)' <=> Upto(x)
  BY <1>1 DEF Upto
<1>10. Progress'
  <2>1. ProcessSafe(p)'
    <3>1. CASE process'[p].pc = "finish" /\ c = Last
      BY <1>4, <1>9, <3>1 DEF ProcessSafe
    <3>2. CASE process'[p].pc = "run" /\ process'[p].at = c + 1
      <4>1. process'[p].at - 1 = c /\ From <= process'[p].at
        BY <1>3, <1>4, <3>2, Numbers DEF Chapter
      <4> QED BY <1>4, <1>9, <3>2, <4>1 DEF ProcessSafe
    <3> QED BY <1>6, <3>1, <3>2
  <2>2. \A q \in Processes : q # p => ProcessSafe(q)'
    BY <1>0, <1>6, <1>9 DEF Progress, ProcessSafe
  <2>3. \A s \in Task : TaskSafe(s)'
    BY <1>0, <1>5, <1>7, <1>9 DEF Progress, TaskSafe
  <2>4. RequestSafe'
    BY <1>0, <1>1, <1>9 DEF Progress, RequestSafe
  <2> QED BY <1>0, <1>1, <1>9, <2>1, <2>2, <2>3, <2>4 DEF Progress
<1> QED BY <1>8, <1>10 DEF RewriteInv

\* A process that finishes has gone through all chapters, or another one has.
LEMMA FinishStep ==
  ASSUME RewriteInv, NEW p \in Processes, Finish(p)
  PROVE  RewriteInv'
<1>0. TypeOK /\ Typed /\ Progress
  BY Types DEF RewriteInv
<1>1. /\ process[p].pc = "finish" /\ process' = [process EXCEPT ![p].pc = "report"]
      /\ request' = [request EXCEPT !.status = "completed"]
      /\ version' = "completed" /\ shown' = "target"
      /\ UNCHANGED <<text, job, msgs, events>>
  BY DEF Finish, At, Goto
<1>2. process[p] \in Execution /\ Upto(Last)
  BY <1>0, <1>1, ExecutionOf DEF Typed, Progress, ProcessSafe
<1>3. /\ process' \in [Processes -> Execution \cup {Idle}]
      /\ process'[p].pc = "report"
      /\ \A q \in Processes : q # p => process'[q] = process[q]
  <2>1. process' \in [Processes -> Execution \cup {Idle}]
    BY <1>0, <1>1, ProcessGoes DEF Typed
  <2> QED BY <2>1, <1>0, <1>1, <1>2 DEF Typed, Execution
<1>4. request' \in RequestRow /\ request'.current = request.current
  BY <1>0, <1>1, MovedRequest DEF Typed
<1>5. TypeOK'
  BY <1>0, <1>1, <1>3, <1>4, Types DEF Typed
<1>6. \A x : Upto(x)' <=> Upto(x)
  BY <1>1 DEF Upto
<1>7. \A q \in Processes : ProcessSafe(q)'
  BY <1>0, <1>3, <1>6 DEF Progress, ProcessSafe
<1>8. \A t \in Task : TaskSafe(t)'
  BY <1>0, <1>1, <1>6 DEF Progress, TaskSafe
<1>9. RequestSafe'
  BY <1>0, <1>4, <1>6 DEF Progress, RequestSafe
<1> QED BY <1>0, <1>1, <1>2, <1>5, <1>6, <1>7, <1>8, <1>9 DEF Progress, RewriteInv

\* A new task begins at a chapter that the request names: it is done again.
LEMMA ResubmitStep == ASSUME RewriteInv, Resubmit PROVE RewriteInv'
<1>0. TypeOK /\ Typed /\ Progress
  BY Types DEF RewriteInv
<1>1. PICK t \in Task : Retried(t, [job[t] EXCEPT !.status = "queued", !.from = RetryFrom])
  BY DEF Resubmit
<1>2. /\ job' = [job EXCEPT ![t] = [job[t] EXCEPT !.status = "queued", !.from = RetryFrom]]
      /\ request' = [request EXCEPT !.status = "queued", !.task = t]
      /\ version' = "draft"
      /\ UNCHANGED <<text, shown, msgs, process, events>>
  BY <1>1 DEF Retried
<1>3. RetryFrom \in Chapter /\ From <= RetryFrom /\ Upto(RetryFrom - 1)
  <2>1. request.current \in 0..Last /\ RequestSafe
    BY <1>0, ChaptersOf DEF Progress
  <2>2. CASE request.current = 0
    <3>1. RetryFrom = From
      BY <2>2 DEF RetryFrom
    <3> QED BY <3>1, Numbers DEF Chapter, Upto
  <2>3. CASE request.current # 0
    <3>1. RetryFrom = request.current
      BY <2>3 DEF RetryFrom
    <3> QED BY <2>1, <2>3, <3>1, Numbers DEF Chapter, Upto, RequestSafe
  <2> QED BY <2>2, <2>3
<1> DEFINE from == RetryFrom
<1>4. /\ job' \in [Task -> TaskRow]
      /\ job'[t].from = from /\ job'[t].done = job[t].done
      /\ \A s \in Task : s # t => job'[s] = job[s]
  BY <1>0, <1>2, <1>3 DEF Typed, TaskRow, TaskStatus
<1>5. request' \in RequestRow /\ request'.current = request.current
  BY <1>0, <1>2, MovedRequest DEF Typed
<1>6. TypeOK'
  BY <1>0, <1>2, <1>4, <1>5, Types DEF Typed
<1>7. \A x : Upto(x)' <=> Upto(x)
  BY <1>2 DEF Upto
<1> HIDE DEF from
<1>8. \A s \in Task : TaskSafe(s)'
  BY <1>0, <1>3, <1>4, <1>7 DEF Progress, TaskSafe, from
<1>9. \A q \in Processes : ProcessSafe(q)'
  BY <1>0, <1>2, <1>7 DEF Progress, ProcessSafe
<1>10. RequestSafe'
  BY <1>0, <1>5, <1>7 DEF Progress, RequestSafe
<1> QED BY <1>0, <1>2, <1>6, <1>7, <1>8, <1>9, <1>10 DEF Progress, RewriteInv

-----------------------------------------------------------------------------
\* A new target has the base's chapters before the first to be rewritten.
LEMMA InvInit == Init => RewriteInv
<1> SUFFICES ASSUME Init PROVE RewriteInv
  OBVIOUS
<1>1. Typed
  <2>1. job \in [Task -> TaskRow]
    BY Numbers DEF Init, TaskRow, TaskStatus, Chapter
  <2>2. request \in RequestRow
    BY RewriteAssumption DEF Init, RequestRow, Task
  <2>3. text \in [Chapter -> {"none", "inherited", "rewritten"}]
    BY DEF Init, TargetText
  <2>4. events \in 0..MaxEvents
    BY RewriteAssumption DEF Init
  <2> QED BY <2>1, <2>2, <2>3, <2>4 DEF Init, Typed
<1>2. \A c \in Chapter : c < From => text[c] = "inherited"
  BY DEF Init, TargetText
<1>3. \A p \in Processes : ProcessSafe(p)
  BY DEF Init, ProcessSafe, Idle
<1>4. /\ Upto(0) /\ Upto(From - 1)
  BY Numbers DEF Upto, Chapter
<1>5. \A t \in Task : job[t].from = From /\ job[t].done = 0
  BY DEF Init
<1>6. \A t \in Task : TaskSafe(t)
  BY <1>4, <1>5, Numbers DEF TaskSafe
<1>7. RequestSafe /\ version # "completed"
  BY <1>4 DEF Init, RequestSafe
<1> QED BY <1>1, <1>2, <1>3, <1>6, <1>7, Types DEF RewriteInv, Progress

LEMMA InvNext == RewriteInv /\ [Next]_vars => RewriteInv'
<1> SUFFICES ASSUME RewriteInv, [Next]_vars PROVE RewriteInv'
  OBVIOUS
<1>1. CASE Routes
  BY <1>1, RouteStep, ResubmitStep DEF Routes
<1>2. CASE \/ \E t \in Task : Dispatch(t) \/ Reclaim(t)
           \/ \E p \in Processes : Deliver(p) \/ Crash(p) \/ VisibilityTimeout(p)
  BY <1>2, QueueStep
<1>3. ASSUME NEW p \in Processes, Fails(p) \/ Works(p) PROVE RewriteInv'
  BY <1>3, StopStep, GoOnStep, WriteStep, MarkStep, FinishStep DEF Works
<1>4. CASE UNCHANGED vars
  BY <1>4 DEF vars, RewriteInv, TypeOK, Progress, ProcessSafe, TaskSafe, RequestSafe, Upto
<1> QED BY <1>1, <1>2, <1>3, <1>4 DEF Next

-----------------------------------------------------------------------------
\* The rows and the processes keep their types (RewriteRequest, CreationTask).
THEOREM RewriteTypes == Spec => []TypeOK
<1>1. Spec => []RewriteInv
  BY InvInit, InvNext, PTL DEF Spec
<1>2. RewriteInv => TypeOK
  BY DEF RewriteInv
<1> QED BY <1>1, <1>2, PTL

\* A version that counts as completed is rewritten from the first chapter on,
\* whatever resumes, retries and second deliveries it took (submit_rewrite_task).
THEOREM RewriteIsWhole == Spec => []CompletedIsRewritten
<1>1. Spec => []RewriteInv
  BY InvInit, InvNext, PTL DEF Spec
<1>2. RewriteInv => CompletedIsRewritten
  <2> SUFFICES ASSUME RewriteInv, version = "completed", NEW c \in Chapter
               PROVE  text[c] = IF c < From THEN "inherited" ELSE "rewritten"
    BY DEF CompletedIsRewritten
  <2>1. Upto(Last) /\ (c < From => text[c] = "inherited")
    BY DEF RewriteInv, Progress
  <2>2. ~(c < From) => From <= c
    BY Numbers DEF Chapter
  <2>3. c <= Last
    BY Numbers DEF Chapter
  <2> QED BY <2>1, <2>2, <2>3 DEF Upto
<1> QED BY <1>1, <1>2, PTL

(***************************************************************************)
(* StoryboardPipeline.                                                     *)
(***************************************************************************)
Version == 1..Lanes
Part == 1..Chapters
Phases == {"absent", "waiting", "held", "suspended", "completed", "failed", "cancelled"}
Run == [pc: {"start", "begin", "version", "chapter", "draw", "gate", "compose",
             "end", "leave", "finalize"},
        id: BoardIds, at: Version, done: SUBSET Part,
        loaded: SP!TaskState \cup {"expired"}, was: SP!VersionStatus \cup {"none"},
        end: SP!Over \cup {"paused", "none"}]

\* Version v is drawn to its end.
IsDrawn(v, s, p) == s[v] = Part /\ v \in p
Drawn(v) == IsDrawn(v, shots, prompts)

\* The versions before the one a process draws are drawn, and what it will not
\* draw again has shots; it composes what is whole, and ends when all is drawn.
RunIs(x, s, p) ==
  /\ x \in Run
  /\ \A v \in Version : v < x.at => IsDrawn(v, s, p)
  /\ x.done \subseteq s[x.at]
  /\ x.pc = "draw" => x.done # Part
  /\ x.pc \in {"gate", "compose"} => s[x.at] = Part
  /\ x.pc = "end" \/ x.end = "completed" => \A v \in Version : IsDrawn(v, s, p)
  /\ x.pc \in {"leave", "finalize"} => x.end # "none"
RunOk(x) == RunIs(x, shots, prompts)

\* The two rows the session writes.
Rows(b, s) == b \in SP!TaskState /\ s \in [Version -> SP!VersionStatus]

BoardInv ==
  /\ Rows(board, boardVersion)
  /\ boardJob \in [{"task"} -> Phases]
  /\ shots \in [Version -> SUBSET Part] /\ units \in [Version -> SUBSET Part]
  /\ prompts \subseteq Version
  /\ \A v \in Version : units[v] \subseteq shots[v]
  /\ worker \in [Workers -> Run \cup {SP!Idle}]
  /\ \A w \in Workers : worker[w] = SP!Idle \/ RunOk(worker[w])
  /\ boardJob["task"] = "completed" => \A v \in Version : Drawn(v)

-----------------------------------------------------------------------------
LEMMA BoardNumbers == Lanes \in Nat /\ Chapters \in Nat /\ 1 \in Version /\ Lanes \in Version
  BY ExecutorsAssumption DEF Version

LEMMA BoardNames ==
  /\ SP!LaneVersions = Version /\ SP!Chapter = Part /\ SP!Execution = Run /\ SP!Queue!Phase = Phases
  /\ SP!Over = {"completed", "failed", "cancelled"} /\ SP!Idle.pc = "idle" /\ SP!Idle \notin Run
  BY DEF SP!LaneVersions, Version, SP!Chapter, Part, SP!Execution, Run, SP!Queue!Phase, Phases,
         SP!Over, SP!Idle

\* There is a first chapter to draw.
LEMMA FirstToDraw ==
  ASSUME NEW done \in SUBSET Part, done # Part
  PROVE  (CHOOSE c \in Part \ done : \A d \in Part \ done : c <= d) \in Part \ done
<1> DEFINE T == Part \ done
           R == OpToRel(<, Nat)
<1>1. T \subseteq Nat /\ T # {}
  <2>1. Part \subseteq Nat
    BY DEF Part
  <2> QED BY <2>1
<1>2. \E x \in T : \A y \in T : ~ (<<y, x>> \in R)
  <2> HIDE DEF T
  <2>1. IsWellFoundedOn(R, Nat)
    BY NatLessThanWellFounded
  <2> HIDE DEF R
  <2> QED BY <1>1, <2>1, WFMin
<1>3. \A x \in Nat, y \in Nat : y < x => <<y, x>> \in R
  BY DEF OpToRel
<1>4. \E x \in T : \A y \in T : x <= y
  <2> HIDE DEF T, R
  <2>1. PICK x \in T : \A y \in T : ~ (<<y, x>> \in R)
    BY <1>2
  <2>2. ASSUME NEW y \in T PROVE x <= y
    <3>1. x \in Nat /\ y \in Nat /\ ~(<<y, x>> \in R)
      BY <1>1, <2>1
    <3>2. ~(y < x)
      BY <1>3, <3>1
    <3> QED BY <3>1, <3>2
  <2> QED BY <2>2
<1> QED BY <1>4

-----------------------------------------------------------------------------
\* What a step of one process, or of nobody, keeps: shots only grow.
LEMMA BoardKeeps ==
  ASSUME BoardInv, Rows(board', boardVersion'),
         boardJob' \in [{"task"} -> Phases],
         shots' \in [Version -> SUBSET Part], units' \in [Version -> SUBSET Part],
         prompts' \subseteq Version, prompts \subseteq prompts',
         \A v \in Version : shots[v] \subseteq shots'[v] /\ units'[v] \subseteq shots'[v],
         worker' \in [Workers -> Run \cup {SP!Idle}],
         \A w \in Workers : worker'[w] \in {worker[w], SP!Idle} \/ RunIs(worker'[w], shots', prompts'),
         boardJob'["task"] = "completed" =>
           boardJob["task"] = "completed" \/ \A v \in Version : Drawn(v)
  PROVE  BoardInv'
<1>1. ASSUME NEW v \in Version, Drawn(v) PROVE IsDrawn(v, shots', prompts')
  BY <1>1 DEF Drawn, IsDrawn
<1>2. ASSUME NEW x, RunOk(x) PROVE RunIs(x, shots', prompts')
  <2>1. x \in Run /\ x.at \in Version /\ shots[x.at] \subseteq shots'[x.at] /\ shots'[x.at] \subseteq Part
    BY <1>2 DEF RunOk, RunIs, Run
  <2> QED BY <1>1, <1>2, <2>1 DEF RunOk, RunIs, Drawn
<1>3. \A w \in Workers : worker'[w] = SP!Idle \/ RunIs(worker'[w], shots', prompts')
  <2>1. ASSUME NEW w \in Workers, worker'[w] # SP!Idle PROVE RunIs(worker'[w], shots', prompts')
    <3>1. PICK x : x = worker[w]
      OBVIOUS
    <3>2. CASE worker'[w] = x
      <4>1. RunOk(x)
        BY <2>1, <3>1, <3>2 DEF BoardInv
      <4>2. RunIs(x, shots', prompts')
        BY <4>1, <1>2
      <4> QED BY <3>2, <4>2
    <3> QED BY <2>1, <3>1, <3>2
  <2> QED BY <2>1
<1>4. boardJob'["task"] = "completed" => \A v \in Version : IsDrawn(v, shots', prompts')
  BY <1>1 DEF BoardInv
<1> QED BY <1>3, <1>4 DEF BoardInv, Drawn, RunOk

\* The usual case: one process goes on, the drawing stays.
RunGoes(w, x) == worker' = [worker EXCEPT ![w] = x]

LEMMA RunKeeps ==
  ASSUME BoardInv, NEW w \in Workers, NEW x, RunGoes(w, x), x = SP!Idle \/ RunOk(x),
         UNCHANGED <<shots, units>>, prompts' = prompts, Rows(board', boardVersion'),
         boardJob' \in [{"task"} -> Phases],
         boardJob'["task"] = "completed" =>
           boardJob["task"] = "completed" \/ \A v \in Version : Drawn(v)
  PROVE  BoardInv'
<1>1. x \in Run \cup {SP!Idle}
  BY DEF RunOk, RunIs
<1>2. worker' \in [Workers -> Run \cup {SP!Idle}]
  BY <1>1 DEF BoardInv, RunGoes
<1>3. x = SP!Idle \/ RunIs(x, shots', prompts')
  BY DEF RunOk, RunIs, IsDrawn
<1>4. \A u \in Workers : worker'[u] = IF u = w THEN x ELSE worker[u]
  BY DEF BoardInv, RunGoes
<1>5. \A u \in Workers : worker'[u] \in {worker[u], SP!Idle} \/ RunIs(worker'[u], shots', prompts')
  <2>1. ASSUME NEW u \in Workers PROVE worker'[u] \in {worker[u], SP!Idle} \/ RunIs(worker'[u], shots', prompts')
    <3>1. CASE u = w
      BY <1>3, <1>4, <3>1
    <3>2. CASE u # w
      BY <1>4, <3>2
    <3> QED BY <3>1, <3>2
  <2> QED BY <2>1
<1>6. /\ shots' \in [Version -> SUBSET Part] /\ units' \in [Version -> SUBSET Part]
      /\ prompts' \subseteq Version /\ prompts \subseteq prompts'
      /\ \A v \in Version : shots[v] \subseteq shots'[v] /\ units'[v] \subseteq shots'[v]
  BY DEF BoardInv
<1> QED BY <1>2, <1>5, <1>6, BoardKeeps

\* A message starts a process from the beginning.
LEMMA StartedOk ==
  ASSUME BoardInv, NEW id \in BoardIds PROVE RunOk(SP!Started(id))
<1>1. SP!Started(id) = [pc |-> "start", id |-> id, at |-> 1, done |-> {}, loaded |-> "expired",
                        was |-> "none", end |-> "none"]
  BY DEF SP!Started
<1>2. SP!Started(id) \in Run
  BY <1>1, BoardNumbers DEF Run
<1>3. \A v \in Version : ~(v < 1)
  BY BoardNumbers DEF Version
<1> QED BY <1>1, <1>2, <1>3 DEF RunOk, RunIs

\* The job of the task after a move.
LEMMA JobMoves ==
  ASSUME BoardInv, NEW from, NEW to \in SUBSET Phases, SP!Move(from, to)
  PROVE  boardJob' \in [{"task"} -> Phases] /\ boardJob'["task"] \in to /\ boardJob["task"] \in from
<1>1. PICK p \in to : boardJob' = [boardJob EXCEPT !["task"] = p]
  BY DEF SP!Move, SP!Queue!Move
<1>2. boardJob["task"] \in from
  BY DEF SP!Move, SP!Queue!Move
<1> QED BY <1>1, <1>2 DEF BoardInv

\* The commands of the user, and the recovery tick.
LEMMA BoardCommands ==
  ASSUME BoardInv, SP!Pause \/ SP!Resume \/ SP!Cancel \/ SP!Retry \/ SP!Reclaim
  PROVE  BoardInv'
<1>1. UNCHANGED <<shots, units, prompts>>
  BY DEF SP!Pause, SP!Resume, SP!Cancel, SP!Retry, SP!Reclaim, SP!drawn
<1>2. /\ boardJob' \in [{"task"} -> Phases]
      /\ boardJob'["task"] = "completed" => boardJob["task"] = "completed"
  <2>1. \/ boardJob' = boardJob
        \/ \E from : \E to \in SUBSET (Phases \ {"completed"}) : SP!Move(from, to)
    <3>1. /\ {"suspended"} \in SUBSET (Phases \ {"completed"})
          /\ {"waiting"} \in SUBSET (Phases \ {"completed"})
          /\ {"cancelled"} \in SUBSET (Phases \ {"completed"})
          /\ {"waiting", "failed"} \in SUBSET (Phases \ {"completed"})
      BY DEF Phases
    <3>2. \/ boardJob' = boardJob
          \/ SP!Move({"waiting", "held"}, {"suspended"})
          \/ SP!Move({"suspended", "failed"}, {"waiting"})
          \/ SP!Move({"waiting", "held", "suspended"}, {"cancelled"})
          \/ SP!Move({"held"}, {"waiting", "failed"})
      BY DEF SP!Pause, SP!Resume, SP!Cancel, SP!Retry, SP!Reclaim
    <3> HIDE DEF SP!Move
    <3> QED BY <3>1, <3>2
  <2>2. CASE boardJob' = boardJob
    BY <2>2 DEF BoardInv
  <2>3. ASSUME NEW from, NEW to \in SUBSET (Phases \ {"completed"}), SP!Move(from, to)
        PROVE  boardJob' \in [{"task"} -> Phases] /\ boardJob'["task"] # "completed"
    BY <2>3, JobMoves
  <2> QED BY <2>1, <2>2, <2>3
<1>3. \A w \in Workers : worker'[w] \in {worker[w], SP!Idle}
  BY DEF SP!Pause, SP!Resume, SP!Cancel, SP!Retry, SP!Reclaim, BoardInv
<1>4. worker' \in [Workers -> Run \cup {SP!Idle}]
  <2>1. worker' = worker \/ worker' = [w \in Workers |->
                  IF worker[w] # SP!Idle /\ worker[w].id = holder THEN SP!Idle ELSE worker[w]]
    BY DEF SP!Pause, SP!Resume, SP!Cancel, SP!Retry, SP!Reclaim
  <2> QED BY <2>1 DEF BoardInv
<1>5. /\ shots' \in [Version -> SUBSET Part] /\ units' \in [Version -> SUBSET Part]
      /\ prompts' \subseteq Version /\ prompts \subseteq prompts'
      /\ \A v \in Version : shots[v] \subseteq shots'[v] /\ units'[v] \subseteq shots'[v]
  BY <1>1 DEF BoardInv
<1>6. Rows(board', boardVersion')
  <2>1. board' \in {board, "paused", "queued", "cancelled", "submitted"} /\ boardVersion' = boardVersion
    BY DEF SP!Pause, SP!Resume, SP!Cancel, SP!Retry, SP!Reclaim, SP!drawn
  <2> QED BY <2>1 DEF BoardInv, Rows, SP!TaskState, SP!Over
<1> QED BY <1>2, <1>3, <1>4, <1>5, <1>6, BoardKeeps

LEMMA BoardMessages ==
  ASSUME BoardInv, SP!Dispatch \/ \E w \in Workers : SP!Crash(w) \/ SP!Redeliver(w)
  PROVE  BoardInv'
<1>0. UNCHANGED <<board, boardVersion>> /\ Rows(board', boardVersion')
  BY DEF SP!Dispatch, SP!Crash, SP!Redeliver, SP!drawn, BoardInv
<1>1. UNCHANGED <<shots, units>> /\ prompts' = prompts
  BY DEF SP!Dispatch, SP!Crash, SP!Redeliver, SP!drawn
<1>2. /\ boardJob' \in [{"task"} -> Phases]
      /\ boardJob'["task"] = "completed" => boardJob["task"] = "completed"
  <2>1. CASE SP!Dispatch
    <3>1. SP!Move({"waiting"}, {"held"})
      BY <2>1 DEF SP!Dispatch
    <3> QED BY <3>1, JobMoves DEF Phases
  <2>2. CASE boardJob' = boardJob
    BY <2>2 DEF BoardInv
  <2> QED BY <2>1, <2>2 DEF SP!Crash, SP!Redeliver
<1>3. worker' = worker \/ \E w \in Workers, id \in BoardIds : RunGoes(w, SP!Started(id))
  <2>1. CASE SP!Dispatch
    BY <2>1 DEF SP!Dispatch, RunGoes
  <2>2. ASSUME NEW w \in Workers, SP!Crash(w) PROVE RunGoes(w, SP!Started(worker[w].id)) /\ worker[w].id \in BoardIds
    BY <2>2 DEF SP!Crash, RunGoes, BoardInv, RunOk, Run
  <2>3. ASSUME NEW w \in Workers, SP!Redeliver(w)
        PROVE  \E id \in BoardIds : RunGoes(w, SP!Started(id))
    <3>1. PICK x \in Workers : /\ worker[x] # SP!Idle
                               /\ worker' = [worker EXCEPT ![w] = SP!Started(worker[x].id)]
      BY <2>3 DEF SP!Redeliver
    <3>2. worker[x].id \in BoardIds
      BY <3>1 DEF BoardInv, RunOk, RunIs, Run
    <3> QED BY <3>1, <3>2 DEF RunGoes
  <2> QED BY <2>1, <2>2, <2>3
<1>4. CASE worker' = worker
  <2>1. /\ worker' \in [Workers -> Run \cup {SP!Idle}]
        /\ \A w \in Workers : worker'[w] \in {worker[w], SP!Idle}
        /\ shots' \in [Version -> SUBSET Part] /\ units' \in [Version -> SUBSET Part]
        /\ prompts' \subseteq Version /\ prompts \subseteq prompts'
        /\ \A v \in Version : shots[v] \subseteq shots'[v] /\ units'[v] \subseteq shots'[v]
    BY <1>1, <1>4 DEF BoardInv
  <2> QED BY <1>0, <1>2, <2>1, BoardKeeps
<1>5. ASSUME NEW w \in Workers, NEW id \in BoardIds, RunGoes(w, SP!Started(id)) PROVE BoardInv'
  BY <1>0, <1>1, <1>2, <1>5, StartedOk, RunKeeps
<1> QED BY <1>3, <1>4, <1>5

-----------------------------------------------------------------------------
(* The steps of a process.                                                 *)

LEMMA WorkerIs ==
  ASSUME BoardInv, NEW w \in Workers, worker[w].pc # "idle"
  PROVE  /\ RunOk(worker[w]) /\ worker[w] \in Run /\ worker[w].at \in Version
         /\ worker[w].done \in SUBSET Part
<1>1. RunOk(worker[w])
  BY BoardNames DEF BoardInv
<1> QED BY <1>1 DEF RunOk, RunIs, Run

\* It goes to a place where nothing more is expected of it, or leaves.
LEMMA RunLeaves ==
  ASSUME BoardInv, NEW w \in Workers, worker[w].pc # "idle",
         UNCHANGED <<shots, units>>, prompts' = prompts, boardJob' = boardJob,
         Rows(board', boardVersion'),
         \/ SP!Exit(w)
         \/ \E pc \in {"leave", "finalize"}, end \in {"failed", "cancelled", "paused"} : SP!Leaving(w, pc, end)
         \/ \E pc \in {"begin", "version"}, loaded \in SP!TaskState : SP!Goto(w, pc, loaded)
  PROVE  BoardInv'
<1>0. RunOk(worker[w]) /\ worker[w] \in Run /\ worker \in [Workers -> Run \cup {SP!Idle}]
  BY WorkerIs DEF BoardInv
<1>1. \E x : RunGoes(w, x) /\ (x = SP!Idle \/ RunOk(x))
  <2>1. CASE SP!Exit(w)
    BY <2>1 DEF SP!Exit, RunGoes
  <2>2. ASSUME NEW pc \in {"leave", "finalize"}, NEW end \in {"failed", "cancelled", "paused"}, SP!Leaving(w, pc, end)
        PROVE  \E x : RunGoes(w, x) /\ RunOk(x)
    <3>1. PICK x : x = [worker[w] EXCEPT !.pc = pc, !.end = end, !.done = {}, !.loaded = "expired", !.was = "none"]
      OBVIOUS
    <3>2. RunGoes(w, x)
      BY <1>0, <2>2, <3>1 DEF SP!Leaving, RunGoes
    <3>3. x \in Run /\ x.pc = pc /\ x.end = end /\ x.done = {} /\ x.at = worker[w].at
      BY <1>0, <3>1 DEF Run, SP!Over
    <3>4. RunOk(x)
      BY <1>0, <3>3 DEF RunOk, RunIs
    <3> QED BY <3>2, <3>4
  <2>3. ASSUME NEW pc \in {"begin", "version"}, NEW loaded \in SP!TaskState, SP!Goto(w, pc, loaded)
        PROVE  \E x : RunGoes(w, x) /\ RunOk(x)
    <3>1. PICK x : x = [worker[w] EXCEPT !.pc = pc, !.loaded = loaded]
      OBVIOUS
    <3>2. RunGoes(w, x)
      BY <1>0, <2>3, <3>1 DEF SP!Goto, RunGoes
    <3>3. x \in Run /\ x.pc = pc /\ x.end = worker[w].end /\ x.done = worker[w].done /\ x.at = worker[w].at
      BY <1>0, <3>1 DEF Run
    <3>4. RunOk(x)
      BY <1>0, <3>3 DEF RunOk, RunIs
    <3> QED BY <3>2, <3>4
  <2> QED BY <2>1, <2>2, <2>3
<1>2. PICK x : RunGoes(w, x) /\ (x = SP!Idle \/ RunOk(x))
  BY <1>1
<1>3. boardJob' \in [{"task"} -> Phases]
  BY DEF BoardInv
<1> QED BY <1>2, <1>3, RunKeeps
LEMMA RowsMove ==
  ASSUME BoardInv, NEW w \in Workers, worker[w].pc # "idle"
  PROVE  /\ board \in SP!TaskState
         /\ \A s \in SP!TaskState : SP!Written(w, s) \in SP!TaskState
         /\ \A st \in SP!VersionStatus : SP!VersionEnds(w, st) => Rows(board, boardVersion')
<1>1. worker[w].at \in Version /\ boardVersion \in [Version -> SP!VersionStatus] /\ board \in SP!TaskState
  BY WorkerIs DEF BoardInv, Rows
<1>2. ASSUME NEW st \in SP!VersionStatus, SP!VersionEnds(w, st) PROVE Rows(board, boardVersion')
  <2>1. PICK y : y = IF worker[w].was = st THEN boardVersion[worker[w].at] ELSE st
    OBVIOUS
  <2>2. y \in SP!VersionStatus
    BY <1>1, <2>1
  <2>3. boardVersion' = [boardVersion EXCEPT ![worker[w].at] = y]
    BY <1>2, <2>1 DEF SP!VersionEnds
  <2> QED BY <1>1, <2>2, <2>3 DEF Rows
<1>3. \A s \in SP!TaskState : SP!Written(w, s) \in SP!TaskState
  BY <1>1 DEF SP!Written
<1> QED BY <1>1, <1>2, <1>3

\* A process starts, fails, waits, sees a cancellation or a gate that is shut.
LEMMA BoardLeaves ==
  ASSUME BoardInv, NEW w \in Workers,
         \/ SP!Activate(w) \/ SP!Fails(w) \/ SP!Begin(w) \/ SP!StayPaused(w)
         \/ SP!SeeCancelled(w) \/ SP!GateFails(w)
  PROVE  BoardInv'
<1>0. worker[w].pc # "idle" /\ UNCHANGED <<shots, units>> /\ prompts' = prompts /\ boardJob' = boardJob
  BY DEF SP!Activate, SP!Fails, SP!Begin, SP!StayPaused, SP!SeeCancelled, SP!GateFails, SP!At, SP!drawn
<1>1. board \in SP!TaskState /\ boardVersion \in [Version -> SP!VersionStatus]
  BY DEF BoardInv, Rows
<1>2. {"running", "failed"} \subseteq SP!TaskState /\ {"failed"} \subseteq SP!VersionStatus
  BY DEF SP!TaskState, SP!Over, SP!VersionStatus
<1>3. Rows(board', boardVersion')
  <2>1. board' \in SP!TaskState
    <3>1. board' \in {board, SP!Written(w, "running"), SP!Written(w, "failed")}
      BY DEF SP!Activate, SP!Fails, SP!Begin, SP!StayPaused, SP!SeeCancelled, SP!GateFails
    <3> QED BY <1>0, <1>2, <3>1, RowsMove
  <2>2. boardVersion' \in [Version -> SP!VersionStatus]
    <3>1. CASE SP!GateFails(w)
      <4>1. SP!VersionEnds(w, "failed")
        BY <3>1 DEF SP!GateFails
      <4>2. Rows(board, boardVersion')
        BY <1>0, <1>2, <4>1, RowsMove
      <4> QED BY <4>2 DEF Rows
    <3>2. CASE SP!SeeCancelled(w)
      <4>1. boardVersion' = [v \in Version |-> "failed"]
        BY <3>2, BoardNames DEF SP!SeeCancelled
      <4> QED BY <1>2, <4>1
    <3>3. CASE boardVersion' = boardVersion
      BY <1>1, <3>3
    <3> QED BY <3>1, <3>2, <3>3 DEF SP!Activate, SP!Fails, SP!Begin, SP!StayPaused, SP!drawn
  <2> QED BY <2>1, <2>2 DEF Rows
<1>4. \/ SP!Exit(w)
      \/ \E pc \in {"leave", "finalize"}, end \in {"failed", "cancelled", "paused"} : SP!Leaving(w, pc, end)
      \/ \E pc \in {"begin", "version"}, loaded \in SP!TaskState : SP!Goto(w, pc, loaded)
  <2>1. \/ SP!Exit(w)
        \/ SP!Leaving(w, "leave", "cancelled") \/ SP!Leaving(w, "leave", "paused")
        \/ SP!Leaving(w, "leave", "failed")
        \/ SP!Leaving(w, "finalize", "cancelled") \/ SP!Leaving(w, "finalize", "failed")
        \/ SP!Goto(w, "begin", board) \/ SP!Goto(w, "version", board') \/ SP!Goto(w, "version", board)
    <3> HIDE DEF SP!Leaving, SP!Goto, SP!Exit
    <3> QED BY DEF SP!Activate, SP!Fails, SP!Begin, SP!StayPaused, SP!SeeCancelled, SP!GateFails, SP!Leave
  <2>2. board' \in SP!TaskState
    BY <1>3 DEF Rows
  <2> HIDE DEF SP!Leaving, SP!Goto, SP!Exit
  <2> QED BY <1>1, <2>1, <2>2
<1> HIDE DEF SP!Leaving, SP!Goto, SP!Exit
<1> QED BY <1>0, <1>3, <1>4, RunLeaves

\* It goes on with its version: what it relies on is there.
LEMMA BoardGoesOn ==
  ASSUME BoardInv, NEW w \in Workers,
         \/ SP!StartVersion(w) \/ SP!NextChapter(w) \/ SP!StyleGatePasses(w) \/ SP!Complete(w)
         \/ SP!Handler(w)
  PROVE  BoardInv'
<1>0. /\ worker[w].pc # "idle" /\ UNCHANGED <<shots, units>> /\ prompts' = prompts /\ boardJob' = boardJob
      /\ boardVersion' = boardVersion
  BY DEF SP!StartVersion, SP!NextChapter, SP!StyleGatePasses, SP!Complete, SP!Handler, SP!At, SP!drawn
<1>1. /\ RunOk(worker[w]) /\ worker[w] \in Run /\ worker[w].at \in Version /\ worker[w].done \in SUBSET Part
      /\ worker \in [Workers -> Run \cup {SP!Idle}] /\ board \in SP!TaskState
      /\ boardVersion \in [Version -> SP!VersionStatus] /\ worker[w].loaded \in SP!TaskState \cup {"expired"}
      /\ shots[worker[w].at] \subseteq Part /\ units[worker[w].at] \subseteq shots[worker[w].at]
  BY <1>0, WorkerIs DEF BoardInv, Rows, Run
<1>2. {"running", "completed"} \subseteq SP!TaskState
  BY DEF SP!TaskState, SP!Over
<1>3. boardJob' \in [{"task"} -> Phases]
  BY <1>0 DEF BoardInv
<1>4. CASE SP!StartVersion(w)
  <2>1. /\ board' = SP!Written(w, "running")
        /\ worker' = [worker EXCEPT ![w].pc = "chapter", ![w].loaded = board', ![w].done = units[worker[w].at]]
    BY <1>4 DEF SP!StartVersion, SP!Completed
  <2>2. board' \in SP!TaskState
    BY <1>0, <1>2, <2>1, RowsMove
  <2>3. PICK b : b = board'
    OBVIOUS
  <2>4. PICK x : x = [worker[w] EXCEPT !.pc = "chapter", !.loaded = b, !.done = units[worker[w].at]]
    OBVIOUS
  <2>5. RunGoes(w, x)
    BY <1>1, <2>1, <2>3, <2>4 DEF RunGoes
  <2>6. /\ x \in Run /\ x.pc = "chapter" /\ x.end = worker[w].end /\ x.done = units[worker[w].at]
        /\ x.at = worker[w].at
    BY <1>1, <2>2, <2>3, <2>4 DEF Run
  <2>7. RunOk(x)
    BY <1>1, <2>6 DEF RunOk, RunIs
  <2>8. Rows(board', boardVersion')
    BY <1>0, <1>1, <2>2 DEF Rows
  <2> QED BY <1>0, <1>3, <2>5, <2>7, <2>8, RunKeeps
<1>5. CASE SP!NextChapter(w)
  <2>1. board' = board /\ Rows(board', boardVersion')
    BY <1>0, <1>1, <1>5 DEF SP!NextChapter, Rows
  <2>2. CASE SP!Exit(w) \/ SP!Leave(w, "cancelled") \/ SP!Leave(w, "paused")
    <3>1. SP!Exit(w) \/ \E pc \in {"leave", "finalize"}, end \in {"failed", "cancelled", "paused"} : SP!Leaving(w, pc, end)
      BY <2>2 DEF SP!Leave
    <3> HIDE DEF SP!Leaving, SP!Goto, SP!Exit
    <3> QED BY <1>0, <2>1, <3>1, RunLeaves
  <2>3. ASSUME NEW pc \in {"gate", "draw"}, SP!Goto(w, pc, worker[w].loaded),
               pc = "gate" <=> worker[w].done = Part
        PROVE  BoardInv'
    <3>1. PICK x : x = [worker[w] EXCEPT !.pc = pc]
      OBVIOUS
    <3>2. worker' = [worker EXCEPT ![w].pc = pc, ![w].loaded = worker[w].loaded]
      BY <2>3 DEF SP!Goto
    <3>3. [worker[w] EXCEPT !.pc = pc, !.loaded = worker[w].loaded] = [worker[w] EXCEPT !.pc = pc]
      BY <1>1 DEF Run
    <3>4. RunGoes(w, x)
      BY <1>1, <3>1, <3>2, <3>3 DEF RunGoes
    <3>5. /\ x \in Run /\ x.pc = pc /\ x.end = worker[w].end /\ x.done = worker[w].done
          /\ x.at = worker[w].at
      BY <1>1, <3>1 DEF Run
    <3>6. pc = "gate" => shots[x.at] = Part
      <4>1. worker[w].done \subseteq shots[worker[w].at]
        BY <1>1 DEF RunOk, RunIs
      <4>2. pc = "gate" => worker[w].done = Part
        BY <2>3
      <4>3. shots[worker[w].at] \subseteq Part
        BY <1>1
      <4>4. pc = "gate" => shots[worker[w].at] = Part
        BY <4>1, <4>2, <4>3
      <4> QED BY <3>5, <4>4
    <3>7. RunOk(x)
      BY <1>1, <2>3, <3>5, <3>6 DEF RunOk, RunIs
    <3> QED BY <1>0, <1>3, <2>1, <3>4, <3>7, RunKeeps
  <2>4. \/ SP!Exit(w) \/ SP!Leave(w, "cancelled") \/ SP!Leave(w, "paused")
        \/ (SP!Goto(w, "gate", worker[w].loaded) /\ worker[w].done = Part)
        \/ (SP!Goto(w, "draw", worker[w].loaded) /\ worker[w].done # Part)
    <3> HIDE DEF SP!Leave, SP!Goto, SP!Exit
    <3> QED BY <1>5, BoardNames DEF SP!NextChapter
  <2> QED BY <2>2, <2>3, <2>4
<1>6. CASE SP!StyleGatePasses(w)
  <2>1. /\ board' = SP!Written(w, "running") /\ worker[w].pc = "gate"
        /\ worker' = [worker EXCEPT ![w].pc = "compose", ![w].loaded = board',
                              ![w].was = boardVersion[worker[w].at]]
    BY <1>6 DEF SP!StyleGatePasses, SP!At
  <2>2. board' \in SP!TaskState
    BY <1>0, <1>2, <2>1, RowsMove
  <2>3. PICK b : b = board'
    OBVIOUS
  <2>4. PICK x : x = [worker[w] EXCEPT !.pc = "compose", !.loaded = b, !.was = boardVersion[worker[w].at]]
    OBVIOUS
  <2>5. RunGoes(w, x)
    BY <1>1, <2>1, <2>3, <2>4 DEF RunGoes
  <2>6. /\ x \in Run /\ x.pc = "compose" /\ x.end = worker[w].end /\ x.done = worker[w].done
        /\ x.at = worker[w].at
    BY <1>1, <2>2, <2>3, <2>4 DEF Run
  <2>7. RunOk(x)
    BY <1>1, <2>1, <2>6 DEF RunOk, RunIs
  <2>8. Rows(board', boardVersion')
    BY <1>0, <1>1, <2>2 DEF Rows
  <2> QED BY <1>0, <1>3, <2>5, <2>7, <2>8, RunKeeps
<1>7. CASE SP!Complete(w)
  <2>1. /\ board' = SP!Written(w, "completed") /\ worker[w].pc = "end"
        /\ SP!Leaving(w, "finalize", "completed")
    BY <1>7 DEF SP!Complete, SP!At
  <2>2. board' \in SP!TaskState
    BY <1>0, <1>2, <2>1, RowsMove
  <2>3. PICK x : x = [worker[w] EXCEPT !.pc = "finalize", !.end = "completed", !.done = {}, !.loaded = "expired", !.was = "none"]
    OBVIOUS
  <2>4. RunGoes(w, x)
    BY <1>1, <2>1, <2>3 DEF SP!Leaving, RunGoes
  <2>5. x \in Run /\ x.pc = "finalize" /\ x.end = "completed" /\ x.done = {} /\ x.at = worker[w].at
    BY <1>1, <2>3 DEF Run, SP!Over
  <2>6. RunOk(x)
    BY <1>1, <2>1, <2>5 DEF RunOk, RunIs
  <2>7. Rows(board', boardVersion')
    BY <1>0, <1>1, <2>2 DEF Rows
  <2> QED BY <1>0, <1>3, <2>4, <2>6, <2>7, RunKeeps
<1>8. CASE SP!Handler(w)
  <2>1. board' = worker[w].end /\ worker[w].pc = "leave" /\ worker' = [worker EXCEPT ![w].pc = "finalize"]
    BY <1>8 DEF SP!Handler, SP!At
  <2>2. board' \in SP!TaskState
    BY <1>1, <2>1 DEF RunOk, RunIs, Run, SP!TaskState
  <2>3. PICK x : x = [worker[w] EXCEPT !.pc = "finalize"]
    OBVIOUS
  <2>4. RunGoes(w, x)
    BY <1>1, <2>1, <2>3 DEF RunGoes
  <2>5. x \in Run /\ x.pc = "finalize" /\ x.end = worker[w].end /\ x.done = worker[w].done /\ x.at = worker[w].at
    BY <1>1, <2>3 DEF Run
  <2>6. RunOk(x)
    BY <1>1, <2>1, <2>5 DEF RunOk, RunIs
  <2>7. Rows(board', boardVersion')
    BY <1>0, <1>1, <2>2 DEF Rows
  <2> QED BY <1>0, <1>3, <2>4, <2>6, <2>7, RunKeeps
<1> QED BY <1>4, <1>5, <1>6, <1>7, <1>8

\* The shots of a chapter and its checkpoint.
LEMMA BoardSaves ==
  ASSUME BoardInv, NEW w \in Workers, SP!SaveChapter(w) PROVE BoardInv'
<1>0. /\ worker[w].pc = "draw" /\ prompts' = prompts /\ boardJob' = boardJob
      /\ UNCHANGED <<board, boardVersion>>
  BY DEF SP!SaveChapter, SP!At
<1>1. /\ RunOk(worker[w]) /\ worker[w] \in Run /\ worker[w].at \in Version /\ worker[w].done \in SUBSET Part
      /\ worker \in [Workers -> Run \cup {SP!Idle}]
      /\ shots \in [Version -> SUBSET Part] /\ units \in [Version -> SUBSET Part]
  BY <1>0, WorkerIs DEF BoardInv
<1>2. PICK v, c : v = worker[w].at /\ c = SP!Drawing(w)
  OBVIOUS
<1>3. v \in Version /\ c \in Part
  <2>1. worker[w].done # Part
    BY <1>0, <1>1 DEF RunOk, RunIs
  <2>2. c = CHOOSE e \in Part \ worker[w].done : \A d \in Part \ worker[w].done : e <= d
    BY <1>2, BoardNames DEF SP!Drawing
  <2> QED BY <1>1, <1>2, <2>1, <2>2, FirstToDraw
<1>4. /\ shots' = [shots EXCEPT ![v] = @ \cup {c}] /\ units' = [units EXCEPT ![v] = @ \cup {c}]
      /\ worker' = [worker EXCEPT ![w].pc = "chapter", ![w].loaded = "expired", ![w].done = @ \cup {c}]
  BY <1>2 DEF SP!SaveChapter, SP!Shots, SP!Marked
<1>5. /\ shots' \in [Version -> SUBSET Part] /\ units' \in [Version -> SUBSET Part]
      /\ prompts' \subseteq Version /\ prompts \subseteq prompts'
      /\ \A u \in Version : shots[u] \subseteq shots'[u] /\ units'[u] \subseteq shots'[u]
  BY <1>0, <1>1, <1>3, <1>4 DEF BoardInv
<1>6. PICK x : x = [worker[w] EXCEPT !.pc = "chapter", !.loaded = "expired", !.done = @ \cup {c}]
  OBVIOUS
<1>7. worker' = [worker EXCEPT ![w] = x]
  BY <1>1, <1>4, <1>6
<1>8. /\ x \in Run /\ x.pc = "chapter" /\ x.end = worker[w].end /\ x.done = worker[w].done \cup {c} /\ x.at = v
  BY <1>1, <1>2, <1>3, <1>6 DEF Run
<1>9. RunIs(x, shots', prompts')
  <2>1. x.done \subseteq shots'[x.at]
    BY <1>1, <1>2, <1>3, <1>4, <1>8 DEF RunOk, RunIs
  <2>2. ASSUME NEW u \in Version, Drawn(u) PROVE IsDrawn(u, shots', prompts')
    BY <1>0, <1>1, <1>3, <1>4, <2>2 DEF Drawn, IsDrawn
  <2>3. /\ \A u \in Version : u < x.at => Drawn(u)
        /\ x.end = "completed" => \A u \in Version : Drawn(u)
    BY <1>1, <1>2, <1>8 DEF RunOk, RunIs, Drawn
  <2> QED BY <1>8, <2>1, <2>2, <2>3 DEF RunIs
<1>10. worker' \in [Workers -> Run \cup {SP!Idle}]
  BY <1>1, <1>7, <1>8
<1>11. \A u \in Workers : worker'[u] \in {worker[u], SP!Idle} \/ RunIs(worker'[u], shots', prompts')
  <2>1. \A u \in Workers : worker'[u] = IF u = w THEN x ELSE worker[u]
    BY <1>1, <1>7
  <2>2. ASSUME NEW u \in Workers
        PROVE  worker'[u] \in {worker[u], SP!Idle} \/ RunIs(worker'[u], shots', prompts')
    <3>1. CASE u = w
      BY <1>9, <2>1, <3>1
    <3>2. CASE u # w
      BY <2>1, <3>2
    <3> QED BY <3>1, <3>2
  <2> QED BY <2>2
<1>12. Rows(board', boardVersion') /\ boardJob' \in [{"task"} -> Phases]
  BY <1>0 DEF BoardInv
<1> QED BY <1>0, <1>5, <1>10, <1>11, <1>12, BoardKeeps

\* The prompts of a version, which ends it.
LEMMA BoardCompletes ==
  ASSUME BoardInv, NEW w \in Workers, SP!CompleteVersion(w) PROVE BoardInv'
<1>0. /\ worker[w].pc = "compose" /\ UNCHANGED <<shots, units>> /\ boardJob' = boardJob
      /\ board' = SP!Written(w, "running") /\ SP!VersionEnds(w, "completed")
  BY DEF SP!CompleteVersion, SP!At
<1>1. /\ RunOk(worker[w]) /\ worker[w] \in Run /\ worker[w].at \in Version
      /\ worker \in [Workers -> Run \cup {SP!Idle}]
      /\ shots \in [Version -> SUBSET Part] /\ units \in [Version -> SUBSET Part]
  BY <1>0, WorkerIs DEF BoardInv
<1>2. Rows(board', boardVersion')
  <2>1. "running" \in SP!TaskState /\ "completed" \in SP!VersionStatus
    BY DEF SP!TaskState, SP!Over, SP!VersionStatus
  <2> QED BY <1>0, <2>1, RowsMove DEF Rows
<1>3. PICK v, b : v = worker[w].at /\ b = board'
  OBVIOUS
<1>4. prompts' = prompts \cup {v}
  BY <1>3 DEF SP!CompleteVersion
<1>5. /\ shots' \in [Version -> SUBSET Part] /\ units' \in [Version -> SUBSET Part]
      /\ prompts' \subseteq Version /\ prompts \subseteq prompts'
      /\ \A u \in Version : shots[u] \subseteq shots'[u] /\ units'[u] \subseteq shots'[u]
  BY <1>0, <1>1, <1>3, <1>4 DEF BoardInv
<1>6. \A u \in Version : u <= v => IsDrawn(u, shots', prompts')
  <2>1. ASSUME NEW u \in Version, u < v PROVE IsDrawn(u, shots', prompts')
    BY <1>0, <1>1, <1>3, <1>4, <2>1 DEF RunOk, RunIs, IsDrawn
  <2>2. IsDrawn(v, shots', prompts')
    BY <1>0, <1>1, <1>3, <1>4 DEF RunOk, RunIs, IsDrawn
  <2>3. ASSUME NEW u \in Version, u <= v PROVE u < v \/ u = v
    BY <1>1, <1>3, <2>3, BoardNumbers DEF Version
  <2> QED BY <2>1, <2>2, <2>3
<1>7. PICK pc, n : /\ pc = IF v = Lanes THEN "end" ELSE "version"
                   /\ n = IF v = Lanes THEN v ELSE v + 1
  OBVIOUS
<1>8. n \in Version /\ (v # Lanes => n = v + 1) /\ (v = Lanes => n = v) /\ pc \in {"end", "version"}
  BY <1>1, <1>3, <1>7, BoardNumbers DEF Version
<1>9. PICK x : x = [worker[w] EXCEPT !.pc = pc, !.at = n, !.done = {}, !.loaded = b, !.was = "none"]
  OBVIOUS
<1>10. worker' = [worker EXCEPT ![w] = x]
  <2>1. worker' = [worker EXCEPT ![w].pc = IF v = Lanes THEN "end" ELSE "version",
                              ![w].at = IF v = Lanes THEN v ELSE v + 1, ![w].done = {},
                              ![w].loaded = board', ![w].was = "none"]
    BY <1>3 DEF SP!CompleteVersion
  <2>2. worker' = [worker EXCEPT ![w].pc = pc, ![w].at = n, ![w].done = {},
                              ![w].loaded = b, ![w].was = "none"]
    BY <1>3, <1>7, <2>1
  <2> QED BY <1>1, <1>9, <2>2
<1>11. /\ x \in Run /\ x.pc = pc /\ x.at = n /\ x.done = {} /\ x.end = worker[w].end
  BY <1>1, <1>2, <1>3, <1>8, <1>9 DEF Run, Rows
<1>12. RunIs(x, shots', prompts')
  <2>1. ASSUME NEW u \in Version, u < n PROVE IsDrawn(u, shots', prompts')
    <3>1. u <= v
      BY <1>1, <1>3, <1>8, <2>1, BoardNumbers DEF Version
    <3> QED BY <1>6, <3>1
  <2>2. pc = "end" => \A u \in Version : IsDrawn(u, shots', prompts')
    <3>1. pc = "end" => v = Lanes
      BY <1>7
    <3>2. \A u \in Version : u <= Lanes
      BY BoardNumbers DEF Version
    <3> QED BY <1>6, <3>1, <3>2
  <2>3. x.end = "completed" => \A u \in Version : IsDrawn(u, shots', prompts')
    BY <1>0, <1>1, <1>4, <1>11 DEF RunOk, RunIs, IsDrawn
  <2> QED BY <1>8, <1>11, <2>1, <2>2, <2>3 DEF RunIs
<1>13. worker' \in [Workers -> Run \cup {SP!Idle}]
  BY <1>1, <1>10, <1>11
<1>14. \A u \in Workers : worker'[u] \in {worker[u], SP!Idle} \/ RunIs(worker'[u], shots', prompts')
  <2>1. \A u \in Workers : worker'[u] = IF u = w THEN x ELSE worker[u]
    BY <1>1, <1>10
  <2>2. ASSUME NEW u \in Workers
        PROVE  worker'[u] \in {worker[u], SP!Idle} \/ RunIs(worker'[u], shots', prompts')
    <3>1. CASE u = w
      BY <1>12, <2>1, <3>1
    <3>2. CASE u # w
      BY <2>1, <3>2
    <3> QED BY <3>1, <3>2
  <2> QED BY <2>2
<1>15. boardJob' \in [{"task"} -> Phases]
  BY <1>0 DEF BoardInv
<1> QED BY <1>0, <1>2, <1>5, <1>13, <1>14, <1>15, BoardKeeps

\* The report: success only of a process that has drawn everything.
LEMMA BoardReports ==
  ASSUME BoardInv, NEW w \in Workers, SP!Finalize(w) PROVE BoardInv'
<1>0. /\ worker[w].pc = "finalize" /\ UNCHANGED <<shots, units>> /\ prompts' = prompts
      /\ UNCHANGED <<board, boardVersion>> /\ RunGoes(w, SP!Idle)
  BY DEF SP!Finalize, SP!At, SP!drawn, SP!Exit, RunGoes
<1>1. RunOk(worker[w]) /\ worker[w] \in Run
  BY <1>0, WorkerIs
<1>2. PICK to : to = IF worker[w].end = "paused" THEN "suspended" ELSE worker[w].end
  OBVIOUS
<1>3. to \in Phases /\ (to = "completed" => worker[w].end = "completed")
  BY <1>0, <1>1, <1>2 DEF RunOk, RunIs, Run, SP!Over, Phases
<1>4. /\ boardJob' \in [{"task"} -> Phases]
      /\ boardJob'["task"] = "completed" =>
           boardJob["task"] = "completed" \/ \A v \in Version : Drawn(v)
  <2>1. CASE SP!Move({"held"}, {to})
    <3>1. boardJob' \in [{"task"} -> Phases] /\ boardJob'["task"] = to
      BY <1>3, <2>1, JobMoves
    <3> QED BY <1>1, <1>3, <3>1 DEF RunOk, RunIs, Drawn
  <2>2. CASE boardJob' = boardJob
    BY <2>2 DEF BoardInv
  <2> QED BY <1>2, <2>1, <2>2 DEF SP!Finalize
<1>5. Rows(board', boardVersion')
  BY <1>0 DEF BoardInv
<1> QED BY <1>0, <1>4, <1>5, RunKeeps

LEMMA FirstBoard == SP!Init => BoardInv
<1> SUFFICES ASSUME SP!Init PROVE BoardInv
  OBVIOUS
<1>1. boardJob = [t \in {"task"} |-> "waiting"] /\ shots = [v \in Version |-> {}] /\ units = [v \in Version |-> {}]
      /\ prompts = {} /\ worker = [w \in Workers |-> SP!Idle]
  BY BoardNames DEF SP!Init
<1>2. Rows(board, boardVersion)
  BY BoardNames DEF SP!Init, Rows, SP!TaskState, SP!VersionStatus
<1>3. boardJob["task"] = "waiting" /\ boardJob \in [{"task"} -> Phases]
  BY <1>1 DEF Phases
<1> QED BY <1>1, <1>2, <1>3 DEF BoardInv

LEMMA BoardStep ==
  ASSUME BoardInv, [ExecutorsNext]_executorsVars PROVE BoardInv'
<1>1. CASE UNCHANGED pipelineVars
  BY <1>1 DEF pipelineVars, BoardInv, RunOk, Drawn
<1>2. CASE PipelineNext
  BY <1>2, BoardCommands, BoardMessages, BoardLeaves, BoardGoesOn, BoardSaves, BoardCompletes, BoardReports
    DEF PipelineNext
<1> QED BY <1>1, <1>2 DEF ExecutorsNext, executorsVars, RewriteNext, RewriteMoves, LockPartNext, LockMoves,
           VersionsPartNext, VersionsMove

\* No chapter is skipped by a process that takes over: what a checkpoint says is
\* drawn has shots (get_completed_units, persist_episode_shots).
THEOREM CheckpointsHaveShots == ExecutorsSpec => []CheckpointHasShots
<1>1. ExecutorsInit => BoardInv
  BY FirstBoard DEF ExecutorsInit
<1>2. BoardInv => CheckpointHasShots
  BY BoardNames DEF BoardInv, CheckpointHasShots, SP!CheckpointHasShots
<1> QED BY <1>1, <1>2, BoardStep, PTL DEF ExecutorsSpec

\* A pipeline task that reports success has drawn every version to its end, with
\* whatever processes were lost or ran side by side (run_storyboard_pipeline).
THEOREM JobsTellVersions == ExecutorsSpec => []JobTellsVersions
<1>1. ExecutorsInit => BoardInv
  BY FirstBoard DEF ExecutorsInit
<1>2. BoardInv => JobTellsVersions
  BY BoardNames DEF BoardInv, JobTellsVersions, SP!JobTellsVersions, SP!Phase, Drawn, IsDrawn
<1> QED BY <1>1, <1>2, BoardStep, PTL DEF ExecutorsSpec

==================================================================================

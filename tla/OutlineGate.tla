----------------------------- MODULE OutlineGate -----------------------------
(***************************************************************************)
(* What a generation task does before it writes the first segment of its   *)
(* book: the outlines are made in batches, each in a transaction of its    *)
(* own, stored, kept as the plan of the segment, and shown to the user,    *)
(* who lets the writing begin.                                             *)
(*                                                                         *)
(* The process waits for the user inside the graph: first for the row of   *)
(* the creation task, then for the row of its own dispatch.  Neither loop  *)
(* looks at anything else.  Meanwhile its thread refreshes the lease.      *)
(***************************************************************************)
EXTENDS Naturals, FiniteSets

CONSTANTS
  Segment,      \* the segment is 1..Segment
  Book,         \* the book is 1..Book: what follows is the next volume
  BatchSize,    \* _OUTLINE_BATCH_SIZE
  Processes,    \* Celery processes
  Ids, NoId,    \* worker_task_id values, and NULL
  MaxEvents     \* bound on commands, faults and failures of the model

ASSUME OutlineAssumption ==
  /\ {Segment, BatchSize} \subseteq Nat \ {0}
  /\ Book \in Nat /\ Segment <= Book
  /\ NoId \notin Ids /\ MaxEvents \in Nat

VARIABLES
  outlines,   \* chapter_outlines of the novel version
  plan,       \* runtime_state.segment_plan: outlines of the segment, or NoPlan
  row,        \* creation_tasks: status, owner, awaiting, confirmed; gated: what
              \* novel.config.require_outline_confirmation says
  asked,      \* the dispatches whose generation_tasks.outline_confirmed is 0
  written,    \* chapters 1..written have a text
  msgs,       \* Celery messages, a set of dispatches
  process,    \* what each process is doing
  events

vars == <<outlines, plan, row, asked, written, msgs, process, events>>

Chapter == 1..Book
InSegment == 1..Segment

\* A valid outline has content; a weak one is a placeholder or inferred.
Outline == {"none", "weak", "valid"}
NoPlan == [c \in InSegment |-> "none"]

\* mem: the outlines it has in memory; from: the chapter it resumes at; at: the
\* chapter that it does next.
Idle == [pc |-> "idle"]
Execution == [pc: {"start", "batch", "harmonize", "save", "gate", "waitrow", "waitgt",
                   "replan", "write", "end"},
              id: Ids, mem: [Chapter -> Outline], from: 1..(Segment + 1),
              at: 1..(Segment + BatchSize)]

TypeOK ==
  /\ outlines \in [Chapter -> Outline]
  /\ plan \in [InSegment -> Outline]
  /\ row \in [status: {"queued", "held", "paused", "failed", "over"},
              owner: Ids \cup {NoId}, awaiting: BOOLEAN, confirmed: BOOLEAN,
              gated: BOOLEAN]
  /\ asked \subseteq Ids
  /\ written \in 0..Segment
  /\ msgs \subseteq Ids
  /\ process \in [Processes -> Execution \cup {Idle}]
  /\ events \in 0..MaxEvents

Init ==
  /\ outlines = [c \in Chapter |-> "none"]
  /\ plan = NoPlan
  /\ row \in [status: {"queued"}, owner: {NoId}, awaiting: {FALSE}, confirmed: {FALSE},
              gated: BOOLEAN]
  /\ asked = {}
  /\ written = 0
  /\ msgs = {}
  /\ process = [p \in Processes |-> Idle]
  /\ events = 0

Event == events < MaxEvents /\ events' = events + 1
At(p, pc) == process[p].pc = pc
Goto(p, pc) == process' = [process EXCEPT ![p].pc = pc]
Leave(p) == process' = [process EXCEPT ![p] = Idle]
Move(from, to, owner) ==
  /\ row.status \in from
  /\ row' = [row EXCEPT !.status = to, !.owner = owner]

-----------------------------------------------------------------------------
(* The queue, as far as one task sees it.                                  *)

UsedIds == {row.owner} \cup msgs \cup {process[p].id : p \in {x \in Processes : ~At(x, "idle")}}
NewId == CHOOSE i \in Ids : i \notin UsedIds

\* The dispatch makes the generation_tasks row of its id, which asks for nothing;
\* its message is lost if the dispatcher dies first.
Dispatch ==
  /\ Ids \ UsedIds # {}
  /\ Move({"queued"}, "held", NewId)
  /\ asked' = asked \ {NewId}
  /\ \/ msgs' = msgs \cup {NewId} /\ UNCHANGED events
     \/ Event /\ UNCHANGED msgs
  /\ UNCHANGED <<outlines, plan, written, process>>

\* terminate, which may fail: the process goes on.
Revoked(id) ==
  \/ process' = [p \in Processes |->
       IF ~At(p, "idle") /\ process[p].id = id THEN Idle ELSE process[p]]
  \/ UNCHANGED process

\* The thread of any process of the task refreshes its lease.
LeaseExpired == \A p \in Processes : At(p, "idle")

\* Reclaimed to be dispatched again, or given up at the limit of recoveries.
Reclaim ==
  /\ LeaseExpired /\ msgs = {}
  /\ \E to \in {"queued", "failed"} : Move({"held"}, to, NoId)
  /\ UNCHANGED <<outlines, plan, asked, written, msgs, process, events>>

Pause ==
  /\ Move({"queued", "held"}, "paused", NoId)
  /\ Event
  /\ UNCHANGED <<outlines, plan, asked, written, msgs, process>>

Resume ==
  /\ Move({"paused", "failed"}, "queued", NoId)
  /\ UNCHANGED <<outlines, plan, asked, written, msgs, process, events>>

Cancel ==
  /\ Move({"queued", "held", "paused"}, "over", NoId)
  /\ Revoked(row.owner)
  /\ Event
  /\ UNCHANGED <<outlines, plan, asked, written, msgs>>

\* A message of a task that is not active, or is another dispatch's, is dropped.
Deliver(p) ==
  /\ At(p, "idle")
  /\ \E id \in msgs :
       /\ msgs' = msgs \ {id}
       /\ process' = IF row.status = "held" /\ row.owner = id
                     THEN [process EXCEPT ![p] =
                            [pc |-> "start", id |-> id, mem |-> [c \in Chapter |-> "none"],
                             from |-> written + 1, at |-> 1]]
                     ELSE process
  /\ UNCHANGED <<outlines, plan, row, asked, written, events>>

Crash(p) ==
  /\ ~At(p, "idle")
  /\ msgs' = msgs \cup {process[p].id}
  /\ Leave(p)
  /\ Event
  /\ UNCHANGED <<outlines, plan, row, asked, written>>

VisibilityTimeout(p) ==
  /\ ~At(p, "idle")
  /\ msgs' = msgs \cup {process[p].id}
  /\ Event
  /\ UNCHANGED <<outlines, plan, row, asked, written, process>>

\* The checks of a progress callback.
Stopped(p) ==
  \/ row.owner \notin {NoId, process[p].id}
  \/ row.status \in {"paused", "over"}

\* The execution leaves; a row that is held takes the report of any process.
StopsAtCheck(p) ==
  /\ process[p].pc \in {"replan", "write"}
  /\ Stopped(p)
  /\ Leave(p)
  /\ UNCHANGED <<outlines, plan, row, asked, written, msgs, events>>

Fails(p) ==
  /\ process[p].pc \in {"start", "batch", "write"}
  /\ Event
  /\ Leave(p)
  /\ IF row.status = "held" THEN Move({"held"}, "failed", NoId) ELSE UNCHANGED row
  /\ UNCHANGED <<outlines, plan, asked, written, msgs>>

-----------------------------------------------------------------------------
(* node_outline.                                                           *)

\* A plan covers the segment by chapter numbers, rows only by their content.
PlanCovers == \A c \in InSegment : plan[c] # "none"

RowsCover == \A c \in InSegment : outlines[c] = "valid"

Batch(n) == {c \in Chapter : n <= c /\ c < n + BatchSize}
Put(f, mem, chapters) == [c \in Chapter |-> IF c \in chapters THEN mem[c] ELSE f[c]]

\* persist_resume_runtime_state: a failure is logged, and the graph goes on.
Persist(mem) ==
  \/ plan' = [c \in InSegment |-> mem[c]] /\ UNCHANGED events
  \/ Event /\ UNCHANGED plan

\* The progress callback at the end of the node: the graph goes on to the gate,
\* or the execution leaves.
ToGate(p, mem) ==
  process' = [process EXCEPT ![p] =
    IF Stopped(p) THEN Idle ELSE [@ EXCEPT !.pc = "gate", !.mem = mem, !.at = process[p].from]]

RestorePlan(p) ==
  LET mem == [c \in Chapter |-> IF c \in InSegment THEN plan[c] ELSE outlines[c]] IN
  /\ At(p, "start") /\ PlanCovers
  /\ outlines' = mem
  /\ ToGate(p, mem)
  /\ UNCHANGED <<plan, row, asked, written, msgs, events>>

TakeRows(p) ==
  /\ At(p, "start") /\ ~PlanCovers /\ RowsCover
  /\ Persist(outlines)
  /\ ToGate(p, outlines)
  /\ UNCHANGED <<outlines, row, asked, written, msgs>>

\* run_volume_outlines, after a progress callback: the rows it may use again.
BeginOutlines(p) ==
  /\ At(p, "start") /\ ~PlanCovers /\ ~RowsCover
  /\ process' = [process EXCEPT ![p] =
       IF Stopped(p) THEN Idle
       ELSE [@ EXCEPT !.pc = "batch", !.mem = [c \in Chapter |->
               IF outlines[c] = "valid" THEN "valid" ELSE "none"]]]
  /\ UNCHANGED <<outlines, plan, row, asked, written, msgs, events>>

\* The chapters of the next batch.
Due(p) == Batch(process[p].at) \cap InSegment

ReuseBatch(p) ==
  /\ At(p, "batch") /\ process[p].at <= Segment
  /\ \A c \in Due(p) : process[p].mem[c] = "valid"
  /\ process' = [process EXCEPT ![p].at = @ + BatchSize]
  /\ UNCHANGED <<outlines, plan, row, asked, written, msgs, events>>

\* The model answers for each chapter of the batch, or all but two: those are
\* inferred from their neighbours.  The batch is stored by itself.
MakeBatch(p) ==
  /\ At(p, "batch") /\ process[p].at <= Segment
  /\ \E c \in Due(p) : process[p].mem[c] # "valid"
  /\ \E new \in [Due(p) -> {"weak", "valid"}] :
       /\ outlines' = Put(outlines, new, Due(p))
       /\ process' = [process EXCEPT ![p].mem = Put(@, new, Due(p)), ![p].at = @ + BatchSize]
  /\ UNCHANGED <<plan, row, asked, written, msgs, events>>

\* _harmonize_volume_outlines changes other fields of the outlines, stores all of
\* them, or fails without consequence.
Harmonize(p) ==
  /\ At(p, "batch") /\ process[p].at > Segment
  /\ outlines' \in {outlines, Put(outlines, process[p].mem, InSegment)}
  /\ Goto(p, "save")
  /\ UNCHANGED <<plan, row, asked, written, msgs, events>>

\* The first execution replaces the outlines of the whole book.
Saved(p) ==
  IF process[p].from = 1
  THEN [c \in Chapter |-> IF c \in InSegment THEN process[p].mem[c] ELSE "none"]
  ELSE Put(outlines, process[p].mem, InSegment)

SaveOutlines(p) ==
  /\ At(p, "save")
  /\ outlines' = Saved(p)
  /\ Persist(outlines')
  /\ ToGate(p, outlines')
  /\ UNCHANGED <<row, asked, written, msgs>>

-----------------------------------------------------------------------------
(* node_confirmation_gate.                                                 *)

\* Where the graph goes on: a volume starts with its plan.
Onward(p) ==
  IF process[p].at > Segment THEN "end" ELSE IF process[p].at = 1 THEN "replan" ELSE "write"

PassGate(p) ==
  /\ At(p, "gate") /\ ~row.gated
  /\ Goto(p, Onward(p))
  /\ UNCHANGED <<outlines, plan, row, asked, written, msgs, events>>

\* Whatever was confirmed before is asked for again; then a progress callback,
\* the last one.
Ask(p) ==
  /\ At(p, "gate") /\ row.gated
  /\ row' = [row EXCEPT !.awaiting = TRUE, !.confirmed = FALSE]
  /\ asked' = asked \cup {process[p].id}
  /\ process' = [process EXCEPT ![p] = IF Stopped(p) THEN Idle ELSE [@ EXCEPT !.pc = "waitrow"]]
  /\ UNCHANGED <<outlines, plan, written, msgs, events>>

SeesRow(p) ==
  /\ At(p, "waitrow") /\ row.confirmed
  /\ Goto(p, "waitgt")
  /\ UNCHANGED <<outlines, plan, row, asked, written, msgs, events>>

\* What it then writes to the row is what it has loaded, and so nothing.
SeesDispatch(p) ==
  /\ At(p, "waitgt") /\ process[p].id \notin asked
  /\ Goto(p, Onward(p))
  /\ UNCHANGED <<outlines, plan, row, asked, written, msgs, events>>

\* Mutant of Confirm: the row of the dispatch is left for its process to see to.
ConfirmRowOnly ==
  /\ row.awaiting /\ ~row.confirmed
  /\ row' = [row EXCEPT !.awaiting = FALSE, !.confirmed = TRUE]
  /\ UNCHANGED <<outlines, plan, asked, written, msgs, process, events>>

\* confirm_outline_generation: the row, and the dispatch that owns it.
Confirm ==
  /\ row.awaiting /\ ~row.confirmed
  /\ row' = [row EXCEPT !.awaiting = FALSE, !.confirmed = TRUE]
  /\ asked' = asked \ {row.owner}
  /\ UNCHANGED <<outlines, plan, written, msgs, process, events>>

\* The same request with the id of a dispatch that lost the task.
ConfirmDispatch(id) ==
  /\ id \in asked /\ id # row.owner
  /\ asked' = asked \ {id}
  /\ Event
  /\ UNCHANGED <<outlines, plan, row, written, msgs, process>>

-----------------------------------------------------------------------------
(* node_volume_replan, and the writing.                                    *)

NextVolume == Chapter \ InSegment

\* Mutant of Loaded: only outlines with content are loaded.
LoadedValid(f) == [c \in Chapter |-> IF f[c] = "valid" THEN f[c] ELSE "none"]

Loaded(f) == f

\* The next volume is outlined batch by batch unless it has content; a failure
\* after some of them is logged.  Then the outlines are loaded once more.
Replan(p) ==
  /\ At(p, "replan") /\ ~Stopped(p)
  /\ \E new \in [NextVolume -> Outline] :
       /\ IF \A c \in NextVolume : outlines[c] = "valid"
          THEN \A c \in NextVolume : new[c] = outlines[c]
          ELSE \A c \in NextVolume : new[c] = "none" => outlines[c] = "none"
       /\ outlines' = Put(outlines, new, NextVolume)
  /\ process' = [process EXCEPT ![p].pc = "write", ![p].mem = Loaded(outlines')]
  /\ UNCHANGED <<plan, row, asked, written, msgs, events>>

\* One chapter, with what BookGeneration and ChapterDraft have of it.
WriteChapter(p) ==
  LET c == process[p].at IN
  /\ At(p, "write") /\ ~Stopped(p)
  /\ written' = IF c > written THEN c ELSE written
  /\ process' = [process EXCEPT ![p].at = @ + 1, ![p].pc = IF c = Segment THEN "end" ELSE @]
  /\ UNCHANGED <<outlines, plan, row, asked, msgs, events>>

End(p) ==
  /\ At(p, "end")
  /\ IF row.status = "held" THEN Move({"held"}, "over", NoId) ELSE UNCHANGED row
  /\ Leave(p)
  /\ UNCHANGED <<outlines, plan, asked, written, msgs, events>>

-----------------------------------------------------------------------------
Works(p) ==
  \/ RestorePlan(p) \/ TakeRows(p) \/ BeginOutlines(p) \/ ReuseBatch(p) \/ MakeBatch(p)
  \/ Harmonize(p) \/ SaveOutlines(p) \/ PassGate(p) \/ Ask(p) \/ SeesRow(p) \/ SeesDispatch(p)
  \/ Replan(p) \/ WriteChapter(p) \/ StopsAtCheck(p) \/ End(p)

UserNext == Pause \/ Resume \/ Cancel \/ Confirm \/ (\E id \in Ids : ConfirmDispatch(id))

Next ==
  \/ UserNext \/ Dispatch \/ Reclaim
  \/ \E p \in Processes :
       Deliver(p) \/ Crash(p) \/ VisibilityTimeout(p) \/ Fails(p) \/ Works(p)

Spec == Init /\ [][Next]_vars

\* Dispatch and recovery are periodic, a process that is not lost goes on, and
\* the user confirms what is shown and resumes what is parked.
Fairness ==
  /\ WF_vars(Dispatch /\ msgs' # msgs) /\ WF_vars(Reclaim)
  /\ WF_vars(Confirm) /\ WF_vars(Resume)
  /\ \A p \in Processes : WF_vars(Deliver(p)) /\ WF_vars(Works(p))

FairSpec == Spec /\ Fairness

-----------------------------------------------------------------------------
\* A chapter is written from an outline of its own, wherever the batches, the
\* plan or a process were interrupted, and whichever of two processes stored
\* the outlines last (node_load_context falls back to an empty one).
EveryChapterPlanned ==
  \A p \in Processes : At(p, "write") =>
    \A c \in process[p].at..Segment : process[p].mem[c] # "none"

\* A process that waits for a confirmation that only another dispatch will get.
LeftBehind(p) == process[p].pc \in {"waitrow", "waitgt"} /\ process[p].id # row.owner

\* The owner of a task gets to the end by confirming and resuming, unless a
\* process is left behind at the gate for ever.
OwnerGetsThrough == (\A p \in Processes : []<>~LeftBehind(p)) => <>(row.status = "over")

=============================================================================

---------------------------- MODULE BookGeneration ----------------------------
(***************************************************************************)
(* One generation task from its first chapter to its final review: the     *)
(* executor that picks it up where the persisted state says, the graph     *)
(* that writes a segment of chapters and lets the closure gate end,        *)
(* extend or rewrite it, and the stops in between: a lost worker is        *)
(* replaced by an execution that knows only what was persisted, a paused   *)
(* or failed one waits for its owner to resume it.                         *)
(*                                                                         *)
(* Chapters are numbers from 1.  What a chapter says, and how often it is  *)
(* revised before it is committed, is left out.                            *)
(***************************************************************************)
EXTENDS Integers

CONSTANTS
  Target,      \* book_target_total_chapters
  VolumeSize,  \* chapters of a segment
  Flex,        \* chapters the book may be longer or shorter than Target
  HardGate,    \* feature flag consistency.blocker_hard_gate
  MaxFaults,   \* bound on stops and lost writes
  FaultKinds   \* subset of {"crash", "park", "runtime", "checkpoint"}

ASSUME BookAssumption ==
  /\ Target \in Nat \ {0}
  /\ VolumeSize \in Nat \ {0}
  /\ Flex \in Nat
  /\ HardGate \in BOOLEAN
  /\ MaxFaults \in Nat
  /\ FaultKinds \subseteq {"crash", "park", "runtime", "checkpoint"}

VARIABLES
  status,    \* of the task: "active", "parked" or "completed"
  cursor,    \* resume_cursor_json.next, 0 if absent
  rt,        \* resume_cursor_json.runtime_state
  last,      \* the last chapter with a checkpoint, 0 if none
  written,   \* chapters with a committed version
  reviewed,  \* the final review of the book is stored
  pc,        \* where the execution is, "off" if there is none
  book,      \* the variables of the executor
  seg,       \* the state of the graph
  faults     \* stops and lost writes so far

vars == <<status, cursor, rt, last, written, reviewed, pc, book, seg, faults>>
stored == <<cursor, rt, last, written, reviewed>>

-----------------------------------------------------------------------------
Larger(a, b) == IF a > b THEN a ELSE b
Smaller(a, b) == IF a < b THEN a ELSE b

MinTotal == Larger(1, Target - Flex)
MaxTotal == Target + Flex

Mode == {"segment_running", "book_final_review_pending", "completed"}

\* A segment plan: the range it was made for, and why.
NoPlan == [kind |-> "none", start |-> 0, end |-> 0]
Plan(kind, s) == [kind |-> kind, start |-> s.start, end |-> s.end]
Structural == {"tail_rewrite", "bridge", "volume_replan"}

NoRuntime == [mode |-> "segment_running", next |-> 0, start |-> 0, end |-> 0,
              bookEnd |-> 0, floor |-> 0, plan |-> NoPlan]
NoBook == [mode |-> "segment_running", next |-> 0, start |-> 0, end |-> 0,
           bookEnd |-> 0, floor |-> 0]
NoSegment == [cur |-> 0, start |-> 0, end |-> 0, bookEnd |-> 0, floor |-> 0,
              plan |-> NoPlan, tails |-> 0, bridges |-> 0, rerun |-> FALSE]

SegmentPlan == [kind: {"none", "normal"} \cup Structural, start: Nat, end: Nat]
RuntimeState == [mode: Mode, next: Nat, start: Nat, end: Nat, bookEnd: Nat,
                 floor: Nat, plan: SegmentPlan]
ExecutorState == [mode: Mode, next: Nat, start: Nat, end: Nat, bookEnd: Nat,
                  floor: Nat]
GraphState == [cur: Nat, start: Nat, end: Nat, bookEnd: Nat, floor: Nat,
               plan: SegmentPlan, tails: 0..2, bridges: 0..Flex, rerun: BOOLEAN]

TypeOK ==
  /\ status \in {"active", "parked", "completed"}
  /\ cursor \in Nat /\ last \in Nat
  /\ rt \in RuntimeState
  /\ written \subseteq Nat \ {0}
  /\ reviewed \in BOOLEAN
  /\ pc \in {"off", "loop", "init", "write", "written", "done", "gate",
             "after", "review", "reviewed", "finish"}
  /\ book \in ExecutorState
  /\ seg \in GraphState
  /\ faults \in 0..MaxFaults

Init ==
  /\ status = "active" /\ pc = "off"
  /\ cursor = 0 /\ last = 0 /\ rt = NoRuntime
  /\ written = {} /\ reviewed = FALSE
  /\ book = NoBook /\ seg = NoSegment
  /\ faults = 0

Fault(kind) == kind \in FaultKinds /\ faults < MaxFaults /\ faults' = faults + 1

\* persist_resume_runtime_state: a failure is logged and forgotten.
Persist(r) == \/ rt' = r /\ UNCHANGED faults
              \/ Fault("runtime") /\ UNCHANGED rt

\* What the graph persists: its own position, with the given mode and chapter.
Position(mode, next, s) ==
  [mode |-> mode, next |-> next, start |-> s.start, end |-> s.end,
   bookEnd |-> s.bookEnd, floor |-> s.floor, plan |-> s.plan]

-----------------------------------------------------------------------------
(* The executor.                                                           *)

\* _resolve_segment_window: the persisted window if next lies in it, or a new
\* one that starts at next.
Window(next, bookEnd) ==
  IF rt.start > 0 /\ next \in rt.start..rt.end
  THEN [start |-> rt.start, end |-> Smaller(rt.end, bookEnd)]
  ELSE [start |-> next, end |-> Smaller(next + VolumeSize - 1, bookEnd)]

\* The chapter to go on with: the runtime state's, or the cursor's.
StoredNext == IF rt.next # 0 THEN rt.next ELSE IF cursor # 0 THEN cursor ELSE 1

\* _resolve_generation_resume: where an execution goes on.
ResumePlan ==
  LET end     == IF rt.bookEnd # 0 THEN rt.bookEnd ELSE Target
      bookEnd == Larger(Target, end)
      next    == IF rt.mode = "segment_running" THEN StoredNext ELSE end + 1
      floor   == IF rt.floor # 0 THEN rt.floor ELSE StoredNext
      w       == Window(StoredNext, bookEnd)
  IN  [mode |-> rt.mode, next |-> next, start |-> w.start, end |-> w.end,
       bookEnd |-> bookEnd,
       floor |-> IF rt.mode = "segment_running" THEN Larger(floor, next) ELSE floor]

\* The executor stores the cursor of its plan, and returns at once if no
\* chapter seems to be left.
Begin ==
  /\ status = "active" /\ pc = "off"
  /\ book' = ResumePlan
  /\ cursor' = book'.next
  /\ pc' = IF book'.mode = "completed" \/ book'.next > book'.bookEnd
           THEN "finish" ELSE "loop"
  /\ UNCHANGED <<status, rt, last, written, reviewed, seg, faults>>

MoreSegments == book.mode = "segment_running" /\ book.next <= book.bookEnd

\* The head of the executor's loop persists the segment it starts.
StartSegment ==
  /\ pc = "loop" /\ MoreSegments
  /\ rt' = [mode |-> "segment_running", next |-> book.next, start |-> book.start,
            end |-> book.end, bookEnd |-> book.bookEnd, floor |-> book.floor,
            plan |-> IF book.start = book.next THEN NoPlan ELSE rt.plan]
  /\ cursor' = book.next
  /\ pc' = "init"
  /\ UNCHANGED <<status, last, written, reviewed, book, seg, faults>>

\* The tail of the loop reads back what the graph persisted.  StartSegment
\* has set every field, so none is missing.
EndSegment ==
  /\ pc = "after"
  /\ LET bookEnd == Larger(Larger(book.bookEnd, rt.bookEnd), Target)
         w       == Window(rt.next, bookEnd)
     IN  book' = [mode |-> rt.mode, next |-> rt.next, start |-> w.start,
                  end |-> w.end, bookEnd |-> bookEnd, floor |-> rt.floor]
  /\ pc' = "loop" /\ seg' = NoSegment
  /\ UNCHANGED <<status, stored, faults>>

\* No segment is left: the final review is pending.
EndLoop ==
  /\ pc = "loop" /\ ~MoreSegments
  /\ LET next == Larger(book.bookEnd + 1, book.next) IN
       /\ rt' = [rt EXCEPT !.mode = "book_final_review_pending", !.next = next,
                           !.start = book.next, !.end = book.bookEnd,
                           !.bookEnd = book.bookEnd]
       /\ cursor' = next
  /\ pc' = "review"
  /\ UNCHANGED <<status, last, written, reviewed, book, seg, faults>>

\* node_final_book_review up to its report, the mode persisted once more.
Review ==
  /\ pc = "review"
  /\ Persist([rt EXCEPT !.mode = "book_final_review_pending",
                        !.next = book.bookEnd + 1, !.start = 1,
                        !.end = book.bookEnd, !.bookEnd = book.bookEnd])
  /\ reviewed' = TRUE
  /\ pc' = "reviewed"
  /\ UNCHANGED <<status, cursor, last, written, book, seg>>

\* The rest of it, after the progress callback.
ReviewDone ==
  /\ pc = "reviewed"
  /\ Persist([rt EXCEPT !.mode = "completed", !.next = book.bookEnd + 1])
  /\ pc' = "finish"
  /\ UNCHANGED <<status, cursor, last, written, reviewed, book, seg>>

Finish ==
  /\ pc = "finish"
  /\ status' = "completed" /\ pc' = "off" /\ book' = NoBook
  /\ UNCHANGED <<stored, seg, faults>>

-----------------------------------------------------------------------------
(* The graph, for one segment.                                             *)

\* Where to go once the chapter and the end of the segment are known.
Route(s) == IF s.cur > s.end THEN "after" ELSE "write"

\* node_init and node_outline: a plan made for this very range is restored if
\* it has an outline for each chapter, otherwise a normal one is persisted.
InitGraph ==
  /\ pc = "init"
  /\ LET cur == IF rt.next \in book.start..(book.end + 1) THEN rt.next ELSE book.start
         s   == [cur |-> cur, start |-> book.start, end |-> book.end,
                 bookEnd |-> Larger(book.bookEnd, book.end),
                 floor |-> IF rt.floor # 0 THEN rt.floor ELSE cur,
                 plan |-> NoPlan, tails |-> 0, bridges |-> 0, rerun |-> FALSE]
         fresh == [s EXCEPT !.plan = Plan("normal", s)]
     IN  /\ \/ /\ rt.plan.kind # "none"
               /\ rt.plan.start = s.start /\ rt.plan.end = s.end
               /\ seg' = [s EXCEPT !.plan = rt.plan]
               /\ UNCHANGED <<rt, faults>>
            \/ /\ seg' = fresh
               /\ Persist(Position("segment_running", cur, fresh))
         /\ pc' = Route(s)
  /\ UNCHANGED <<status, cursor, last, written, reviewed, book>>

\* _ensure_retry_write_allowed
WriteAllowed == seg.cur >= seg.floor \/ seg.plan.kind \in Structural

\* Mutant of WriteChapter: the chapter's transaction fails unnoticed.
WriteChapterLost ==
  /\ pc = "write" /\ WriteAllowed
  /\ written' \in {written, written \cup {seg.cur}}
  /\ pc' = "written"
  /\ UNCHANGED <<status, cursor, rt, last, reviewed, book, seg, faults>>

\* The chapter is drafted, reviewed, revised and committed by node_finalize.
WriteChapter ==
  /\ pc = "write" /\ WriteAllowed
  /\ written' = written \cup {seg.cur}
  /\ pc' = "written"
  /\ UNCHANGED <<status, cursor, rt, last, reviewed, book, seg, faults>>

\* The hard consistency gate gives up on the chapter: an empty version is
\* stored in its place, without a checkpoint.  A rerun does not pass it again.
BlockChapter ==
  /\ HardGate /\ pc = "write" /\ ~seg.rerun
  /\ written' = written \cup {seg.cur}
  /\ seg' = [seg EXCEPT !.cur = @ + 1]
  /\ pc' = "gate"
  /\ UNCHANGED <<status, cursor, rt, last, reviewed, book, faults>>

\* The chapter_done callback: checkpoint and cursor, a failure of which is
\* logged and forgotten.
ChapterDone ==
  /\ pc = "written"
  /\ \/ /\ last' = Larger(last, seg.cur)
        /\ cursor' = Larger(last, seg.cur) + 1
        /\ UNCHANGED faults
     \/ Fault("checkpoint") /\ UNCHANGED <<last, cursor>>
  /\ pc' = "done"
  /\ UNCHANGED <<status, rt, written, reviewed, book, seg>>

\* Mutant of Following: one chapter too far.
FollowingButOne(chapter) == chapter + 2

Following(chapter) == chapter + 1

\* Mutant of Advance: the rerun is not counted.
AdvanceReruns ==
  /\ pc = "done"
  /\ IF seg.cur < seg.end
     THEN Persist(Position("segment_running", Following(seg.cur), seg))
     ELSE UNCHANGED <<rt, faults>>
  /\ \/ seg' = seg /\ pc' = "write"
     \/ seg' = [seg EXCEPT !.cur = @ + 1, !.rerun = FALSE] /\ pc' = "gate"
  /\ UNCHANGED <<status, cursor, last, written, reviewed, book>>

\* The rest of node_finalize: the runtime state moves on, except after the
\* last chapter of the segment.  A chapter of low quality is run once more.
Advance ==
  /\ pc = "done"
  /\ IF seg.cur < seg.end
     THEN Persist(Position("segment_running", Following(seg.cur), seg))
     ELSE UNCHANGED <<rt, faults>>
  /\ \/ /\ ~seg.rerun
        /\ seg' = [seg EXCEPT !.rerun = TRUE]
        /\ pc' = "write"
     \/ /\ seg' = [seg EXCEPT !.cur = @ + 1, !.rerun = FALSE]
        /\ pc' = "gate"
  /\ UNCHANGED <<status, cursor, last, written, reviewed, book>>

-----------------------------------------------------------------------------
(* The closure gate.  unresolved counts open foreshadows and plotlines,    *)
(* coverage compares the resolved share with the threshold: "full" reaches *)
(* it, "near" is close.  Both come from the text and are free.             *)

Verdict == [unresolved: 0..2, coverage: {"low", "near", "full"}]

Generated == seg.cur - 1
\* closure_phase_mode is closing or finale: at most 0.15 of the book remains.
Closing == 100 * Larger(0, seg.bookEnd - seg.cur + 1) <= 15 * Target

Full == Generated >= MaxTotal

\* Mutant of RewritesTail: one attempt too many.
RewritesTailOnceMore(v) ==
  /\ seg.tails <= 2
  /\ IF Full THEN v.unresolved > 0
             ELSE Generated >= MinTotal /\ v.coverage # "full" /\ Closing

\* need_rewrite_for_coverage, and the tail rewrites left to a full book.
RewritesTail(v) ==
  /\ seg.tails < 2
  /\ IF Full THEN v.unresolved > 0
             ELSE Generated >= MinTotal /\ v.coverage # "full" /\ Closing

\* Mutant of Closes: any length will do.
ClosesShort(v) ==
  /\ ~RewritesTail(v)
  /\ Full \/ (v.coverage = "full" /\ Closing)

\* must_force_finalize, can_finalize_early, can_soft_finalize
Closes(v) ==
  /\ ~RewritesTail(v)
  /\ \/ Full
     \/ Generated >= MinTotal /\ v.coverage = "full" /\ Closing
     \/ Generated >= Target /\ v.unresolved <= 1 /\ v.coverage # "low" /\ Closing

\* can_extend
Extends(v) ==
  /\ ~RewritesTail(v) /\ ~Closes(v)
  /\ Generated >= Target /\ v.unresolved > 0 /\ seg.bridges < Flex

\* Mutant of GateRewritesTail: the attempt is not counted.
GateRewritesTailUncounted ==
  /\ pc = "gate" /\ \E v \in Verdict : RewritesTail(v)
  /\ LET cur == Larger(seg.start, seg.cur - 2)
         s   == [seg EXCEPT !.cur = cur, !.plan = Plan("tail_rewrite", seg)]
     IN  seg' = s /\ Persist(Position("segment_running", cur, s))
  /\ pc' = "write"
  /\ UNCHANGED <<status, cursor, last, written, reviewed, book>>

\* Two chapters back.  node_tail_rewrite persists the same state once more.
GateRewritesTail ==
  /\ pc = "gate" /\ \E v \in Verdict : RewritesTail(v)
  /\ LET cur == Larger(seg.start, seg.cur - 2)
         s   == [seg EXCEPT !.cur = cur, !.tails = @ + 1,
                            !.plan = Plan("tail_rewrite", seg)]
     IN  seg' = s /\ Persist(Position("segment_running", cur, s))
  /\ pc' = "write"
  /\ UNCHANGED <<status, cursor, last, written, reviewed, book>>

\* The book ends with the chapter before this one.
GateCloses ==
  /\ pc = "gate" /\ \E v \in Verdict : Closes(v)
  /\ LET s == [seg EXCEPT !.bookEnd = seg.cur - 1, !.end = Smaller(@, seg.cur - 1)]
     IN  /\ seg' = s
         /\ Persist(Position("book_final_review_pending", seg.cur, s))
  /\ pc' = "after"
  /\ UNCHANGED <<status, cursor, last, written, reviewed, book>>

\* One more chapter.  node_bridge_chapter persists the same state once more.
GateExtends ==
  /\ pc = "gate" /\ \E v \in Verdict : Extends(v)
  /\ LET longer == [seg EXCEPT !.bookEnd = @ + 1, !.end = @ + 1, !.bridges = @ + 1]
         s      == [longer EXCEPT !.plan = Plan("bridge", longer)]
     IN  seg' = s /\ Persist(Position("segment_running", seg.cur, s))
  /\ pc' = "write"
  /\ UNCHANGED <<status, cursor, last, written, reviewed, book>>

\* Nothing is persisted.
GateContinues ==
  /\ pc = "gate"
  /\ \E v \in Verdict : ~RewritesTail(v) /\ ~Closes(v) /\ ~Extends(v)
  /\ pc' = Route(seg)
  /\ UNCHANGED <<status, stored, book, seg, faults>>

-----------------------------------------------------------------------------
(* Stops.                                                                  *)

Leave == pc' = "off" /\ book' = NoBook /\ seg' = NoSegment

\* The worker is lost; the message or the recovery tick starts another one.
Crash ==
  /\ pc # "off" /\ Fault("crash")
  /\ Leave
  /\ UNCHANGED <<status, stored>>

\* The executor raises: it points the cursor behind the last checkpoint, and
\* the task waits for its owner.
Raise ==
  /\ status' = "parked"
  /\ cursor' = IF last # 0 THEN last + 1 ELSE cursor
  /\ Leave
  /\ UNCHANGED <<rt, last, written, reviewed>>

\* A pause at a progress callback, or an error anywhere.
Park == pc # "off" /\ Fault("park") /\ Raise

\* The write is refused ("generation retry overwrite blocked").
Refuse == pc = "write" /\ ~WriteAllowed /\ Raise /\ UNCHANGED faults

\* Paused before an execution starts, or given up by the recovery tick.
ParkIdle ==
  /\ pc = "off" /\ status = "active" /\ Fault("park")
  /\ status' = "parked"
  /\ UNCHANGED <<stored, pc, book, seg>>

\* resume_task: the cursor becomes the floor below which nothing is rewritten.
Resume ==
  /\ pc = "off" /\ status = "parked"
  /\ status' = "active"
  /\ rt' = IF cursor # 0 THEN [rt EXCEPT !.floor = cursor] ELSE rt
  /\ UNCHANGED <<cursor, last, written, reviewed, pc, book, seg, faults>>

-----------------------------------------------------------------------------
Executor == Begin \/ StartSegment \/ EndSegment \/ EndLoop
            \/ Review \/ ReviewDone \/ Finish

Graph == \/ InitGraph
         \/ WriteChapter \/ Refuse \/ BlockChapter \/ ChapterDone \/ Advance
         \/ GateRewritesTail \/ GateCloses \/ GateExtends \/ GateContinues

Next == Executor \/ Graph \/ Crash \/ Park \/ ParkIdle \/ Resume

Spec == Init /\ [][Next]_vars

\* An execution goes on until it stops, the scheduler starts an active task,
\* and an owner resumes a parked one.
FairSpec == Spec /\ WF_vars(Executor \/ Graph) /\ WF_vars(Resume)

-----------------------------------------------------------------------------
(* What a generation owes.                                                 *)

\* A chapter is missing nowhere before the last one: no restart, window or
\* rewind skips one.
NoGaps == \A c \in written : 1..c \subseteq written

\* While segments are being written, a lost worker loses no chapter: what
\* lies before the chapter to resume at is stored.
ResumeLosesNothing ==
  rt.mode = "segment_running" => 1..(rt.next - 1) \subseteq written

\* A completed book has at least the smallest number of chapters that the
\* closure gate accepts.
LongEnough == status = "completed" => 1..MinTotal \subseteq written

\* The graph comes to the end of a segment, whatever the closure gate finds
\* after each chapter.
SegmentEnds == pc = "init" ~> pc \in {"after", "off"}

\* The closure gate does not find fault for ever with a book it could close.
\* (If it does, nothing ends the rewriting: an execution of the graph starts
\* with the budget of tail rewrites restored.)
GateRelents == SF_vars(GateCloses)

\* A book that is never parked is completed, however its workers crash and
\* whatever they fail to persist.
CompletesUnlessParked ==
  GateRelents /\ [](status # "parked") => <>(status = "completed")

\* Every book is completed if its owner resumes it whenever it is parked.
Completes == GateRelents => <>(status = "completed")

=============================================================================

----------------------------- MODULE ChapterDraft -----------------------------
(***************************************************************************)
(* The chapters of a segment, one after the other: the outline, the gate   *)
(* of consistency, the writer, the reviewers, the revisions, the one       *)
(* rerun, and the transaction that commits the text of a chapter with its  *)
(* progression memory.  BookGeneration has the segment around it.          *)
(*                                                                         *)
(* A text is a number: what the progression memory of a chapter holds is   *)
(* the text it was made of.  StoryMemory has the rest of the memory.       *)
(***************************************************************************)
EXTENDS Naturals, FiniteSets

CONSTANTS
  Chapters,     \* the segment is 1..Chapters
  MaxRetries,   \* get_max_retries of the strategy
  MaxRevise,    \* max_outline_revise of the gate
  HardGate,     \* feature flag consistency.blocker_hard_gate
  Downgrade,    \* downgrade_to of the gate
  MaxTails,     \* tail rewrites
  Channels,     \* keys of GenerationState: LangGraph forgets any other key
  MaxFaults     \* bound on crashes, exceptions and lost callbacks

ASSUME DraftAssumption ==
  /\ Chapters \in Nat \ {0}
  /\ {MaxRetries, MaxRevise, MaxTails, MaxFaults} \subseteq Nat
  /\ HardGate \in BOOLEAN
  /\ Downgrade \in {"save_blocked", "warn"}

VARIABLES
  text,      \* chapter_versions.content: 0 for none and for a blocked chapter
  status,    \* chapter_versions.status
  memory,    \* chapter_advancement, 0 for none
  transition,   \* chapter_transition, 0 for none
  arc,       \* what book_progression has merged: pairs of a chapter and a text
  cursor,    \* the chapter an execution starts with
  pc,        \* the node of the graph, "off" if there is no execution
  graph,     \* the state of the graph
  faults

rows == <<text, status, memory, transition, arc>>
vars == <<rows, cursor, pc, graph, faults>>

Chapter == 1..Chapters

\* What the reviewers say of the draft: "low"; "accepted", with the consent of the
\* gate and a low score; "high", the weighted score reaches its threshold, another
\* score of the chapter does not; "passes", all of them do.
Review == {"low", "accepted", "high", "passes"}

NoGraph == [chapter |-> 1, revised |-> 0, attempt |-> 0, rerun |-> 0,
            review |-> "low", passed |-> FALSE, tails |-> 0]

Node == {"load", "refine", "consistency", "outline", "blocked", "beats", "write", "review",
         "check", "revise", "finalize", "done", "rerun", "closure"}

\* What check_consistency gives: a report, with blockers or without, or an exception.
Report == {"clean", "blockers", "failed"}

\* What decide may promote of what was extracted from a text.
Promotion == SUBSET {"advancement", "transition"}

TypeOK ==
  /\ text \in [Chapter -> Nat]
  /\ status \in [Chapter -> {"none", "completed", "quality_blocked", "consistency_blocked"}]
  /\ {memory, transition} \subseteq [Chapter -> Nat]
  /\ arc \subseteq Chapter \X (Nat \ {0})
  /\ cursor \in 1..(Chapters + 1)
  /\ pc \in Node \cup {"off", "end"}
  /\ graph \in [chapter: 1..(Chapters + 1), revised: 0..MaxRevise, attempt: 0..MaxRetries,
                rerun: 0..1, review: Review, passed: BOOLEAN, tails: 0..MaxTails]
  /\ faults \in 0..MaxFaults

Init ==
  /\ text = [c \in Chapter |-> 0]
  /\ status = [c \in Chapter |-> "none"]
  /\ memory = [c \in Chapter |-> 0]
  /\ transition = memory
  /\ arc = {}
  /\ cursor = 1
  /\ pc = "off"
  /\ graph = NoGraph
  /\ faults = 0

Now == graph.chapter
Fault == faults < MaxFaults /\ faults' = faults + 1
Goto(node) == pc' = node

-----------------------------------------------------------------------------
(* Progression memory.                                                     *)

\* Mutant of Forgotten: the chapter itself keeps its memory.
ForgottenAfter(of, from) == [c \in Chapter |-> IF c > from THEN 0 ELSE of[c]]

\* delete_memories_from_chapter, of one type.
Forgotten(of, from) == [c \in Chapter |-> IF c >= from THEN 0 ELSE of[c]]

\* merge_volume_arc_state, merge_book_progression_state
Merged(of, c, d) == of \cup {<<c, d>>}

\* Mutant of Rebuilt: what was merged stays merged.
RebuiltNever(kept) == arc

\* rebuild_progression_state: the advancements that are left, merged one by one.
Rebuilt(kept) == UNION {Merged({}, c, kept[c]) : c \in {x \in Chapter : kept[x] # 0}}

\* rollback_progression_range: a transaction of its own.
Rollback(from) ==
  /\ memory' = Forgotten(memory, from)
  /\ transition' = Forgotten(transition, from)
  /\ arc' = IF memory' = memory /\ transition' = transition THEN arc ELSE Rebuilt(memory')

-----------------------------------------------------------------------------
(* The beginning of an execution, and of a chapter.                        *)

\* _rollback_progression_before_resume, then the graph from its first node.
Start ==
  /\ pc = "off" /\ cursor <= Chapters
  /\ Rollback(cursor)
  /\ graph' = [NoGraph EXCEPT !.chapter = cursor]
  /\ Goto("load")
  /\ UNCHANGED <<text, status, cursor, faults>>

\* node_load_context; the count of outline revisions is that of the execution.
Load ==
  /\ pc = "load"
  /\ graph' = [graph EXCEPT !.attempt = 0, !.rerun = 0, !.review = "low"]
  /\ Goto("refine")
  /\ UNCHANGED <<rows, cursor, faults>>

\* node_refine_chapter_outline: a failure leaves the outline as it is.
RefineOutline ==
  /\ pc = "refine"
  /\ Goto("consistency")
  /\ UNCHANGED <<rows, cursor, graph, faults>>

\* _route_consistency: without a report there are no blockers.
RouteConsistency(report) ==
  IF ~HardGate \/ report # "blockers" THEN "beats"
  ELSE IF graph.revised < MaxRevise THEN "outline"
  ELSE IF Downgrade = "warn" THEN "beats" ELSE "blocked"

CheckConsistency ==
  /\ pc = "consistency"
  /\ \E report \in Report : Goto(RouteConsistency(report))
  /\ UNCHANGED <<rows, cursor, graph, faults>>

\* node_outline_revise
ReviseOutline ==
  /\ pc = "outline"
  /\ graph' = [graph EXCEPT !.revised = @ + 1]
  /\ Goto("consistency")
  /\ UNCHANGED <<rows, cursor, faults>>

\* node_save_blocked empties the chapter; the report and the checkpoint follow in
\* transactions of their own.
SaveBlocked ==
  /\ pc = "blocked"
  /\ text' = [text EXCEPT ![Now] = 0]
  /\ status' = [status EXCEPT ![Now] = "consistency_blocked"]
  /\ graph' = [graph EXCEPT !.chapter = @ + 1]
  /\ Goto(IF Now = Chapters THEN "closure" ELSE "load")
  /\ UNCHANGED <<memory, transition, arc, cursor, faults>>

-----------------------------------------------------------------------------
(* Writing and reviewing.                                                  *)

\* node_beats: what the outline asks of the scenes.
Beats ==
  /\ pc = "beats"
  /\ Goto("write")
  /\ UNCHANGED <<rows, cursor, graph, faults>>

\* node_writer gets a draft out of two rounds of two variants (DraftReview).
Write ==
  /\ pc = "write"
  /\ Goto("review")
  /\ UNCHANGED <<rows, cursor, graph, faults>>

\* node_review: the reviewers run side by side, and a failure of one is a verdict
\* like any other.
ReviewDraft ==
  /\ pc = "review"
  /\ \E r \in Review : graph' = [graph EXCEPT !.review = r]
  /\ Goto("check")
  /\ UNCHANGED <<rows, cursor, faults>>

\* _route_review
RouteReview(r) ==
  IF r # "low" THEN "finalize"
  ELSE IF graph.attempt < MaxRetries THEN "revise"
  ELSE IF graph.rerun < 1 THEN "rerun" ELSE "finalize"

\* node_cross_chapter_check: a contradiction takes the gate's consent back, not
\* the score.
CrossCheck ==
  /\ pc = "check"
  /\ \E mustFix \in BOOLEAN :
       LET r == IF mustFix /\ graph.review = "accepted" THEN "low" ELSE graph.review
       IN  /\ graph' = [graph EXCEPT !.review = r]
           /\ Goto(RouteReview(r))
  /\ UNCHANGED <<rows, cursor, faults>>

\* node_revise
Revise ==
  /\ pc = "revise"
  /\ graph' = [graph EXCEPT !.attempt = @ + 1]
  /\ Goto("write")
  /\ UNCHANGED <<rows, cursor, faults>>

\* Mutant of Rerun: it is not counted.
RerunUncounted ==
  /\ pc = "rerun"
  /\ Rollback(Now)
  /\ graph' = [graph EXCEPT !.attempt = 0, !.review = "low"]
  /\ Goto("write")
  /\ UNCHANGED <<text, status, cursor, faults>>

\* node_rollback_rerun
Rerun ==
  /\ pc = "rerun"
  /\ Rollback(Now)
  /\ graph' = [graph EXCEPT !.rerun = @ + 1, !.attempt = 0, !.review = "low"]
  /\ Goto("write")
  /\ UNCHANGED <<text, status, cursor, faults>>

-----------------------------------------------------------------------------
(* The commit of a chapter.                                                *)

Used ==
  (UNION {{text[c], memory[c], transition[c]} : c \in Chapter}) \cup {pair[2] : pair \in arc}
NewText == CHOOSE d \in 1..(Cardinality(Used) + 1) : d \notin Used

\* _is_quality_passed: the score of the progression reviewer is read from the
\* state of the graph, and is 0 if it is not there.
Passed(r) == r = "passes" /\ "progression_score" \in Channels

\* save_chapter_advancement, save_chapter_transition: what is not promoted leaves
\* what was there, which Start, Rerun and TailRewrite have emptied.
Remembered(of, d, promoted) == [of EXCEPT ![Now] = IF promoted THEN d ELSE @]

\* One transaction: the text and what StoryMemory has of it, and what is promoted;
\* an advancement is merged into the volume's and the book's.
Commit(d, promoted, status_) ==
  /\ text' = [text EXCEPT ![Now] = d]
  /\ status' = [status EXCEPT ![Now] = status_]
  /\ memory' = Remembered(memory, d, "advancement" \in promoted)
  /\ transition' = Remembered(transition, d, "transition" \in promoted)
  /\ arc' = IF "advancement" \in promoted THEN Merged(arc, Now, d) ELSE arc

Finalize ==
  LET passed == Passed(graph.review) IN
  /\ pc = "finalize"
  /\ \E promoted \in Promotion :
       Commit(NewText, promoted, IF passed THEN "completed" ELSE "quality_blocked")
  /\ graph' = [graph EXCEPT !.passed = passed, !.review = "low"]
  /\ Goto("done")
  /\ UNCHANGED <<cursor, faults>>

\* _route_finalize: a chapter that did not pass is run once more, although it is
\* committed and the cursor has moved on.
RerunsCommitted == ~graph.passed /\ graph.rerun < 1 /\ MaxRetries > 0

\* The rest of node_finalize: the chapter_done callback and the runtime state move
\* the cursor, or fail and are forgotten; then node_advance_chapter.
ChapterDone ==
  /\ pc = "done"
  /\ \/ cursor' = Now + 1 /\ UNCHANGED faults
     \/ Fault /\ UNCHANGED cursor
  /\ IF RerunsCommitted
     THEN Goto("rerun") /\ UNCHANGED graph
     ELSE /\ graph' = [graph EXCEPT !.chapter = @ + 1]
          /\ Goto(IF Now = Chapters THEN "closure" ELSE "load")
  /\ UNCHANGED rows

-----------------------------------------------------------------------------
(* The end of the segment, and of an execution.                            *)

\* node_tail_rewrite: the last two chapters once more.
TailRewrite ==
  LET from == IF Chapters > 2 THEN Chapters - 1 ELSE 1 IN
  /\ pc = "closure" /\ graph.tails < MaxTails
  /\ cursor' = from
  /\ Rollback(from)
  /\ graph' = [graph EXCEPT !.chapter = from, !.tails = @ + 1]
  /\ Goto("load")
  /\ UNCHANGED <<text, status, faults>>

SegmentEnds ==
  /\ pc = "closure"
  /\ graph' = NoGraph
  /\ Goto("end")
  /\ UNCHANGED <<rows, cursor, faults>>

\* The process is lost, or a node raises: the writer without a draft, the
\* finalizer against its contract, the transaction of the commit.
Stops ==
  /\ pc \in Node
  /\ Fault
  /\ graph' = NoGraph
  /\ Goto("off")
  /\ UNCHANGED <<rows, cursor>>

GraphNext ==
  \/ Load \/ RefineOutline \/ CheckConsistency \/ ReviseOutline \/ SaveBlocked \/ Beats
  \/ Write \/ ReviewDraft \/ CrossCheck \/ Revise \/ Rerun \/ Finalize \/ ChapterDone
  \/ TailRewrite \/ SegmentEnds

Next == Start \/ GraphNext \/ Stops

Spec == Init /\ [][Next]_vars

\* An execution that is not stopped goes on.
FairSpec == Spec /\ WF_vars(GraphNext)

-----------------------------------------------------------------------------
(* Properties.                                                             *)

\* What is remembered of a chapter's progression is that of the text it has now:
\* no memory of a text that was thrown away outlives a rerun, a rewrite of the
\* tail, a crash or a resume (rollback_progression_range).
MemoryFollowsText == \A c \in Chapter : {memory[c], transition[c]} \subseteq {0, text[c]}

\* The book's progression is the merge of the chapters' advancements and of
\* nothing else, after any rollback (rebuild_progression_state).
ArcFollowsMemory == arc = {<<c, memory[c]>> : c \in {x \in Chapter : memory[x] # 0}}

\* Every loop of the graph ends: the one through the outline, the one through the
\* writer, and the ones that come back to a chapter that was committed.
SegmentIsLeft == pc \in Node ~> pc \in {"end", "off"}

=============================================================================

------------------------------ MODULE MCChapter ------------------------------
(***************************************************************************)
(* What happens to one chapter after another, checked side by side: the    *)
(* loops around a draft (ChapterDraft), the calls that make and review it  *)
(* (DraftReview), and what is remembered of it (StoryMemory).  The modules *)
(* share no variable; part says which of them moves in a behaviour while   *)
(* the others stay at their initial states.                                *)
(***************************************************************************)
EXTENDS ChapterDraft

CONSTANTS
  Parts,                                        \* names of the modules that move
  Plant, Payoff, MaxTexts, MaxEvents,           \* StoryMemory
  Methods, SchemaRetries, Retries, Tries, Scores, Confidences   \* DraftReview

\* A payoff is planned for a thread that was planted; the reviewers' agents clamp
\* the confidence that a model answers.
ASSUME ChapterAssumption ==
  /\ Plant \in 1..Chapters /\ Payoff \in Plant..Chapters
  /\ MaxTexts \in Nat /\ MaxEvents \in Nat
  /\ Confidences \subseteq 0..100

VARIABLES
  part,
  stored, digest, told, reported, advanced, thread, counted, basis, work, resume, texts, events,
  mode, draft, ladder, asked, pack, at

SM == INSTANCE StoryMemory WITH summary <- digest, cursor <- resume
DR == INSTANCE DraftReview WITH Weight <- <<28, 24, 28, 20>>   \* DEFAULT_REVIEW_WEIGHTS

memoryVars == <<stored, digest, told, reported, advanced, thread, counted, basis, work, resume, texts, events>>
reviewVars == <<mode, draft, ladder, asked, pack, at>>
chapterVars == <<part, vars, memoryVars, reviewVars>>

ChapterInit ==
  /\ part \in Parts /\ Init /\ SM!Init /\ DR!ReviewInit
  /\ part # "DraftReview" => mode = "separate"

Turn(p) == part = p

LoopMoves   == Turn("ChapterDraft") /\ UNCHANGED <<part, memoryVars, reviewVars>>
MemoryMoves == Turn("StoryMemory")  /\ UNCHANGED <<part, vars, reviewVars>>
ReviewMoves == Turn("DraftReview")  /\ UNCHANGED <<part, vars, memoryVars>>

LoopNext ==
  \/ LoopMoves /\ Start
  \/ LoopMoves /\ Load
  \/ LoopMoves /\ RefineOutline
  \/ LoopMoves /\ CheckConsistency
  \/ LoopMoves /\ ReviseOutline
  \/ LoopMoves /\ SaveBlocked
  \/ LoopMoves /\ Beats
  \/ LoopMoves /\ Write
  \/ LoopMoves /\ ReviewDraft
  \/ LoopMoves /\ CrossCheck
  \/ LoopMoves /\ Revise
  \/ LoopMoves /\ Rerun
  \/ LoopMoves /\ Finalize
  \/ LoopMoves /\ ChapterDone
  \/ LoopMoves /\ TailRewrite
  \/ LoopMoves /\ SegmentEnds
  \/ LoopMoves /\ Stops

MemoryNext ==
  \/ MemoryMoves /\ SM!Start
  \/ MemoryMoves /\ SM!LoadContext
  \/ MemoryMoves /\ SM!WriteDraft
  \/ MemoryMoves /\ SM!Rerun
  \/ MemoryMoves /\ SM!Blocked
  \/ MemoryMoves /\ SM!Extract
  \/ MemoryMoves /\ SM!Commit
  \/ MemoryMoves /\ SM!MoveCursor
  \/ MemoryMoves /\ SM!ChapterDone
  \/ MemoryMoves /\ SM!TailRewrite
  \/ MemoryMoves /\ SM!SegmentEnds
  \/ MemoryMoves /\ SM!Crash

ReviewNext ==
  \/ ReviewMoves /\ DR!DraftWritten
  \/ ReviewMoves /\ DR!WriterCallFails
  \/ ReviewMoves /\ DR!WriterRaises
  \/ ReviewMoves /\ DR!ReviewerAnswers
  \/ ReviewMoves /\ DR!TransientError
  \/ ReviewMoves /\ DR!AskAgain
  \/ ReviewMoves /\ DR!ReviewerSkipped
  \/ ReviewMoves /\ DR!CombinedFails
  \/ \E v \in DR!Verdict : ReviewMoves /\ DR!Graded(v)
  \/ ReviewMoves /\ DR!Route

ChapterNext == LoopNext \/ MemoryNext \/ ReviewNext

\* An execution of the graph that is not stopped goes on.
ChapterSpec ==
  /\ ChapterInit /\ [][ChapterNext]_chapterVars
  /\ WF_vars(Turn("ChapterDraft") /\ GraphNext)

(***************************************************************************)
(* The properties of the modules, under the names they have there.         *)
(***************************************************************************)

\* A chapter has the memory of the text it has (node_finalize, chapter_commit.py).
CommittedTogether == SM!CommittedTogether

\* A segment that is over hangs together (load_context, tail_rewrite).
SegmentHangsTogether == SM!SegmentHangsTogether

\* The gate's consent is not that of reviewers who were skipped (build_review_gate).
SkippedNeverConsents == DR!SkippedNeverConsents
=============================================================================

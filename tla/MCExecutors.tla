----------------------------- MODULE MCExecutors -----------------------------
(***************************************************************************)
(* The dispatch of a user's queue, the two executors beside that of a      *)
(* novel (the rewriting of a novel and the older storyboard pipeline), and *)
(* what becomes of the versions of a storyboard, checked side by side.     *)
(* Only a count of events is common to them; part says which of them moves *)
(* in a behaviour while the others stay at their initial state.            *)
(***************************************************************************)
EXTENDS RewriteRequests, DispatchLock

CONSTANTS
  Parts,        \* names of the modules that move
  Lanes, Chapters, Workers, BoardIds, BoardEvents,   \* of StoryboardPipeline
  Versions, Made, Legacy, Exports, Content, Finalizers, Editors,
  VersionEvents                                      \* of StoryboardVersions

ASSUME ExecutorsAssumption ==
  {Lanes, Chapters} \subseteq Nat \ {0} /\ {BoardEvents, VersionEvents} \subseteq Nat

VARIABLES
  part,
  board, boardJob, holder, boardVersion, shots, prompts, units, worker,
  status, drawnShots, cards, cardPrompts, missing, default, final, finalizer, editor,
  export, message, rendering

SP == INSTANCE StoryboardPipeline WITH MaxEvents <- BoardEvents, Ids <- BoardIds, task <- board, job <- boardJob,
        version <- boardVersion
SV == INSTANCE StoryboardVersions WITH MaxEvents <- VersionEvents, shots <- drawnShots,
        prompts <- cardPrompts

rewriteVars  == <<text, version, shown, request, job, msgs, process>>
pipelineVars == <<board, boardJob, holder, boardVersion, shots, prompts, units, worker>>

versionsVars == <<status, drawnShots, cards, cardPrompts, missing, default, final, finalizer,
                  editor, export, message, rendering>>

executorsVars == <<part, rewriteVars, pipelineVars, lockVars, versionsVars, events>>

\* Where no version moves, none is made.
ExecutorsInit ==
  /\ part \in Parts /\ Init /\ SP!Init /\ LockInit /\ SV!Init
  /\ part = "StoryboardVersions" \/ \A v \in Versions : status[v] = "absent"

(***************************************************************************)
(* The part whose turn it is, and what stays.                              *)
(***************************************************************************)
Turn(p) == part = p

RewriteMoves  == Turn("RewriteRequests")    /\ UNCHANGED <<part, pipelineVars, lockVars, versionsVars>>
PipelineMoves == Turn("StoryboardPipeline") /\ UNCHANGED <<part, rewriteVars, lockVars, versionsVars>>
LockMoves     == Turn("DispatchLock")
                 /\ UNCHANGED <<part, rewriteVars, pipelineVars, versionsVars, events>>
VersionsMove  == Turn("StoryboardVersions") /\ UNCHANGED <<part, rewriteVars, pipelineVars, lockVars>>

RewriteNext ==
  \/ RewriteMoves /\ Pause
  \/ RewriteMoves /\ CancelAny
  \/ RewriteMoves /\ CancelStuck
  \/ RewriteMoves /\ Resume
  \/ RewriteMoves /\ Resubmit
  \/ RewriteMoves /\ ActivateVersion
  \/ \E t \in Task : (RewriteMoves /\ Dispatch(t)) \/ (RewriteMoves /\ Reclaim(t))
  \/ \E p \in Processes :
       \/ (RewriteMoves /\ Deliver(p))           \/ (RewriteMoves /\ Crash(p))
       \/ (RewriteMoves /\ VisibilityTimeout(p)) \/ (RewriteMoves /\ Fails(p))
       \/ (RewriteMoves /\ LeavesSuperseded(p))  \/ (RewriteMoves /\ StartRefused(p))
       \/ (RewriteMoves /\ Activate(p))          \/ (RewriteMoves /\ Begin(p))
       \/ (RewriteMoves /\ Check(p))             \/ (RewriteMoves /\ WriteChapter(p))
       \/ (RewriteMoves /\ Mark(p))              \/ (RewriteMoves /\ Finish(p))
       \/ (RewriteMoves /\ Handler(p))           \/ (RewriteMoves /\ Report(p))

PipelineNext ==
  \/ PipelineMoves /\ SP!Pause
  \/ PipelineMoves /\ SP!Resume
  \/ PipelineMoves /\ SP!Cancel
  \/ PipelineMoves /\ SP!Retry
  \/ PipelineMoves /\ SP!Dispatch
  \/ PipelineMoves /\ SP!Reclaim
  \/ \E w \in Workers :
       \/ (PipelineMoves /\ SP!Crash(w))           \/ (PipelineMoves /\ SP!Redeliver(w))
       \/ (PipelineMoves /\ SP!Fails(w))           \/ (PipelineMoves /\ SP!Activate(w))
       \/ (PipelineMoves /\ SP!Begin(w))           \/ (PipelineMoves /\ SP!StayPaused(w))
       \/ (PipelineMoves /\ SP!SeeCancelled(w))    \/ (PipelineMoves /\ SP!StartVersion(w))
       \/ (PipelineMoves /\ SP!NextChapter(w))     \/ (PipelineMoves /\ SP!SaveChapter(w))
       \/ (PipelineMoves /\ SP!GateFails(w))       \/ (PipelineMoves /\ SP!StyleGatePasses(w))
       \/ (PipelineMoves /\ SP!CompleteVersion(w)) \/ (PipelineMoves /\ SP!Complete(w))
       \/ (PipelineMoves /\ SP!Handler(w))         \/ (PipelineMoves /\ SP!Finalize(w))

LockPartNext ==
  \/ \E d \in Dispatchers :
       \/ (LockMoves /\ AskForQuota(d)) \/ (LockMoves /\ InsertQuota(d))
       \/ (LockMoves /\ InsertLost(d))  \/ (LockMoves /\ LockQuota(d))
       \/ (LockMoves /\ CountSlots(d))  \/ (LockMoves /\ PickBatch(d))
       \/ (LockMoves /\ CommitBatch(d)) \/ (LockMoves /\ Rollback(d))
  \/ \E t \in Line :
       \/ (LockMoves /\ SubmitTask(t)) \/ (LockMoves /\ ResumeTask(t))
       \/ (LockMoves /\ StopTask(t))   \/ (LockMoves /\ LeaveSlot(t))
  \/ \E l \in Limits : LockMoves /\ SetLimit(l)

VersionsPartNext ==
  \/ \E v \in {x \in Versions : status[x] # "absent"} :
       \/ (VersionsMove /\ SV!DrawLane(v))          \/ (VersionsMove /\ SV!GateFails(v))
       \/ (VersionsMove /\ SV!DrawLegacy(v))        \/ (VersionsMove /\ SV!SetDefaultVersion(v))
       \/ (VersionsMove /\ SV!BackfillCards(v))     \/ (VersionsMove /\ SV!UpdateCard(v))
       \/ (VersionsMove /\ SV!RegenerateCharacters(v)) \/ (VersionsMove /\ SV!WriteShots(v))
       \/ (VersionsMove /\ SV!ActivateVersion(v))   \/ (VersionsMove /\ SV!FinalizeVersion(v))
       \/ \E q \in Finalizers : VersionsMove /\ SV!ReadFinalize(q, v)
       \/ \E d \in Editors : VersionsMove /\ SV!ReadCard(d, v)
  \/ \E q \in Finalizers : VersionsMove /\ SV!CommitFinalize(q)
  \/ \E d \in Editors : (VersionsMove /\ SV!ReadPrompt(d)) \/ (VersionsMove /\ SV!CommitCard(d))
  \/ \E e \in Exports :
       \/ (VersionsMove /\ SV!CreateExport(e))  \/ (VersionsMove /\ SV!CommitExport(e))
       \/ (VersionsMove /\ SV!ExportReturns(e)) \/ (VersionsMove /\ SV!ExportStarts(e))
       \/ (VersionsMove /\ SV!ExportEnds(e))    \/ (VersionsMove /\ SV!ExportCrash(e))
       \/ (VersionsMove /\ SV!ExportRedelivered(e))

ExecutorsNext == RewriteNext \/ PipelineNext \/ LockPartNext \/ VersionsPartNext

\* The fairness of each module, for the part that moves.
ExecutorsFairness ==
  /\ \A t \in Task : /\ WF_vars(Turn("RewriteRequests") /\ Dispatch(t) /\ msgs' # msgs)
                     /\ WF_vars(Turn("RewriteRequests") /\ Reclaim(t))
  /\ \A p \in Processes : /\ WF_vars(Turn("RewriteRequests") /\ Deliver(p))
                          /\ WF_vars(Turn("RewriteRequests") /\ Works(p))
  /\ WF_vars(Turn("RewriteRequests") /\ Resume)
  /\ WF_vars(Turn("RewriteRequests") /\ Resubmit)
  /\ WF_vars(Turn("RewriteRequests") /\ CancelStuck)
  /\ \A e \in Exports :
       /\ WF_versionsVars(Turn("StoryboardVersions") /\ SV!CommitExport(e))
       /\ WF_versionsVars(Turn("StoryboardVersions") /\ (SV!ExportReturns(e) \/ SV!ExportStarts(e)))
       /\ WF_versionsVars(Turn("StoryboardVersions") /\ SV!ExportEnds(e))

ExecutorsSpec == ExecutorsInit /\ [][ExecutorsNext]_executorsVars /\ ExecutorsFairness

(***************************************************************************)
(* The properties of the modules, for the part that moves.                 *)
(***************************************************************************)

\* A checkpoint of the pipeline has its shots (persist_episode_shots).
CheckpointHasShots == SP!CheckpointHasShots

\* A pipeline that reports success has drawn every version (run_storyboard_pipeline).
JobTellsVersions == SP!JobTellsVersions

\* A user who does not give up gets the rewritten novel (submit_rewrite_task).
RewriteIsReached == Turn("RewriteRequests") => RewriteFinishes

\* Only an update that had loaded card and prompt in different states parts them
\* (persist_character_cards, update_storyboard_character_card).
CardsStayMatched == SV!CardsStayMatched

\* An export that has its message is rendered or fails (run_storyboard_export).
ExportSettles == SV!ExportSettles
=============================================================================

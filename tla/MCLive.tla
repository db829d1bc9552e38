------------------------------- MODULE MCLive -------------------------------
(***************************************************************************)
(* What the scheduler and the storyboard runs owe in the end, checked side *)
(* by side.  They share no variable; part says which of them moves in a    *)
(* behaviour while the other stays at its initial state.                   *)
(***************************************************************************)
EXTENDS CreationScheduler, TLC

CONSTANTS
  Parts,        \* names of the modules that move
  Runs, Lanes, Workers, RunIds, Requests, Sources, RunEvents   \* of StoryboardRuns

VARIABLES
  part,
  outputs, project, snapshot, run, lane, version, job, holder, runMsgs, worker,
  request, events, overtaken

\* One user with one slot; every task writes a novel.
LiveUserOf == [t \in Tasks |-> CHOOSE u \in Users : TRUE]
LiveRank == [t \in Tasks |-> t]
LiveLimit == [u \in Users |-> 1]
LiveKind == [t \in Tasks |-> "generation"]

LaneChoices == SUBSET Lanes \ {{}}
SR == INSTANCE StoryboardRuns WITH
        LaneSets <- LaneChoices, Ids <- RunIds, Keys <- {}, NoKey <- NoId, msgs <- runMsgs,
        MaxEvents <- [S \in LaneChoices |-> RunEvents]

runVars == <<outputs, project, snapshot, run, lane, version, job, holder, runMsgs, worker,
             request, events, overtaken>>
liveVars == <<part, vars, runVars>>

Turn(p) == part = p
SchedulerMoves == Turn("CreationScheduler") /\ UNCHANGED <<part, runVars>>
RunsMove == Turn("StoryboardRuns") /\ UNCHANGED <<part, vars>>

LiveInit == part \in Parts /\ Init /\ SR!Init
LiveNext == (SchedulerMoves /\ Next) \/ (RunsMove /\ SR!Next)

\* The fairness of each module, for the part that moves.
LiveFairness ==
  /\ Fairness
  /\ \A v \in SR!Rows : /\ WF_runVars(Turn("StoryboardRuns") /\ SR!Dispatch(v))
                        /\ WF_runVars(Turn("StoryboardRuns") /\ SR!Reclaim(v) /\ SR!Lost(v) /\ job'[v] = "queued")
  /\ \A q \in Requests : WF_runVars(Turn("StoryboardRuns") /\ SR!CommitAction(q))
  /\ \A w \in Workers : /\ WF_runVars(Turn("StoryboardRuns") /\ SR!Deliver(w))
                        /\ WF_runVars(Turn("StoryboardRuns") /\ SR!Works(w))
  /\ \A r \in Runs : WF_runVars(Turn("StoryboardRuns") /\ SR!Poll(r))

LiveSpec == LiveInit /\ [][LiveNext]_liveVars /\ LiveFairness
RunSettles == SR!RunSettles
=============================================================================

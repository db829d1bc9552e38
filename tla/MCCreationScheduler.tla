------------------------- MODULE MCCreationScheduler -------------------------
(* Small instances of CreationScheduler for TLC.                           *)
EXTENDS CreationScheduler, TLC

MCUserOf == [t \in Tasks |-> CHOOSE u \in Users : TRUE]
MCRank == [t \in Tasks |-> t]
MCLimit == [u \in Users |-> 1]

\* Task 1 writes a novel, task 2 expands a storyboard lane.
MCMixed == [t \in Tasks |-> IF t = 1 THEN "generation" ELSE "storyboard_lane"]
MCNovel == [t \in Tasks |-> "generation"]
MCStoryboard == [t \in Tasks |-> "storyboard"]

MCSymmetry == Permutations(Slots) \cup Permutations(Ids)
=============================================================================

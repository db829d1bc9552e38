-------------------------- MODULE MCStoryboardRuns --------------------------
(* StoryboardRuns on one run of one or two lanes drawn by two processes.   *)
EXTENDS StoryboardRuns, TLC

CONSTANTS OneLane, TwoLanes    \* MaxEvents for each number of lanes

EventsOf == [S \in SUBSET Lanes \ {{}} |->
               IF Cardinality(S) = 1 THEN OneLane ELSE TwoLanes]
AllLaneSets == SUBSET Lanes \ {{}}

Symmetry == Permutations(Workers) \cup Permutations(Ids) \cup Permutations(Lanes)
            \cup Permutations(Requests)
=============================================================================

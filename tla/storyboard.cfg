SPECIFICATION Spec
CONSTANTS
  Runs = {r1}
  Lanes = {l1, l2}
  LaneSets <- AllLaneSets
  Workers = {w1, w2}
  Ids = {i1, i2}
  NoId = noid
  Keys = {}
  NoKey = nokey
  Requests = {q1, q2}
  Sources = {"complete", "unidentified"}
  OneLane = 3
  TwoLanes = 2
  MaxEvents <- EventsOf
SYMMETRY Symmetry
INVARIANTS SuccessIsDrawn 
CHECK_DEADLOCK FALSE

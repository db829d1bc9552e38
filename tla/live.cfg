SPECIFICATION LiveSpec
CONSTANTS
  Parts = {"CreationScheduler", "StoryboardRuns"}
  Tasks = {1}
  Users = {u1}
  UserOf <- LiveUserOf
  Rank <- LiveRank
  Limit <- LiveLimit
  Kind <- LiveKind
  BatchMax = 5
  MaxRetries = 0
  MaxRecoveries = 1
  OverBudget = {}
  Slots = {s1}
  Ids = {i1, i2}
  NoId = NoId
  Calls = {q1}
  Runs = {r1}
  Lanes = {l1}
  Workers = {w1, w2}
  RunIds = {j1, j2}
  Requests = {a1}
  Sources = {"complete"}
  RunEvents = 2
PROPERTIES Settles StopReachesWorker RunSettles
CHECK_DEADLOCK FALSE

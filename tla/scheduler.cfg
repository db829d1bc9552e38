SPECIFICATION Spec
CONSTANTS
  Tasks = {1, 2}
  Users = {u1}
  UserOf <- MCUserOf
  Rank <- MCRank
  Limit <- MCLimit
  Kind <- MCMixed
  BatchMax = 5
  MaxRetries = 0
  MaxRecoveries = 0
  OverBudget = {}
  Slots = {s1}
  Ids = {i1, i2}
  NoId = NoId
  Calls = {q1}
SYMMETRY MCSymmetry
PROPERTIES IsJobQueue
CHECK_DEADLOCK FALSE

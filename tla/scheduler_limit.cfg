SPECIFICATION Spec
CONSTANTS
  Tasks = {1, 2}
  Users = {u1}
  UserOf <- MCUserOf
  Rank <- MCRank
  Limit <- MCLimit
  Kind <- MCNovel
  BatchMax = 5
  MaxRetries = 0
  MaxRecoveries = 1
  OverBudget = {}
  Slots = {s1}
  Ids = {i1, i2}
  NoId = NoId
  Calls = {q1}
SYMMETRY MCSymmetry
INVARIANTS SlotLimit
CHECK_DEADLOCK FALSE

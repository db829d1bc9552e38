SPECIFICATION Spec
CONSTANTS
  Tasks = {1}
  Users = {u1}
  UserOf <- MCUserOf
  Rank <- MCRank
  Limit <- MCLimit
  Kind <- MCNovel
  BatchMax = 5
  MaxRetries = 0
  MaxRecoveries = 0
  OverBudget = {}
  Slots = {s1}
  Ids = {i1, i2}
  NoId = NoId
  Calls = {q1}
SYMMETRY MCSymmetry
PROPERTIES TerminalFinal
CHECK_DEADLOCK FALSE

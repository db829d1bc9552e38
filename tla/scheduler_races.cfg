SPECIFICATION Spec
CONSTANTS
  Tasks = {1}
  Users = {u1}
  UserOf <- MCUserOf
  Rank <- MCRank
  Limit <- MCLimit
  Kind <- MCStoryboard
  BatchMax = 5
  MaxRetries = 1
  MaxRecoveries = 1
  OverBudget = {}
  Slots = {s1, s2}
  Ids = {i1, i2}
  NoId = NoId
  Calls = {q1}
SYMMETRY MCSymmetry
INVARIANTS TypeOK ActiveIsLeased
PROPERTIES ParkedStaysParked BindingIsKept
CHECK_DEADLOCK FALSE

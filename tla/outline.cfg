SPECIFICATION FairSpec
CONSTANTS
  Segment = 2
  Book = 3
  BatchSize = 1
  Processes = {p1, p2}
  Ids = {i1, i2, i3}
  NoId = noid
  MaxEvents = 2
INVARIANTS EveryChapterPlanned
PROPERTY OwnerGetsThrough
CHECK_DEADLOCK FALSE

SPECIFICATION ExecutorsSpec
CONSTANTS
  Parts = {"RewriteRequests", "StoryboardPipeline", "DispatchLock", "StoryboardVersions"}
  From = 2
  Last = 4
  MaxTasks = 2
  Processes = {p1, p2}
  Ids = {i1, i2, i3}
  NoId = noid
  MaxEvents = 1
  BoardIds = {b1, b2}
  BoardEvents = 2
  Lanes = 2
  Chapters = 2
  Workers = {w1, w2}
  Versions = {v1, v2}
  Made = {{}, {v1}, {v2}}
  Legacy = {v2}
  Exports = {e1}
  Content = {a, b}
  Finalizers = {q1}
  Editors = {c1, c2}
  VersionEvents = 2
  Line = {1, 2, 3}
  Unaffordable = {2}
  Dispatchers = {d1, d2}
  NoOne = noone
  HasAccount = TRUE
  DefaultLimit = 1
  Limits = {1, 2}
  DispatchBatch = 5
INVARIANTS CompletedIsRewritten CheckpointHasShots JobTellsVersions BatchFits
PROPERTIES RewriteIsReached CardsStayMatched ExportSettles
CHECK_DEADLOCK FALSE

SPECIFICATION ServicesSpec
CONSTANTS
  Parts = {"ModelCalls", "FlagRollout", "RuntimeSettings", "TokenAccounting", "StatusMirror"}
  Calls = {c1, c2}
  OpenAfter = 2
  FallbackOpenAfter = 2
  Watchers = {w1}
  FlagReaders = {r1}
  FlagWrites = 3
  TableWrites = 1
  MaxTokens = 3
  TokenEvents = 3
  Chapters = 2
  StatusEvents = 2
  Admins = {a1}
  ApiReaders = {t1}
  Workers = {u1}
  Dispatches = {d1, d2}
  Publishers = {b1}
  Streams = {s1}
INVARIANTS ServicesTypeOK HalfOpenIsProbed NothingIsInvented ShowsReachedChapter
PROPERTIES ReadersCatchUp SettingsCatchUp RunningIsShown
CHECK_DEADLOCK FALSE

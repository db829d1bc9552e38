SPECIFICATION ChapterSpec
CONSTANTS
  Parts = {"ChapterDraft", "DraftReview", "StoryMemory"}
  Chapters = 3
  MaxRetries = 1
  MaxRevise = 1
  HardGate = TRUE
  Downgrade = "save_blocked"
  MaxTails = 1
  Channels = {"score", "factual_score", "aesthetic_review_score"}
  MaxFaults = 2
  Plant = 1
  Payoff = 3
  MaxTexts = 6
  MaxEvents = 1
  Methods = 3
  SchemaRetries = 2
  Retries = 2
  Tries = 2
  Scores = {0, 60, 90}
  Confidences = {0, 90}
INVARIANTS MemoryFollowsText ArcFollowsMemory CommittedTogether SegmentHangsTogether SkippedNeverConsents
PROPERTY SegmentIsLeft
CHECK_DEADLOCK FALSE

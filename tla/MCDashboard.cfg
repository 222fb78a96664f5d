SPECIFICATION DashboardLiveSpec
CONSTANTS
  Polls = {"rules"}
  Interval <- EachTick
  Timeout = 1
  Latency = 0
  None = None
  MaxReqs = 4
  MaxVersion = 2
  MaxEvents = 3
  MaxPosts = 2
  MaxDrafts = 1
INVARIANTS
  NothingInvented
  OneRulePerDraft
  NewRuleIsListed
PROPERTIES
  ReadingIsRecent
  SupersededIsSilent
  TypedIsKept
  CatchesUp
  SubmitIsAnswered

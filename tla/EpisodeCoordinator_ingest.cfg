SPECIFICATION Spec
CONSTANTS
  News <- MCAlarm
  Verdicts = {"applied", "stale"}
  Reviews = {}
  MaxTicks = 2
  MaxNews = 3
  Window = 1
  Watched = {}
PROPERTY IngestionDeferred
CHECK_DEADLOCK FALSE

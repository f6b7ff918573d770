SPECIFICATION Spec
CONSTANTS
  News <- MCAlone
  Verdicts = {"applied", "stale"}
  Reviews = {}
  MaxTicks = 2
  MaxNews = 3
  Window = 1
  Watched = {}
PROPERTY LatestWins
CHECK_DEADLOCK FALSE

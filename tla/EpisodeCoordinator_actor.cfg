SPECIFICATION Spec
CONSTANTS
  News <- MCWarning
  Verdicts = {"applied", "deferred", "rejected", "stale"}
  Reviews = {}
  MaxTicks = 2
  MaxNews = 1
  Window = 1
  Watched = {1, 2, 3, 4, 5}
PROPERTY ImplementsLifecycle
CHECK_DEADLOCK FALSE

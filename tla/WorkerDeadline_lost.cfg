CONSTANTS
  Natives = {n1}
  EpisodeLimit = 3
  PostLimit = 1
  MaxTime = 4
  MaxMarks = 1
SPECIFICATION DeadlineSpec
INVARIANTS ResultNotLost
CHECK_DEADLOCK FALSE

CONSTANTS
  Natives = {n1, n2}
  EpisodeLimit = 3
  PostLimit = 1
  MaxTime = 4
  MaxMarks = 2
SPECIFICATION DeadlineFairSpec
INVARIANTS NothingLeftBehind
PROPERTIES Finishes
CHECK_DEADLOCK FALSE

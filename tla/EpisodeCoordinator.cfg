SPECIFICATION FairSpec
CONSTANTS
  News <- MCNews
  Verdicts = {"applied", "deferred"}
  Reviews = {1}
  MaxTicks = 2
  MaxNews = 2
  Window = 0
  Watched = {}
INVARIANTS OneTransaction MemoryFollowsWorld NoEventLost
PROPERTIES AdmittedBetweenTicks EpisodeEnds
CHECK_DEADLOCK FALSE

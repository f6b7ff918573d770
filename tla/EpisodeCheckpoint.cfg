CONSTANTS
  Workers = {w1, w2}
  NoWorker = NoWorker
  Decisions = {"hold", "act"}
  Evidence = {"same", "drifted"}
  MaxBoundaries = 3
  MaxAttempts = 4
  MaxEdits = 1
SPECIFICATION Spec
SYMMETRY Symmetry
INVARIANTS CommittedFirst CalledAtFrontier
PROPERTIES ScoredIsCommitted HeldForInspection
CHECK_DEADLOCK FALSE

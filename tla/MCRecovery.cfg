SPECIFICATION MCSpec
CONSTANTS
  EvidenceLists <- MCEvidenceLists
  MaximumCost = 5000
  MinimumConnection = 45
  ReadOnlyTools <- MCTools
  Alternatives <- Fixture
  RawSets <- MCRawSets
  Minimums = {0, 60}
  MaxIterations = 3
  Requests = {r1, r2, r3}
  None = None
INVARIANTS
  ScoreTracksWeights CriticalNeedsFlightStatus SightedOrReviewed
  Bounded PausedWithCompleteCase
  OutcomesMeetPolicy Justified
PROPERTIES
  WorseNeverCalms ComesToRest
CHECK_DEADLOCK FALSE

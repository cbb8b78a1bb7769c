SPECIFICATION Spec
CONSTANTS
  Requests = {r1, r2, r3}
  Keys = {k1}
  Fingerprints = {f1, f2}
  None = None
  Ttl = 2
  RequireKey = FALSE
  MaxTime = 5
INVARIANTS WindowsDisjoint ReplayFaithful
PROPERTIES OverwriteOnlyByOutlived InProgressMeansUnfinished
CHECK_DEADLOCK FALSE

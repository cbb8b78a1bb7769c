SPECIFICATION ApprovalSpec
CONSTANTS
  i1 = i1
  approveAct = approveAct
  rejectAct = rejectAct
  approveOnly = approveOnly
  Requests = {r1, r2}
  Keys = {k1, k2}
  Fingerprints <- MCFingerprints
  None = None
  Ttl = 2
  RequireKey = TRUE
  MaxTime = 2
  Incidents = {i1}
  IncidentOf <- MCIncidentOf
  DecisionOf <- MCDecisionOf
  AsksAction <- MCAsksAction
INVARIANTS DecisionBeforeEffects LoneDecisionIsWhole
PROPERTIES KeepsKeyProtocol
CHECK_DEADLOCK FALSE

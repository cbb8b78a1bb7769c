SPECIFICATION ServicesSpec
CONSTANTS
  t1 = t1
  consent = consent
  seat = seat
  language = language
  version = version
  p1 = p1
  p2 = p2
  b1 = b1
  g1 = g1
  g2 = g2
  Requests = {r1, r2, r3}
  Keys = {k1}
  Fingerprints <- MCFingerprints
  None = None
  Ttl = 1
  RequireKey = FALSE
  MaxTime = 1
  Workloads <- MCWorkloads
  Travelers = {t1}
  Fields = {consent, seat, language}
  Proposals = {p1, p2}
  TravelerOf <- MCTravelerOf
  PatchOf <- MCPatchOf
  Posted <- MCPosted
  PlaybookIds = {b1}
  Texts = {g1, g2}
INVARIANTS ProfileIsReplay ConfirmedMeansSaved 
   PublishedIsStored UploadTruthful
PROPERTIES ServicesKeepKeys
SYMMETRY Symmetry
CHECK_DEADLOCK FALSE

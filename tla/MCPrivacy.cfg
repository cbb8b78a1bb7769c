SPECIFICATION LiveSpec
CONSTANTS
  v1 = v1 t1 = t1 onTenant = onTenant onTraveler = onTraveler onTrip = onTrip
  dAll = dAll dMemory = dMemory w1 = w1 w2 = w2 p1 = p1 sweep = sweep
  Travelers = {v1}
  Trips = {t1}
  TravelerOf <- MCTravelerOf
  Holds = {onTenant, onTraveler, onTrip}
  Scope <- MCScope
  Dels = {dAll, dMemory}
  Subject <- MCSubject
  MemoryOnly <- MCMemoryOnly
  Workers = {w1, w2}
  Sweep = sweep
  Writers = {p1}
  None = None
  Casts <- MCCasts
  MaxFaults = 1
INVARIANTS CompletedMeansErased
PROPERTIES RetentionKeepsHeld ErasureHeedsHolds DeletionSettles

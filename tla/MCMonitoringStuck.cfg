SPECIFICATION LiveSpec
CONSTANTS
  t1 = t1 t2 = t2 w1 = w1 w2 = w2 m1 = m1 m2 = m2 m3 = m3 k1 = k1
  h1 = h1 h2 = h2 h3 = h3 c1 = c1 s1 = s1 s2 = s2 a1 = a1 e1 = e1
  NoTrip = NoTrip
  Trips = {t1, t2}
  Windows = {w1, w2}
  Messages = {}
  CallKeys = {}
  TripOf <- MCTrips
  KindOf <- MCKinds
  VersionOf <- MCVersions
  Schedulers = {s1}
  Hooks = {}
  Callers = {}
  Admins = {}
  Reporters = {e1}
  JobOf <- MCJobs
  TripAt <- MCTripAt
  Casts <- TwoTrips
  MaxCrashes = 0
PROPERTIES WindowClaimed
CHECK_DEADLOCK FALSE

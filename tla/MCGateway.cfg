SPECIFICATION GatewaySpec
CONSTANTS
  alice = alice
  bob = bob
  acme = acme
  umbrella = umbrella
  Replicas = {p1, p2}
  Slots = {s1, s2}
  Calls <- MCCalls
  TenantOf <- MCTenantOf
  Configs <- MCConfigs
  Window = 2
  Absent = Absent
  MaxTime = 6
INVARIANTS WithinBudget RetryAdmitted
SYMMETRY MCSymmetry
CHECK_DEADLOCK FALSE

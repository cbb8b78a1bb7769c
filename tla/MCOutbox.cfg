SPECIFICATION NotificationSpec
CONSTANTS
  t1 = t1 r1 = r1 r2 = r2 w1 = w1 w2 = w2
  Records = {r1, r2}
  Workers = {w1, w2}
  Ackers = {a1}
  Tenants = {t1}
  TenantOf <- OneTenant
  ClaimIds = {1, 2}
  NoClaim = 0
  NoRecord = NoRecord
  MaxAttempts = 3
  LeaseTtl = 2
  MaxBackoff = 60
  ScanLimit = 2
  Casts <- MCCasts
INVARIANTS AttemptHistory OneLiveSender NoPhantomDelivery ErasedNeverDue
PROPERTIES ImplementsLedger NotificationsSettle

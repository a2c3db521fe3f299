SPECIFICATION Spec
CONSTANTS
  a = a
  b = b
  r1 = r1
  r2 = r2
  r3 = r3
  Users = {a}
  Requests = {r1, r2, r3}
  Submissions <- Mixed
  MaxConcurrentShots = 3
  MaxConcurrentSweeps = 1
  ShotsPerLicense = 2
  Licenses = {0, 1, 2}
  Faults = {}
  MaxFailures = 0
INVARIANTS
  ActiveShotsCapped

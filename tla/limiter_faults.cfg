\* One user, three submissions of a circuit job that fills a license or of a sweep, and
\* any two failures of any kind.
SPECIFICATION Spec
CONSTANTS
  a = a
  b = b
  r1 = r1
  r2 = r2
  r3 = r3
  Users = {a}
  Requests = {r1, r2, r3}
  Submissions <- Few
  MaxConcurrentShots = 3
  MaxConcurrentSweeps = 1
  ShotsPerLicense = 2
  Licenses = {0, 1, 2}
  Faults = {"gateway_crash", "gateway_redis", "lost_reply", "untracked",
            "reporter_crash", "reporter_redis", "ttl"}
  MaxFailures = 2
SYMMETRY Interchangeable
INVARIANTS
  TypeOK
  ShotLimit
  SweepLimit
  OnlyFailuresLeak

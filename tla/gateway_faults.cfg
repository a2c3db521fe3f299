\* Any request of ten kinds, in every mode, beside one of the same owner with a token of
\* the scheduler, whose job holds no license; two failures.
\* The system may stop: once every request is answered and every job closed.
SPECIFICATION Spec
CONSTANTS
  r1 = r1
  r2 = r2
  ann = ann
  nobody = nobody
  j1 = j1
  j2 = j2
  Requests = {r1, r2}
  Users = {ann, nobody}
  Owners = {ann}
  Nobody = nobody
  SchedulerJobs = {j1}
  Unlicensed = {j1}
  Roles = {"cortex_user", "admin"}
  DefaultRoles = {"cortex_user"}
  Plugins <- BothPlugins
  Strict = FALSE
  LookupRoles = TRUE
  TTL = 1
  MaxTime = 3
  MaxGlitches = 2
  Routes = {"health", "cocos", "circuit", "run", "admin", "other"}
  Public = {"health"}
  Deprecated = {"cocos"}
  RoleRoutes <- Table
  Logged = {"circuit", "run"}
  Sweeps = {"run"}
  ShotBudget = TRUE
  Kinds <- SomeKinds
INVARIANTS TypeOK RefusedLeavesNothing SuccessIsTracked ErrorsAreEarned RowsAreBacked ReservationsFollowJobs
PROPERTIES RolesRecent OutageIsNot401
CHECK_DEADLOCK FALSE

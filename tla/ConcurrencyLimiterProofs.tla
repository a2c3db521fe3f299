---------------------- MODULE ConcurrencyLimiterProofs ----------------------
(***************************************************************************)
(* Charges and their sums; then type correctness and the two limits of the *)
(* concurrency limiter, for any users, any finite set of requests and any  *)
(* workload.                                                               *)
(***************************************************************************)
EXTENDS ConcurrencyLimiter, FiniteSetTheorems, TLAPS

\* Charges are natural numbers, and a circuit job never gives back more than it
\* was charged; a sweep, charged nothing, does.
THEOREM ChargeFacts ==
  ASSUME NEW U, NEW s \in SubmissionsOf(U)
  PROVE  /\ Charge(s) \in Nat
         /\ Discharge(s) \in Nat \ {0}
         /\ ~IsSweep(s) => Discharge(s) <= Charge(s)
         /\ IsSweep(s) => Charge(s) < Discharge(s)
<1>1. s.shots \in Nat /\ s.circuits \in Nat
  BY DEF SubmissionsOf
<1>2. ASSUME NEW m \in Nat \ {0}, NEW n \in Nat \ {0}
      PROVE  m * n \in Nat \ {0} /\ m <= m * n
  OBVIOUS
<1>3. CASE s.shots = 0
  BY <1>1, <1>3 DEF Charge, Discharge, IsSweep
<1>4. CASE s.shots # 0 /\ s.circuits = 0
  BY <1>1, <1>4 DEF Charge, Discharge, IsSweep, OrOne
<1>5. CASE s.shots # 0 /\ s.circuits # 0
  <2>1. s.shots * s.circuits \in Nat \ {0}
    BY <1>1, <1>2, <1>5
  <2>2. QED
    BY <1>5, <2>1 DEF Charge, Discharge, IsSweep, OrOne
<1>6. QED
  BY <1>3, <1>4, <1>5

-----------------------------------------------------------------------------
\* The tokens of one request are as many as its charge.
LEMMA TokensOfOne ==
  ASSUME NEW r, NEW n \in Nat
  PROVE  IsFiniteSet({r} \X (1..n)) /\ Cardinality({r} \X (1..n)) = n
<1>1. IsFiniteSet({r}) /\ Cardinality({r}) = 1
  BY FS_Singleton
<1>2. IsFiniteSet(1..n) /\ Cardinality(1..n) = n
  BY FS_Interval
<1>3. /\ IsFiniteSet({r} \X (1..n))
      /\ Cardinality({r} \X (1..n)) = Cardinality({r}) * Cardinality(1..n)
  BY <1>1, <1>2, FS_Product
<1>4. Cardinality({r} \X (1..n)) = 1 * n
  BY <1>1, <1>2, <1>3
<1>5. QED
  BY <1>3, <1>4

LEMMA TokensFinite ==
  ASSUME NEW R, IsFiniteSet(R), NEW j, \A r \in R : Charge(j[r]) \in Nat
  PROVE  IsFiniteSet(Tokens(R, j)) /\ Weight(R, j) \in Nat
<1> DEFINE Row(r) == {r} \X (1..Charge(j[r]))
           Rows   == {Row(r) : r \in R}
<1>1. IsFiniteSet(Rows)
  <2>1. [r \in R |-> Row(r)] \in Surjection(R, Rows)
    BY DEF Surjection
  <2>2. QED
    BY <2>1, FS_Surjection
<1>2. \A T \in Rows : IsFiniteSet(T)
  <2>1. ASSUME NEW r \in R
        PROVE  IsFiniteSet(Row(r))
    BY TokensOfOne
  <2>2. QED
    BY <2>1
<1>3. IsFiniteSet(UNION Rows)
  BY <1>1, <1>2, FS_UNION
<1>4. QED
  BY <1>3, FS_CardinalityType DEF Tokens, Weight

\* Fewer holders, no greater weight.
THEOREM WeightMonotone ==
  ASSUME NEW R, IsFiniteSet(R), NEW S \in SUBSET R, NEW j,
         \A r \in R : Charge(j[r]) \in Nat
  PROVE  Weight(S, j) \in Nat /\ Weight(R, j) \in Nat /\ Weight(S, j) <= Weight(R, j)
<1>1. IsFiniteSet(S)
  BY FS_Subset
<1>2. Tokens(S, j) \subseteq Tokens(R, j)
  BY DEF Tokens
<1>3. IsFiniteSet(Tokens(R, j)) /\ Weight(R, j) \in Nat /\ Weight(S, j) \in Nat
  BY <1>1, TokensFinite
<1>4. QED
  BY <1>2, <1>3, FS_Subset DEF Weight

\* One holder more adds its charge.
THEOREM WeightAdd ==
  ASSUME NEW R, IsFiniteSet(R), NEW x, x \notin R, NEW j,
         \A r \in R \cup {x} : Charge(j[r]) \in Nat
  PROVE  Weight(R \cup {x}, j) = Weight(R, j) + Charge(j[x])
<1> DEFINE Row == {x} \X (1..Charge(j[x]))
<1>1. Tokens(R \cup {x}, j) = Tokens(R, j) \cup Row
  BY DEF Tokens
<1>2. Tokens(R, j) \cap Row = {}
  BY DEF Tokens
<1>3. IsFiniteSet(Row) /\ Cardinality(Row) = Charge(j[x])
  BY TokensOfOne
<1>4. IsFiniteSet(Tokens(R, j)) /\ Weight(R, j) \in Nat
  BY TokensFinite
<1>5. Cardinality(Tokens(R, j) \cup Row)
        = Cardinality(Tokens(R, j)) + Cardinality(Row) - Cardinality(Tokens(R, j) \cap Row)
  BY <1>3, <1>4, FS_Union
<1>6. Cardinality(Tokens(R, j) \cap Row) = 0
  BY <1>2, FS_EmptySet
<1>7. Cardinality(Tokens(R \cup {x}, j)) = Cardinality(Tokens(R, j)) + Charge(j[x])
  <2> HIDE DEF Row
  <2>1. Charge(j[x]) \in Nat /\ Cardinality(Tokens(R, j)) \in Nat
    BY <1>4 DEF Weight
  <2>2. Cardinality(Tokens(R, j) \cup Row) = Cardinality(Tokens(R, j)) + Charge(j[x]) - 0
    BY <1>3, <1>5, <1>6
  <2>3. Cardinality(Tokens(R \cup {x}, j)) = Cardinality(Tokens(R, j) \cup Row)
    BY <1>1, Zenon
  <2>4. QED
    BY <2>1, <2>2, <2>3
<1>8. QED
  BY <1>7 DEF Weight

\* One holder less takes its charge off.
THEOREM WeightRemove ==
  ASSUME NEW R, IsFiniteSet(R), NEW x \in R, NEW j,
         \A r \in R : Charge(j[r]) \in Nat
  PROVE  Weight(R \ {x}, j) = Weight(R, j) - Charge(j[x])
<1>1. IsFiniteSet(R \ {x}) /\ x \notin R \ {x}
  BY FS_RemoveElement
<1>2. R = (R \ {x}) \cup {x}
  OBVIOUS
<1>3. Weight((R \ {x}) \cup {x}, j) = Weight(R \ {x}, j) + Charge(j[x])
  BY <1>1, WeightAdd
<1>4. Weight(R \ {x}, j) \in Nat
  BY <1>1, TokensFinite
<1>5. QED
  BY <1>2, <1>3, <1>4

-----------------------------------------------------------------------------
\* The budget of a principal that does not come from the cluster, for whom
\* shot_budget means the flat cap: what whole licenses make of it.  The cap's
\* remainder, less than the shots of one license, is out of its reach.
THEOREM FlatBudgetInLicenses ==
  ASSUME NEW p \in Nat \ {0}, NEW m \in Nat
  PROVE  /\ m < p => Budget(FlatLicenses(p, m), p, m) = m
         /\ p <= m => Budget(FlatLicenses(p, m), p, m) = (m \div p) * p
         /\ Budget(FlatLicenses(p, m), p, m) <= m
         /\ m < Budget(FlatLicenses(p, m), p, m) + p
<1> DEFINE n == m \div p
<1>1. n \in Nat
  OBVIOUS
<1>2. n * p \in Nat /\ n * p <= m /\ m < n * p + p
  OBVIOUS
<1>3. m < p => n = 0
  OBVIOUS
<1>4. p <= m => n # 0
  BY <1>2, <1>1
<1> HIDE DEF n
<1>5. CASE m < p
  <2>1. FlatLicenses(p, m) = 1
    BY <1>3, <1>5 DEF FlatLicenses, OrOne, n
  <2>2. Budget(1, p, m) = m
    BY <1>5 DEF Budget
  <2>3. QED
    BY <1>5, <2>1, <2>2
<1>6. CASE p <= m
  <2>1. FlatLicenses(p, m) = n
    BY <1>4, <1>6 DEF FlatLicenses, OrOne, n
  <2>2. Budget(n, p, m) = n * p
    BY <1>2 DEF Budget
  <2>3. QED
    BY <1>2, <1>6, <2>1, <2>2 DEF n
<1>7. QED
  BY <1>5, <1>6

-----------------------------------------------------------------------------
\* The workload is typed: every request has a user and natural charges.
LEMMA JobTyped ==
  ASSUME job \in [Requests -> Submissions]
  PROVE  \A r \in Requests :
           /\ User(r) \in Users
           /\ Charge(job[r]) \in Nat
           /\ Discharge(job[r]) \in Nat
           /\ IsSweep(job[r]) \in BOOLEAN
           /\ ~IsSweep(job[r]) => Discharge(job[r]) <= Charge(job[r])
<1>1. ASSUME NEW r \in Requests
      PROVE  job[r] \in SubmissionsOf(Users)
  BY SubmissionsTyped
<1>2. ASSUME NEW r \in Requests
      PROVE  User(r) \in Users
  BY <1>1 DEF User, SubmissionsOf
<1>3. \A r \in Requests : IsSweep(job[r]) \in BOOLEAN
  BY DEF IsSweep
<1>4. QED
  BY <1>1, <1>2, <1>3, ChargeFacts

\* Whatever the policy, the limit it passes is a number within the cap.
LEMMA LimitsTyped ==
  \A n \in ShotLimits : n \in Nat /\ n <= MaxConcurrentShots
<1>1. ShotsPerLicense \in Nat \ {0} /\ MaxConcurrentShots \in Nat /\ Licenses \subseteq Nat
  BY LimitsAreNaturals
<1>2. FlatLicenses(ShotsPerLicense, MaxConcurrentShots) \in Nat
  <2>1. MaxConcurrentShots \div ShotsPerLicense \in Nat
    BY <1>1
  <2>2. QED
    BY <2>1 DEF FlatLicenses, OrOne
<1>3. ASSUME NEW n \in Nat
      PROVE  /\ Budget(n, ShotsPerLicense, MaxConcurrentShots) \in Nat
             /\ Budget(n, ShotsPerLicense, MaxConcurrentShots) <= MaxConcurrentShots
  <2>1. n * ShotsPerLicense \in Nat
    BY <1>1
  <2>2. QED
    BY <1>1, <2>1 DEF Budget
<1>4. QED
  BY <1>1, <1>2, <1>3 DEF ShotLimits

-----------------------------------------------------------------------------
\* Type correctness, one step per group of actions.
LEMMA TypeReserve ==
  ASSUME TypeOK, NEW r \in Requests, Reserve(r)
  PROVE  TypeOK'
<1> USE DEF TypeOK, InFlight, SyncSteps, ReserveSteps, RollbackSteps, Settled, RepSteps,
            At, Goto, AddShots, AddJobs, Deny, Forward, NoCall, counterVars
<1>1. User(r) \in Users /\ Charge(job[r]) \in Nat
  BY JobTyped
<1>2. CASE NoLicense(r)
  BY <1>2 DEF NoLicense
<1>3. CASE ReserveShots(r)
  BY <1>1, <1>3, LimitsTyped DEF ReserveShots
<1>4. CASE CountJob(r)
  BY <1>1, <1>4 DEF CountJob
<1>5. CASE UndoShots(r)
  BY <1>1, <1>5 DEF UndoShots
<1>6. CASE UndoJob(r)
  BY <1>1, <1>6 DEF UndoJob
<1>7. CASE ReserveSweep(r)
  BY <1>1, <1>7 DEF ReserveSweep
<1>8. CASE ReserveError(r)
  <2>1. shots' \in [Users -> Int] /\ jobs' \in [Users -> Int]
    BY <1>1, <1>8 DEF ReserveError, NextCommand, ZeroShots, ZeroJobs, Fails
  <2>2. QED
    BY <1>8, <2>1 DEF ReserveError, Fails
<1>9. QED
  BY <1>2, <1>3, <1>4, <1>5, <1>6, <1>7, <1>8 DEF Reserve, TryReserve

LEMMA TypeOutcome ==
  ASSUME TypeOK, NEW r \in Requests, Outcome(r) \/ Machine(r)
  PROVE  TypeOK'
BY DEF TypeOK, InFlight, SyncSteps, ReserveSteps, RollbackSteps, Settled, RepSteps, At, Goto,
   counterVars, Outcome, Respond, Machine, Accepted, Refused, ConnectFails, LostReply,
   GiveBack, LogJob, LogJobFails, MachineDecides, MachineFinishes, Fails

LEMMA TypeRollback ==
  ASSUME TypeOK, NEW r \in Requests, Rollback(r)
  PROVE  TypeOK'
<1> USE DEF TypeOK, InFlight, SyncSteps, ReserveSteps, RollbackSteps, Settled, RepSteps,
            At, Goto, AddShots, AddJobs, ZeroShots, ZeroJobs, NoCall, counterVars
<1>1. User(r) \in Users /\ Charge(job[r]) \in Nat
  BY JobTyped
<1>2. CASE RollbackShots(r)
  BY <1>1, <1>2 DEF RollbackShots
<1>3. CASE RollbackJob(r)
  BY <1>1, <1>3 DEF RollbackJob
<1>4. CASE RollbackClamp(r)
  BY <1>1, <1>4 DEF RollbackClamp
<1>5. CASE RollbackError(r)
  <2>1. shots' \in [Users -> Int] /\ jobs' \in [Users -> Int]
    BY <1>1, <1>5 DEF RollbackError, NextCommand, Fails
  <2>2. QED
    BY <1>5, <2>1 DEF RollbackError, Fails
<1>6. QED
  BY <1>2, <1>3, <1>4, <1>5 DEF Rollback, RollbackCalls

LEMMA TypeReporter ==
  ASSUME TypeOK, NEW r \in Requests, Reporter(r)
  PROVE  TypeOK'
<1> USE DEF TypeOK, RepSteps, AddShots, AddJobs, ZeroShots, ZeroJobs, ReporterNext,
            ReporterOnly, counterVars, GatewayStays
<1>1. User(r) \in Users /\ Discharge(job[r]) \in Nat
  BY JobTyped
<1>2. CASE ReporterMarks(r)
  BY <1>2 DEF ReporterMarks
<1>3. CASE ReporterDecrJobs(r)
  BY <1>1, <1>3 DEF ReporterDecrJobs
<1>4. CASE ReporterClampJobs(r)
  BY <1>1, <1>4 DEF ReporterClampJobs
<1>5. CASE ReporterDecrShots(r)
  BY <1>1, <1>5 DEF ReporterDecrShots
<1>6. CASE ReporterClampShots(r)
  BY <1>1, <1>6 DEF ReporterClampShots
<1>7. CASE ReporterError(r)
  BY <1>1, <1>7 DEF ReporterError, GatewayStays, Fails
<1>8. CASE ReporterCrash(r)
  BY <1>8 DEF ReporterCrash, GatewayStays, Fails
<1>9. QED
  BY <1>2, <1>3, <1>4, <1>5, <1>6, <1>7, <1>8 DEF Reporter, Release

LEMMA TypeStep == TypeOK /\ [Next]_vars => TypeOK'
<1> SUFFICES ASSUME TypeOK, [Next]_vars
             PROVE  TypeOK'
  OBVIOUS
<1>1. ASSUME NEW r \in Requests,
             Reserve(r) \/ Machine(r) \/ Outcome(r) \/ Rollback(r) \/ Reporter(r)
      PROVE  TypeOK'
  BY <1>1, TypeReserve, TypeOutcome, TypeRollback, TypeReporter
<1>2. CASE GatewayCrash
  BY <1>2 DEF GatewayCrash, TypeOK, counterVars, NoCall, InFlight, Settled
<1>3. ASSUME NEW u \in Users, Expire(u)
      PROVE  TypeOK'
  BY <1>3 DEF Expire, TypeOK, ZeroShots, ZeroJobs, Fails
<1>4. CASE UNCHANGED vars
  BY <1>4 DEF vars, TypeOK
<1>5. QED
  BY <1>1, <1>2, <1>3, <1>4 DEF Next

\* Every variable keeps its type, whatever fails.
THEOREM TypeCorrect == Spec => []TypeOK
<1>1. Init => TypeOK
  BY DEF Init, TypeOK, NoCall
<1>2. QED
  BY <1>1, TypeStep, PTL DEF Spec

-----------------------------------------------------------------------------
(***************************************************************************)
(* The limits hold under the faults that can only leave a counter too      *)
(* high.  The other three lower what is counted below what the machine     *)
(* runs: a reservation let through after a Redis error, a rollback of a    *)
(* job whose acceptance got lost, and a counter that expires too early.    *)
(***************************************************************************)
OnlyLeaks == Faults \cap {"gateway_redis", "lost_reply", "ttl"} = {}

\* How the handlers, the machine and the reporter stand to each other.
Shape ==
  /\ \A q, r \in Requests : pc[q] \in SyncSteps /\ pc[r] \in SyncSteps => q = r
  /\ \A r \in Requests :
       /\ pc[r] \in {"idle", "denied"} \cup ReserveSteps => machine[r] = "none"
       /\ pc[r] \in RollbackSteps \cup {"rolledback"} => machine[r] \in {"none", "refused"}
       /\ pc[r] = "upstream" => resv[r] = IF IsSweep(job[r]) THEN "jobs" ELSE "shots"
       /\ pc[r] \in {"countJob", "undoShots", "rbShots"} => ~IsSweep(job[r])
       /\ release[r] # "no" => pc[r] = "tracked" /\ machine[r] = "finished"

\* The jobs counter covers the places that are held, so it is never clamped.
JobsCovered ==
  /\ \A u \in Users : Cardinality(JobHolders(u)) <= jobs[u]
  /\ \A r \in Requests : release[r] # "clampJobs" /\ pc[r] # "rbClampJobs"
  /\ call.jobs >= 0

\* The shots counter of a user without sweeps covers the shots that are held; so
\* does the count a handler read, while it is about to compare it with the limit.
ShotsCovered ==
  /\ call.limit <= MaxConcurrentShots
  /\ \A u \in Users : SendsNoSweep(u) =>
       /\ Weight(ShotHolders(u), job) <= shots[u]
       /\ \A r \in RequestsOf(u) :
            /\ release[r] # "clampShots" /\ pc[r] # "rbClampShots"
            /\ pc[r] = "rbJobs" => call.shots >= 0
            /\ pc[r] = "countJob" => Weight(ShotHolders(u), job) <= call.shots

\* Nobody changes what a request carries.
LEMMA JobKept == [Next]_vars => job' = job
BY DEF Next, vars, Reserve, TryReserve, Machine, Outcome, Respond, Rollback, RollbackCalls,
   Reporter, Release, NoLicense, ReserveShots, CountJob, UndoShots, UndoJob, ReserveSweep,
   ReserveError, MachineDecides, MachineFinishes, Accepted, Refused, ConnectFails, LostReply,
   GiveBack, LogJob, LogJobFails, RollbackShots, RollbackJob, RollbackClamp, RollbackError,
   ReporterMarks, ReporterDecrJobs, ReporterClampJobs, ReporterDecrShots, ReporterClampShots,
   ReporterError, ReporterCrash, ReporterOnly, GatewayCrash, Expire, GatewayStays, Fails

-----------------------------------------------------------------------------
\* Shape is inductive.
LEMMA ShapeReserve ==
  ASSUME OnlyLeaks, TypeOK, Shape, NEW r \in Requests, Reserve(r)
  PROVE  Shape'
<1> USE DEF TypeOK, Shape, InFlight, SyncSteps, ReserveSteps, RollbackSteps, Settled, RepSteps,
            At, LoopFree, Goto, Deny, Forward, NoCall, counterVars
<1>1. ~ReserveError(r)
  BY DEF ReserveError, OnlyLeaks, Fails
<1>2. CASE NoLicense(r)
  BY <1>2 DEF NoLicense, IsSweep
<1>3. CASE ReserveShots(r)
  BY <1>3 DEF ReserveShots, IsSweep
<1>4. CASE CountJob(r)
  BY <1>4 DEF CountJob, IsSweep
<1>5. CASE UndoShots(r)
  BY <1>5 DEF UndoShots, IsSweep
<1>6. CASE UndoJob(r)
  BY <1>6 DEF UndoJob, IsSweep
<1>7. CASE ReserveSweep(r)
  BY <1>7 DEF ReserveSweep, IsSweep
<1>8. QED
  BY <1>1, <1>2, <1>3, <1>4, <1>5, <1>6, <1>7 DEF Reserve, TryReserve

LEMMA ShapeOutcome ==
  ASSUME OnlyLeaks, TypeOK, Shape, NEW r \in Requests, Outcome(r) \/ Machine(r)
  PROVE  Shape'
<1> USE DEF TypeOK, Shape, InFlight, SyncSteps, ReserveSteps, RollbackSteps, Settled, RepSteps,
            At, LoopFree, Goto, GiveBack, IsSweep, counterVars
<1>1. ~LostReply(r)
  BY DEF LostReply, OnlyLeaks, Fails
<1>2. CASE Machine(r)
  BY <1>2 DEF Machine, MachineDecides, MachineFinishes
<1>3. CASE Accepted(r) \/ LogJob(r) \/ LogJobFails(r)
  BY <1>3 DEF Accepted, LogJob, LogJobFails, Fails
<1>4. CASE Refused(r) \/ ConnectFails(r)
  BY <1>4 DEF Refused, ConnectFails
<1>5. QED
  BY <1>1, <1>2, <1>3, <1>4 DEF Outcome, Respond

LEMMA ShapeRollback ==
  ASSUME OnlyLeaks, TypeOK, Shape, NEW r \in Requests, Rollback(r)
  PROVE  Shape'
<1> USE DEF TypeOK, Shape, InFlight, SyncSteps, ReserveSteps, RollbackSteps, Settled, RepSteps,
            At, Goto, IsSweep
<1>1. ~RollbackError(r)
  BY DEF RollbackError, OnlyLeaks, Fails
<1>2. CASE RollbackShots(r)
  BY <1>2 DEF RollbackShots
<1>3. CASE RollbackJob(r)
  BY <1>3 DEF RollbackJob
<1>4. CASE RollbackClamp(r)
  BY <1>4 DEF RollbackClamp
<1>5. QED
  BY <1>1, <1>2, <1>3, <1>4 DEF Rollback, RollbackCalls

LEMMA ShapeReporter ==
  ASSUME TypeOK, Shape, NEW r \in Requests, Reporter(r)
  PROVE  Shape'
<1>1. UNCHANGED <<job, pc, resv, machine>>
  BY DEF Reporter, Release, ReporterMarks, ReporterDecrJobs, ReporterClampJobs,
     ReporterDecrShots, ReporterClampShots, ReporterError, ReporterCrash, ReporterOnly,
     GatewayStays, Fails
<1>2. \A q \in Requests : release'[q] # "no" =>
         release[q] # "no" \/ (pc[q] = "tracked" /\ machine[q] = "finished")
  BY DEF TypeOK, Shape, RepSteps, Reporter, Release, ReporterMarks, ReporterDecrJobs,
     ReporterClampJobs, ReporterDecrShots, ReporterClampShots, ReporterError, ReporterCrash,
     ReporterNext, GatewayStays, Fails
<1>3. QED
  BY <1>1, <1>2 DEF Shape, IsSweep

LEMMA ShapeStep == OnlyLeaks /\ TypeOK /\ Shape /\ [Next]_vars => Shape'
<1> SUFFICES ASSUME OnlyLeaks, TypeOK, Shape, [Next]_vars
             PROVE  Shape'
  OBVIOUS
<1>1. ASSUME NEW r \in Requests,
             Reserve(r) \/ Machine(r) \/ Outcome(r) \/ Rollback(r) \/ Reporter(r)
      PROVE  Shape'
  BY <1>1, ShapeReserve, ShapeOutcome, ShapeRollback, ShapeReporter
<1>2. CASE GatewayCrash
  BY <1>2 DEF GatewayCrash, TypeOK, Shape, counterVars, InFlight, Settled, SyncSteps,
              ReserveSteps, RollbackSteps, RepSteps, IsSweep
<1>3. ASSUME NEW u \in Users
      PROVE  ~Expire(u)
  BY <1>3 DEF Expire, OnlyLeaks, Fails
<1>4. CASE UNCHANGED vars
  BY <1>4 DEF vars, Shape, IsSweep
<1>5. QED
  BY <1>1, <1>2, <1>3, <1>4 DEF Next

\* What the machine runs, or may get, holds what it was charged.
ActiveHolds ==
  \A r \in Requests : Active(r) => HoldsJob(r) /\ (~IsSweep(job[r]) => HoldsShots(r))

LEMMA ShapeHolds == TypeOK /\ Shape => ActiveHolds
BY DEF TypeOK, Shape, ActiveHolds, Active, HoldsJob, HoldsShots, Pending, InFlight, SyncSteps,
       ReserveSteps, RollbackSteps, Settled, RepSteps

LEMMA ShapeHoldsNext == TypeOK' /\ Shape' => ActiveHolds'
BY ShapeHolds, PTL

-----------------------------------------------------------------------------
(***************************************************************************)
(* The jobs counter.  A step keeps, adds or removes one place of a user,   *)
(* and moves the user's counter with it, or leaves the counter higher.     *)
(***************************************************************************)
JobsMove(u) ==
  \/ JobHolders(u)' \subseteq JobHolders(u) /\ jobs'[u] >= jobs[u]
  \/ \E r \in Requests : /\ JobHolders(u)' \subseteq JobHolders(u) \cup {r}
                         /\ jobs'[u] = jobs[u] + 1
  \/ \E r \in JobHolders(u) : /\ JobHolders(u)' \subseteq JobHolders(u) \ {r}
                              /\ jobs'[u] = jobs[u] - 1

LEMMA HoldersFinite ==
  ASSUME NEW u
  PROVE  /\ IsFiniteSet(RequestsOf(u))
         /\ IsFiniteSet(JobHolders(u)) /\ Cardinality(JobHolders(u)) \in Nat
         /\ IsFiniteSet(ShotHolders(u))
<1>1. /\ RequestsOf(u) \in SUBSET Requests
      /\ JobHolders(u) \in SUBSET Requests
      /\ ShotHolders(u) \in SUBSET Requests
  BY DEF RequestsOf, JobHolders, ShotHolders
<1>2. QED
  BY <1>1, RequestsFinite, FS_Subset, FS_CardinalityType

LEMMA CardinalityMoves ==
  ASSUME NEW S, IsFiniteSet(S), NEW T, NEW n \in Int, NEW m \in Int, Cardinality(S) <= n,
         \/ T \subseteq S /\ m >= n
         \/ \E x : T \subseteq S \cup {x} /\ m = n + 1
         \/ \E x \in S : T \subseteq S \ {x} /\ m = n - 1
  PROVE  Cardinality(T) <= m
<1>1. Cardinality(S) \in Nat
  BY FS_CardinalityType
<1>2. CASE T \subseteq S /\ m >= n
  <2>1. Cardinality(T) <= Cardinality(S) /\ Cardinality(T) \in Nat
    BY <1>2, FS_Subset, FS_CardinalityType
  <2>2. QED
    BY <1>1, <1>2, <2>1
<1>3. ASSUME NEW x, T \subseteq S \cup {x}, m = n + 1
      PROVE  Cardinality(T) <= m
  <2>1. IsFiniteSet(S \cup {x}) /\ Cardinality(S \cup {x}) <= Cardinality(S) + 1
    BY <1>1, FS_AddElement
  <2>2. Cardinality(T) <= Cardinality(S \cup {x}) /\ Cardinality(T) \in Nat
    BY <1>3, <2>1, FS_Subset, FS_CardinalityType
  <2>3. Cardinality(S \cup {x}) \in Nat
    BY <2>1, FS_CardinalityType
  <2>4. QED
    BY <1>1, <1>3, <2>1, <2>2, <2>3
<1>4. ASSUME NEW x \in S, T \subseteq S \ {x}, m = n - 1
      PROVE  Cardinality(T) <= m
  <2>1. IsFiniteSet(S \ {x}) /\ Cardinality(S \ {x}) = Cardinality(S) - 1
    BY FS_RemoveElement
  <2>2. Cardinality(T) <= Cardinality(S \ {x}) /\ Cardinality(T) \in Nat
    BY <1>4, <2>1, FS_Subset, FS_CardinalityType
  <2>3. QED
    BY <1>1, <1>4, <2>1, <2>2
<1>5. QED
  BY <1>2, <1>3, <1>4

\* A user who holds a place has a positive counter.
LEMMA HeldIsCounted ==
  ASSUME TypeOK, JobsCovered, NEW r \in Requests, HoldsJob(r)
  PROVE  jobs[User(r)] >= 1
<1>1. User(r) \in Users
  BY JobTyped DEF TypeOK
<1>2. r \in JobHolders(User(r))
  BY DEF JobHolders, RequestsOf
<1>3. Cardinality(JobHolders(User(r))) >= 1
  BY <1>2, HoldersFinite, FS_EmptySet
<1>4. QED
  BY <1>1, <1>3, HoldersFinite DEF TypeOK, JobsCovered

\* A request's step is a move of its user's counter, and of no other user's.
LEMMA JobsMoveReserve ==
  ASSUME OnlyLeaks, TypeOK, Shape, JobsCovered, NEW r \in Requests, Reserve(r), NEW u \in Users
  PROVE  JobsMove(u)
<1> USE DEF TypeOK, Shape, InFlight, SyncSteps, ReserveSteps, RollbackSteps, Settled, RepSteps,
            At, Goto, Deny, Forward, AddJobs, NoCall, counterVars
<1>1. ~ReserveError(r)
  BY DEF ReserveError, OnlyLeaks, Fails
<1>2. job' = job /\ RequestsOf(u)' = RequestsOf(u)
  BY JobKept DEF Next, RequestsOf, User
<1>3. CASE NoLicense(r) \/ ReserveShots(r) \/ UndoShots(r)
  <2>1. jobs' = jobs
    BY <1>3 DEF NoLicense, ReserveShots, UndoShots
  <2>2. \A q \in Requests : HoldsJob(q)' => HoldsJob(q)
    BY <1>3 DEF NoLicense, ReserveShots, UndoShots, HoldsJob, Pending
  <2>3. QED
    BY <1>2, <2>1, <2>2 DEF JobsMove, JobHolders, RequestsOf
<1>4. CASE CountJob(r) \/ ReserveSweep(r)
  <2>1. jobs' = [jobs EXCEPT ![User(r)] = @ + 1]
    BY <1>4 DEF CountJob, ReserveSweep
  <2>2. \A q \in Requests : HoldsJob(q)' => HoldsJob(q) \/ q = r
    BY <1>4 DEF CountJob, ReserveSweep, HoldsJob, Pending
  <2>3. CASE u = User(r)
    BY <1>2, <2>1, <2>2, <2>3 DEF JobsMove, JobHolders, RequestsOf
  <2>4. CASE u # User(r)
    BY <1>2, <2>1, <2>2, <2>4 DEF JobsMove, JobHolders, RequestsOf, User
  <2>5. QED
    BY <2>3, <2>4
<1>5. CASE UndoJob(r)
  <2>1. jobs' = [jobs EXCEPT ![User(r)] = @ + (-1)]
    BY <1>5 DEF UndoJob
  <2>2. \A q \in Requests : HoldsJob(q)' => HoldsJob(q) /\ q # r
    BY <1>5 DEF UndoJob, HoldsJob, Pending
  <2>3. HoldsJob(r)
    BY <1>5 DEF UndoJob, HoldsJob
  <2>4. CASE u = User(r)
    BY <1>2, <2>1, <2>2, <2>3, <2>4 DEF JobsMove, JobHolders, RequestsOf
  <2>5. CASE u # User(r)
    BY <1>2, <2>1, <2>2, <2>5 DEF JobsMove, JobHolders, RequestsOf, User
  <2>6. QED
    BY <2>4, <2>5
<1>6. QED
  BY <1>1, <1>3, <1>4, <1>5 DEF Reserve, TryReserve

LEMMA JobsMoveGateway ==
  ASSUME OnlyLeaks, TypeOK, Shape, JobsCovered, NEW r \in Requests, NEW u \in Users,
         Machine(r) \/ Outcome(r) \/ Rollback(r)
  PROVE  JobsMove(u)
<1> USE DEF TypeOK, Shape, InFlight, SyncSteps, ReserveSteps, RollbackSteps, Settled, RepSteps,
            At, Goto, AddJobs, NoCall, counterVars
<1>1. ~LostReply(r) /\ ~RollbackError(r)
  BY DEF LostReply, RollbackError, OnlyLeaks, Fails
<1>2. job' = job /\ RequestsOf(u)' = RequestsOf(u)
  BY JobKept DEF Next, RequestsOf, User
<1>3. CASE Machine(r) \/ Outcome(r)
  <2>1. jobs' = jobs
    BY <1>3, <1>1 DEF Machine, MachineDecides, MachineFinishes, Outcome, Respond, Accepted,
       Refused, ConnectFails, GiveBack, LogJob, LogJobFails, Fails
  <2>2. CASE Machine(r) \/ Accepted(r) \/ LogJob(r) \/ LogJobFails(r)
    <3>1. \A q \in Requests : HoldsJob(q)' => HoldsJob(q)
      BY <2>2 DEF Machine, MachineDecides, MachineFinishes, Accepted, LogJob, LogJobFails,
                  HoldsJob, Pending, Fails
    <3>2. QED
      BY <1>2, <2>1, <3>1 DEF JobsMove, JobHolders, RequestsOf
  <2>3. CASE Refused(r) \/ ConnectFails(r)
    <3>1. \A q \in Requests : HoldsJob(q)' => HoldsJob(q)
      BY <2>3 DEF Refused, ConnectFails, GiveBack, HoldsJob, Pending
    <3>2. QED
      BY <1>2, <2>1, <3>1 DEF JobsMove, JobHolders, RequestsOf
  <2>4. QED
    BY <1>1, <1>3, <2>2, <2>3 DEF Outcome, Respond
<1>4. CASE RollbackShots(r) \/ RollbackClamp(r)
  <2>1. jobs' = jobs
    BY <1>4 DEF RollbackShots, RollbackClamp, JobsCovered
  <2>2. \A q \in Requests : HoldsJob(q)' => HoldsJob(q)
    BY <1>4 DEF RollbackShots, RollbackClamp, HoldsJob, Pending
  <2>3. QED
    BY <1>2, <2>1, <2>2 DEF JobsMove, JobHolders, RequestsOf
<1>5. CASE RollbackJob(r)
  <2>1. jobs' = [jobs EXCEPT ![User(r)] = @ + (-1)]
    BY <1>5 DEF RollbackJob
  <2>2. \A q \in Requests : HoldsJob(q)' => HoldsJob(q) /\ q # r
    BY <1>5 DEF RollbackJob, HoldsJob, Pending
  <2>3. HoldsJob(r)
    BY <1>5 DEF RollbackJob, HoldsJob
  <2>4. CASE u = User(r)
    BY <1>2, <2>1, <2>2, <2>3, <2>4 DEF JobsMove, JobHolders, RequestsOf
  <2>5. CASE u # User(r)
    BY <1>2, <2>1, <2>2, <2>5 DEF JobsMove, JobHolders, RequestsOf, User
  <2>6. QED
    BY <2>4, <2>5
<1>6. QED
  BY <1>1, <1>3, <1>4, <1>5 DEF Rollback, RollbackCalls

LEMMA JobsMoveReporter ==
  ASSUME TypeOK, Shape, JobsCovered, NEW r \in Requests, NEW u \in Users, Reporter(r)
  PROVE  JobsMove(u)
<1> USE DEF TypeOK, Shape, RepSteps, AddJobs, ReporterNext, ReporterOnly, counterVars, GatewayStays
<1>1. job' = job /\ RequestsOf(u)' = RequestsOf(u) /\ UNCHANGED <<pc, machine>>
  BY JobKept DEF Next, RequestsOf, User, Reporter, Release, ReporterMarks, ReporterDecrJobs,
     ReporterClampJobs, ReporterDecrShots, ReporterClampShots, ReporterError,
     ReporterCrash, GatewayStays, Fails
<1>2. CASE ~UNCHANGED jobs
  <2>1. /\ release[r] = "decrJobs" /\ release' = [release EXCEPT ![r] = release'[r]]
        /\ release'[r] \in {"clampJobs", "decrShots"}
        /\ jobs' = [jobs EXCEPT ![User(r)] = @ + (-1)]
    BY <1>2 DEF JobsCovered, Reporter, Release, ReporterMarks, ReporterDecrJobs,
       ReporterClampJobs, ReporterDecrShots, ReporterClampShots, ReporterError,
       ReporterCrash, GatewayStays, Fails
  <2>2. HoldsJob(r) /\ \A q \in Requests : HoldsJob(q)' => HoldsJob(q) /\ q # r
    BY <1>1, <2>1 DEF HoldsJob, Pending
  <2>3. CASE u = User(r)
    BY <1>1, <2>1, <2>2, <2>3 DEF JobsMove, JobHolders, RequestsOf
  <2>4. CASE u # User(r)
    BY <1>1, <2>1, <2>2, <2>4 DEF JobsMove, JobHolders, RequestsOf, User
  <2>5. QED
    BY <2>3, <2>4
<1>3. CASE UNCHANGED jobs
  <2>1. \A q \in Requests : release'[q] \in {"no", "decrJobs"} =>
          release[q] = release'[q] \/ release[q] = "no"
    BY DEF Reporter, Release, ReporterMarks, ReporterDecrJobs, ReporterClampJobs,
       ReporterDecrShots, ReporterClampShots, ReporterError, ReporterCrash, GatewayStays, Fails
  <2>2. \A q \in Requests : HoldsJob(q)' => HoldsJob(q)
    BY <1>1, <2>1 DEF HoldsJob, Pending
  <2>3. QED
    BY <1>1, <1>3, <2>2 DEF JobsMove, JobHolders, RequestsOf
<1>4. QED
  BY <1>2, <1>3

LEMMA JobsMoveStep ==
  ASSUME OnlyLeaks, TypeOK, Shape, JobsCovered, [Next]_vars, NEW u \in Users
  PROVE  JobsMove(u)
<1>1. ASSUME NEW r \in Requests,
             Reserve(r) \/ Machine(r) \/ Outcome(r) \/ Rollback(r) \/ Reporter(r)
      PROVE  JobsMove(u)
  BY <1>1, JobsMoveReserve, JobsMoveGateway, JobsMoveReporter
<1>2. CASE GatewayCrash
  <2>1. jobs' = jobs /\ RequestsOf(u)' = RequestsOf(u)
    BY <1>2 DEF GatewayCrash, counterVars, RequestsOf, User
  <2>2. \A q \in Requests : HoldsJob(q)' => HoldsJob(q)
    BY <1>2 DEF GatewayCrash, counterVars, TypeOK, Shape, InFlight, Settled, SyncSteps,
                ReserveSteps, RollbackSteps, RepSteps, HoldsJob, Pending
  <2>3. QED
    BY <2>1, <2>2 DEF JobsMove, JobHolders, RequestsOf, TypeOK
<1>3. ASSUME NEW v \in Users
      PROVE  ~Expire(v)
  BY <1>3 DEF Expire, OnlyLeaks, Fails
<1>4. CASE UNCHANGED vars
  BY <1>4 DEF vars, JobsMove, JobHolders, RequestsOf, User, HoldsJob, Pending, TypeOK
<1>5. QED
  BY <1>1, <1>2, <1>3, <1>4 DEF Next

\* JobsCovered is inductive.
LEMMA JobsCoveredStep ==
  OnlyLeaks /\ TypeOK /\ Shape /\ JobsCovered /\ [Next]_vars => JobsCovered'
<1> SUFFICES ASSUME OnlyLeaks, TypeOK, Shape, JobsCovered, [Next]_vars
             PROVE  JobsCovered'
  OBVIOUS
<1>1. TypeOK'
  BY TypeStep
<1>2. \A u \in Users : Cardinality(JobHolders(u)') <= jobs'[u]
  <2> SUFFICES ASSUME NEW u \in Users
               PROVE  Cardinality(JobHolders(u)') <= jobs'[u]
    OBVIOUS
  <2>1. jobs[u] \in Int /\ jobs'[u] \in Int /\ Cardinality(JobHolders(u)) <= jobs[u]
    BY <1>1 DEF TypeOK, JobsCovered
  <2>2. JobsMove(u)
    BY JobsMoveStep
  <2>3. QED
    BY <2>1, <2>2, HoldersFinite, CardinalityMoves DEF JobsMove
<1>3. /\ \A r \in Requests : release'[r] # "clampJobs" /\ pc'[r] # "rbClampJobs"
      /\ call'.jobs >= 0
  <2>1. ASSUME NEW r \in Requests, HoldsJob(r)
        PROVE  jobs[User(r)] \in Int /\ jobs[User(r)] - 1 >= 0
    BY <2>1, HeldIsCounted, JobTyped DEF TypeOK
  <2>2. ASSUME NEW r \in Requests, Rollback(r)
        PROVE  <1>3
    <3>1. ~RollbackError(r)
      BY DEF RollbackError, OnlyLeaks, Fails
    <3>2. CASE RollbackShots(r)
      BY <3>2 DEF RollbackShots, JobsCovered, TypeOK, Goto, NoCall
    <3>3. CASE RollbackJob(r)
      <4>1. jobs[User(r)] \in Int /\ jobs[User(r)] - 1 >= 0
        BY <2>1, <3>3 DEF RollbackJob, At, HoldsJob
      <4>2. QED
        BY <3>3, <4>1 DEF RollbackJob, JobsCovered, TypeOK, Goto, NoCall
    <3>4. CASE RollbackClamp(r)
      BY <3>4 DEF RollbackClamp, JobsCovered, TypeOK, Goto, NoCall, At
    <3>5. QED
      BY <2>2, <3>1, <3>2, <3>3, <3>4 DEF Rollback, RollbackCalls
  <2>3. ASSUME NEW r \in Requests, Reporter(r)
        PROVE  <1>3
    <3>1. CASE ReporterDecrJobs(r)
      <4>1. jobs[User(r)] \in Int /\ jobs[User(r)] - 1 >= 0
        BY <2>1, <3>1 DEF ReporterDecrJobs, Shape, HoldsJob
      <4>2. QED
        BY <3>1, <4>1 DEF ReporterDecrJobs, ReporterNext, ReporterOnly, JobsCovered,
            TypeOK, GatewayStays
    <3>2. QED
      BY <2>3, <3>1 DEF Reporter, Release, ReporterMarks, ReporterClampJobs, ReporterDecrShots,
         ReporterClampShots, ReporterError, ReporterCrash, ReporterNext, ReporterOnly,
         JobsCovered, TypeOK, GatewayStays, Fails
  <2>4. ASSUME NEW r \in Requests, Reserve(r) \/ Machine(r) \/ Outcome(r)
        PROVE  <1>3
    <3>1. ~ReserveError(r)
      BY DEF ReserveError, OnlyLeaks, Fails
    <3>2. QED
      BY <2>4, <3>1 DEF Reserve, TryReserve, NoLicense, ReserveShots, CountJob, UndoShots,
         UndoJob, ReserveSweep, Machine, MachineDecides, MachineFinishes, Outcome, Respond,
         Accepted, Refused, ConnectFails, LostReply, GiveBack, LogJob, LogJobFails, Goto,
         Deny, Forward, NoCall, JobsCovered, TypeOK, Fails
  <2>5. CASE GatewayCrash
    BY <2>5 DEF GatewayCrash, NoCall, JobsCovered, TypeOK
  <2>6. ASSUME NEW v \in Users
        PROVE  ~Expire(v)
    BY DEF Expire, OnlyLeaks, Fails
  <2>7. CASE UNCHANGED vars
    BY <2>7 DEF vars, JobsCovered
  <2>8. QED
    BY <2>2, <2>3, <2>4, <2>5, <2>6, <2>7 DEF Next
<1>4. QED
  BY <1>2, <1>3 DEF JobsCovered

-----------------------------------------------------------------------------
\* A submission leaves for the machine in two steps only, each behind its compare.
LEMMA NewlyActive ==
  ASSUME OnlyLeaks, TypeOK, Shape, [Next]_vars, NEW r \in Requests, Active(r)'
  PROVE  \/ Active(r)
         \/ CountJob(r) /\ call.shots <= call.limit
         \/ ReserveSweep(r) /\ jobs[User(r)] + 1 <= MaxConcurrentSweeps
<1> USE DEF TypeOK, Active, Goto, Deny, Forward
<1>1. ASSUME NEW q \in Requests, Reserve(q)
      PROVE  \/ Active(r)
             \/ CountJob(r) /\ call.shots <= call.limit
             \/ ReserveSweep(r) /\ jobs[User(r)] + 1 <= MaxConcurrentSweeps
  <2>1. ~ReserveError(q)
    BY DEF ReserveError, OnlyLeaks, Fails
  <2>2. CASE NoLicense(q) \/ ReserveShots(q) \/ UndoShots(q) \/ UndoJob(q)
    BY <2>2 DEF NoLicense, ReserveShots, UndoShots, UndoJob
  <2>3. CASE CountJob(q)
    BY <2>3 DEF CountJob
  <2>4. CASE ReserveSweep(q)
    BY <2>4 DEF ReserveSweep
  <2>5. QED
    BY <1>1, <2>1, <2>2, <2>3, <2>4 DEF Reserve, TryReserve
<1>2. ASSUME NEW q \in Requests, Machine(q) \/ Outcome(q) \/ Rollback(q) \/ Reporter(q)
      PROVE  Active(r)
  BY <1>2 DEF Machine, MachineDecides, MachineFinishes, Outcome, Respond, Accepted, Refused,
     ConnectFails, LostReply, GiveBack, LogJob, LogJobFails, Rollback, RollbackCalls,
     RollbackShots, RollbackJob, RollbackClamp, RollbackError, Reporter, Release,
     ReporterMarks, ReporterDecrJobs, ReporterClampJobs, ReporterDecrShots,
     ReporterClampShots, ReporterError, ReporterCrash, ReporterOnly, GatewayStays, Fails
<1>3. CASE GatewayCrash \/ UNCHANGED vars \/ \E u \in Users : Expire(u)
  BY <1>3 DEF GatewayCrash, vars, Expire, Fails
<1>4. QED
  BY <1>1, <1>2, <1>3 DEF Next

\* The failures that hide a job from its counter do not happen.
LEMMA NeverUndercounted ==
  ASSUME OnlyLeaks, TypeOK, NEW u \in Users
  PROVE  ~Undercounted(u)
BY DEF OnlyLeaks, TypeOK, Undercounted

\* The sweeps that are active are among the places that are held.
LEMMA SweepStep ==
  OnlyLeaks /\ TypeOK /\ Shape /\ JobsCovered /\ SweepLimit /\ [Next]_vars => SweepLimit'
<1> SUFFICES ASSUME OnlyLeaks, TypeOK, Shape, JobsCovered, SweepLimit, [Next]_vars,
                    NEW u \in Users
             PROVE  Cardinality({r \in RequestsOf(u) : Active(r) /\ IsSweep(job[r])}')
                      <= MaxConcurrentSweeps
  BY DEF SweepLimit
<1> DEFINE Sweeps == {r \in RequestsOf(u) : Active(r) /\ IsSweep(job[r])}
<1>1. TypeOK' /\ Shape' /\ JobsCovered' /\ job' = job
  BY TypeStep, ShapeStep, JobsCoveredStep, JobKept
<1>2. MaxConcurrentSweeps \in Nat /\ jobs'[u] \in Int
  BY <1>1, LimitsAreNaturals DEF TypeOK
<1>3. CASE \E r \in RequestsOf(u) : Active(r)' /\ IsSweep(job[r]) /\ ~Active(r)
  <2>1. PICK r \in RequestsOf(u) : Active(r)' /\ IsSweep(job[r]) /\ ~Active(r)
    BY <1>3
  <2>2. ReserveSweep(r) /\ jobs[User(r)] + 1 <= MaxConcurrentSweeps
    BY <2>1, NewlyActive DEF RequestsOf, CountJob, At, Shape
  <2>3. jobs'[u] <= MaxConcurrentSweeps
    BY <2>1, <2>2 DEF ReserveSweep, AddJobs, RequestsOf, TypeOK
  <2>4. Sweeps' \subseteq JobHolders(u)'
    BY <1>1, ShapeHoldsNext DEF ActiveHolds, JobHolders, RequestsOf
  <2>5. IsFiniteSet(JobHolders(u)')
    BY RequestsFinite, FS_Subset DEF JobHolders, RequestsOf
  <2>6. /\ Cardinality(Sweeps') <= Cardinality(JobHolders(u)')
        /\ Cardinality(Sweeps') \in Nat /\ Cardinality(JobHolders(u)') \in Nat
    BY <2>4, <2>5, FS_Subset, FS_CardinalityType
  <2>7. Cardinality(JobHolders(u)') <= jobs'[u]
    BY <1>1 DEF JobsCovered
  <2>8. QED
    BY <1>2, <2>3, <2>6, <2>7
<1>4. CASE \A r \in RequestsOf(u) : Active(r)' /\ IsSweep(job[r]) => Active(r)
  <2>1. Sweeps' \subseteq Sweeps
    BY <1>1, <1>4 DEF RequestsOf, User
  <2>2. IsFiniteSet(Sweeps)
    BY HoldersFinite, FS_Subset
  <2>3. /\ Cardinality(Sweeps') <= Cardinality(Sweeps)
        /\ Cardinality(Sweeps') \in Nat /\ Cardinality(Sweeps) \in Nat
    BY <2>1, <2>2, FS_Subset, FS_CardinalityType
  <2>4. Cardinality(Sweeps) <= MaxConcurrentSweeps
    BY NeverUndercounted DEF SweepLimit
  <2>5. QED
    BY <1>2, <2>3, <2>4
<1>5. QED
  BY <1>3, <1>4

\* Under faults that only leak, a user's sweeps that are active stay within
\* MAX_CONCURRENT_SWEEPS (try_reserve's sweep branch, rollback, the reporter).
THEOREM SweepLimitHolds == OnlyLeaks => (Spec => []SweepLimit)
<1> SUFFICES ASSUME OnlyLeaks
             PROVE  Spec => []SweepLimit
  OBVIOUS
<1> DEFINE IInv == TypeOK /\ Shape /\ JobsCovered /\ SweepLimit
<1>1. Init => IInv
  <2> SUFFICES ASSUME Init
               PROVE  IInv
    OBVIOUS
  <2>1. TypeOK /\ Shape
    BY DEF Init, TypeOK, Shape, NoCall, SyncSteps, ReserveSteps, RollbackSteps
  <2>2. \A u : JobHolders(u) = {} /\ {r \in RequestsOf(u) : Active(r) /\ IsSweep(job[r])} = {}
    BY DEF Init, JobHolders, RequestsOf, HoldsJob, Pending, Active
  <2>3. Cardinality({}) = 0
    BY FS_EmptySet
  <2>4. \A u : /\ Cardinality(JobHolders(u)) = 0
               /\ Cardinality({r \in RequestsOf(u) : Active(r) /\ IsSweep(job[r])}) = 0
    BY <2>2, <2>3, Zenon
  <2>5. JobsCovered /\ SweepLimit
    BY <2>4, LimitsAreNaturals DEF Init, NoCall, JobsCovered, SweepLimit
  <2>6. QED
    BY <2>1, <2>5
<1>2. IInv /\ [Next]_vars => IInv'
  BY TypeStep, ShapeStep, JobsCoveredStep, SweepStep
<1>3. QED
  BY <1>1, <1>2, PTL DEF Spec

-----------------------------------------------------------------------------
(***************************************************************************)
(* The shots counter of a user who sends no sweep.  What a release takes   *)
(* off is never more than what the same job was charged.                   *)
(***************************************************************************)
LEMMA WeightMoves ==
  ASSUME NEW R, IsFiniteSet(R), NEW j, \A r \in R : Charge(j[r]) \in Nat,
         NEW S \in SUBSET R, NEW T, NEW n \in Int, NEW m \in Int, Weight(S, j) <= n,
         \/ T \subseteq S /\ m >= n
         \/ \E x \in R : T \subseteq S \cup {x} /\ m = n + Charge(j[x])
         \/ \E x \in S : T \subseteq S \ {x} /\ m >= n - Charge(j[x])
  PROVE  Weight(T, j) <= m
<1>1. IsFiniteSet(S) /\ Weight(S, j) \in Nat
  BY FS_Subset, TokensFinite
<1>2. CASE T \subseteq S /\ m >= n
  <2>1. Weight(T, j) <= Weight(S, j) /\ Weight(T, j) \in Nat
    BY <1>1, <1>2, WeightMonotone
  <2>2. QED
    BY <1>1, <1>2, <2>1
<1>3. ASSUME NEW x \in R, T \subseteq S \cup {x}, m = n + Charge(j[x])
      PROVE  Weight(T, j) <= m
  <2>1. IsFiniteSet(S \cup {x}) /\ \A r \in S \cup {x} : Charge(j[r]) \in Nat
    BY FS_Subset
  <2>2. /\ Weight(T, j) <= Weight(S \cup {x}, j)
        /\ Weight(T, j) \in Nat /\ Weight(S \cup {x}, j) \in Nat
    BY <1>3, <2>1, WeightMonotone
  <2>3. Weight(S \cup {x}, j) <= Weight(S, j) + Charge(j[x])
    <3>1. CASE x \in S
      <4>1. S \cup {x} = S
        BY <3>1
      <4>2. Weight(S \cup {x}, j) = Weight(S, j)
        BY <4>1, Zenon
      <4>3. QED
        BY <1>1, <4>2
    <3>2. CASE x \notin S
      <4>1. Weight(S \cup {x}, j) = Weight(S, j) + Charge(j[x])
        BY <1>1, <2>1, <3>2, WeightAdd, Zenon
      <4>2. QED
        BY <1>1, <2>2, <4>1
    <3>3. QED
      BY <3>1, <3>2
  <2>4. QED
    BY <1>1, <1>3, <2>2, <2>3
<1>4. ASSUME NEW x \in S, T \subseteq S \ {x}, m >= n - Charge(j[x])
      PROVE  Weight(T, j) <= m
  <2>1. IsFiniteSet(S \ {x}) /\ \A r \in S : Charge(j[r]) \in Nat
    BY <1>1, FS_RemoveElement
  <2>2. /\ Weight(T, j) <= Weight(S \ {x}, j)
        /\ Weight(T, j) \in Nat /\ Weight(S \ {x}, j) \in Nat
    BY <1>4, <2>1, WeightMonotone
  <2>3. Weight(S \ {x}, j) = Weight(S, j) - Charge(j[x])
    BY <1>1, <2>1, WeightRemove
  <2>4. QED
    BY <1>1, <1>4, <2>2, <2>3
<1>5. QED
  BY <1>2, <1>3, <1>4

\* A user who holds shots has at least that many on the counter.
LEMMA HeldIsCharged ==
  ASSUME TypeOK, ShotsCovered, NEW r \in Requests, HoldsShots(r), SendsNoSweep(User(r))
  PROVE  shots[User(r)] >= Charge(job[r])
<1>1. User(r) \in Users /\ r \in ShotHolders(User(r))
  BY JobTyped DEF TypeOK, ShotHolders, RequestsOf
<1>2. \A q \in Requests : Charge(job[q]) \in Nat
  BY JobTyped DEF TypeOK
<1>3. Weight({r}, job) = Charge(job[r])
  <2>1. Tokens({r}, job) = {r} \X (1..Charge(job[r]))
    BY DEF Tokens
  <2>2. QED
    BY <1>2, <2>1, TokensOfOne, Zenon DEF Weight
<1>4. /\ Weight({r}, job) <= Weight(ShotHolders(User(r)), job)
      /\ Weight(ShotHolders(User(r)), job) \in Nat
  <2>1. {r} \in SUBSET ShotHolders(User(r)) /\ IsFiniteSet(ShotHolders(User(r)))
    BY <1>1, HoldersFinite
  <2>2. \A q \in ShotHolders(User(r)) : Charge(job[q]) \in Nat
    BY <1>2 DEF ShotHolders, RequestsOf
  <2>3. QED
    BY <2>1, <2>2, WeightMonotone
<1>5. Weight(ShotHolders(User(r)), job) <= shots[User(r)]
  BY <1>1 DEF ShotsCovered
<1>6. shots[User(r)] \in Int
  BY <1>1 DEF TypeOK
<1>7. QED
  BY <1>2, <1>3, <1>4, <1>5, <1>6

\* A user who sends no sweep: what is charged to which requests, after a step.
ShotsMove(u) ==
  \/ ShotHolders(u)' \subseteq ShotHolders(u) /\ shots'[u] >= shots[u]
  \/ \E r \in RequestsOf(u) : /\ ShotHolders(u)' \subseteq ShotHolders(u) \cup {r}
                              /\ shots'[u] = shots[u] + Charge(job[r])
  \/ \E r \in ShotHolders(u) : /\ ShotHolders(u)' \subseteq ShotHolders(u) \ {r}
                               /\ shots'[u] >= shots[u] - Charge(job[r])

\* Shots come to be held by the command that charges them, and by no other step.
LEMMA NewlyHolding ==
  ASSUME OnlyLeaks, TypeOK, Shape, [Next]_vars, NEW r \in Requests, HoldsShots(r)'
  PROVE  HoldsShots(r) \/ ReserveShots(r)
<1> USE DEF TypeOK, Shape, InFlight, SyncSteps, ReserveSteps, RollbackSteps, Settled, RepSteps,
            At, Goto, Deny, Forward
<1>1. job' = job
  BY JobKept
<1>2. ASSUME NEW q \in Requests, Reserve(q)
      PROVE  HoldsShots(r) \/ ReserveShots(r)
  <2>1. ~ReserveError(q)
    BY DEF ReserveError, OnlyLeaks, Fails
  <2>2. CASE ReserveShots(q)
    <3>1. CASE r = q
      BY <2>2, <3>1, Zenon
    <3>2. CASE r # q
      BY <1>1, <2>2, <3>2 DEF ReserveShots, HoldsShots, Pending
    <3>3. QED
      BY <3>1, <3>2
  <2>3. CASE NoLicense(q) \/ CountJob(q) \/ UndoShots(q)
    BY <1>1, <2>3 DEF NoLicense, CountJob, UndoShots, HoldsShots, Pending
  <2>4. CASE UndoJob(q) \/ ReserveSweep(q)
    BY <1>1, <2>4 DEF UndoJob, ReserveSweep, HoldsShots, Pending
  <2>5. QED
    BY <1>2, <2>1, <2>2, <2>3, <2>4 DEF Reserve, TryReserve
<1>3. ASSUME NEW q \in Requests, Machine(q) \/ Outcome(q)
      PROVE  HoldsShots(r)
  <2>1. ~LostReply(q)
    BY DEF LostReply, OnlyLeaks, Fails
  <2>2. CASE Machine(q)
    BY <1>1, <2>2 DEF Machine, MachineDecides, MachineFinishes, HoldsShots, Pending
  <2>3. CASE Accepted(q) \/ LogJob(q) \/ LogJobFails(q)
    BY <1>1, <2>3 DEF Accepted, LogJob, LogJobFails, HoldsShots, Pending, Fails
  <2>4. CASE Refused(q) \/ ConnectFails(q)
    BY <1>1, <2>4 DEF Refused, ConnectFails, GiveBack, HoldsShots, Pending
  <2>5. QED
    BY <1>3, <2>1, <2>2, <2>3, <2>4 DEF Outcome, Respond
<1>4. ASSUME NEW q \in Requests, Rollback(q)
      PROVE  HoldsShots(r)
  BY <1>1, <1>4 DEF Rollback, RollbackCalls, RollbackShots, RollbackJob, RollbackClamp,
     RollbackError, HoldsShots, Pending, Fails
<1>5. ASSUME NEW q \in Requests, Reporter(q)
      PROVE  HoldsShots(r)
  <2>1. UNCHANGED <<pc, machine>>
    BY <1>5 DEF Reporter, Release, ReporterMarks, ReporterDecrJobs, ReporterClampJobs,
       ReporterDecrShots, ReporterClampShots, ReporterError, ReporterCrash, ReporterOnly,
       GatewayStays, Fails
  <2>2. release'[r] \in {"no", "decrJobs", "clampJobs", "decrShots"} =>
          release[r] \in {"no", "decrJobs", "clampJobs", "decrShots"}
    BY <1>5 DEF Reporter, Release, ReporterMarks, ReporterDecrJobs, ReporterClampJobs,
       ReporterNext, ReporterDecrShots, ReporterClampShots, ReporterError, ReporterCrash,
       GatewayStays, Fails
  <2>3. QED
    BY <1>1, <2>1, <2>2 DEF HoldsShots, Pending
<1>6. CASE GatewayCrash
  BY <1>1, <1>6 DEF GatewayCrash, HoldsShots, Pending
<1>7. CASE UNCHANGED vars \/ \E u \in Users : Expire(u)
  BY <1>7 DEF vars, HoldsShots, Pending, User, Expire, OnlyLeaks, IsSweep, Fails
<1>8. QED
  BY <1>2, <1>3, <1>4, <1>5, <1>6, <1>7 DEF Next

\* A command that takes off at most the charge of a job that held it, and no longer does.
LEMMA ShotsTakenOff ==
  ASSUME TypeOK, NEW r \in Requests, HoldsShots(r), NEW u \in Users, NEW n \in Int,
         n <= Charge(job[r]), RequestsOf(u)' = RequestsOf(u),
         shots' = [shots EXCEPT ![User(r)] = @ + (-n)],
         \A q \in Requests : HoldsShots(q)' => HoldsShots(q) /\ q # r
  PROVE  ShotsMove(u)
<1>1. Charge(job[r]) \in Nat /\ shots[u] \in Int
  BY JobTyped DEF TypeOK
<1>2. ShotHolders(u)' \subseteq ShotHolders(u) \ {r}
  BY DEF ShotHolders, RequestsOf
<1>3. CASE u = User(r)
  <2>1. shots'[u] = shots[u] - n
    BY <1>1, <1>3 DEF TypeOK
  <2>2. shots'[u] >= shots[u] - Charge(job[r])
    BY <1>1, <2>1
  <2>3. r \in ShotHolders(u)
    BY <1>3 DEF ShotHolders, RequestsOf
  <2>4. QED
    BY <1>2, <2>2, <2>3 DEF ShotsMove
<1>4. CASE u # User(r)
  <2>1. shots'[u] = shots[u]
    BY <1>4 DEF TypeOK
  <2>2. QED
    BY <1>1, <1>2, <2>1 DEF ShotsMove
<1>5. QED
  BY <1>3, <1>4


LEMMA ShotsMoveReserve ==
  ASSUME OnlyLeaks, TypeOK, Shape, NEW r \in Requests, Reserve(r), NEW u \in Users
  PROVE  ShotsMove(u)
<1> USE DEF TypeOK, Shape, InFlight, SyncSteps, ReserveSteps, RollbackSteps, Settled, RepSteps,
            At, Goto, Deny, Forward, AddShots, NoCall, counterVars
<1>1. ~ReserveError(r)
  BY DEF ReserveError, OnlyLeaks, Fails
<1>2. /\ job' = job /\ RequestsOf(u)' = RequestsOf(u)
      /\ \A q \in Requests : HoldsShots(q)' => HoldsShots(q) \/ ReserveShots(q)
  BY JobKept, NewlyHolding DEF Next, RequestsOf, User
<1>3. CASE NoLicense(r) \/ CountJob(r) \/ UndoJob(r) \/ ReserveSweep(r)
  <2>1. shots' = shots
    BY <1>3 DEF NoLicense, CountJob, UndoJob, ReserveSweep
  <2>2. \A q \in Requests : ~ReserveShots(q)
    <3> SUFFICES ASSUME NEW q \in Requests, ReserveShots(q)
                 PROVE  FALSE
      OBVIOUS
    <3>1. pc[q] = "idle" /\ pc'[q] = "countJob"
      BY DEF ReserveShots
    <3>2. QED
      BY <1>3, <3>1 DEF NoLicense, CountJob, UndoJob, ReserveSweep
  <2>3. QED
    BY <1>2, <2>1, <2>2 DEF ShotsMove, ShotHolders, RequestsOf
<1>4. CASE ReserveShots(r)
  <2>1. shots' = [shots EXCEPT ![User(r)] = @ + Charge(job[r])]
    BY <1>4 DEF ReserveShots
  <2>2. \A q \in Requests : ReserveShots(q) => q = r
    <3> SUFFICES ASSUME NEW q \in Requests, ReserveShots(q)
                 PROVE  q = r
      OBVIOUS
    <3>1. pc[q] = "idle" /\ pc'[q] = "countJob"
      BY DEF ReserveShots
    <3>2. QED
      BY <1>4, <3>1 DEF ReserveShots
  <2>3. ShotHolders(u)' \subseteq ShotHolders(u) \cup {r}
    BY <1>2, <2>2 DEF ShotHolders, RequestsOf
  <2>4. CASE u = User(r)
    BY <2>1, <2>3, <2>4 DEF ShotsMove, RequestsOf
  <2>5. CASE u # User(r)
    <3>1. r \notin RequestsOf(u) /\ shots'[u] = shots[u]
      BY <2>1, <2>5 DEF RequestsOf
    <3>2. ShotHolders(u)' \subseteq ShotHolders(u)
      BY <1>2, <2>3, <3>1 DEF ShotHolders
    <3>3. QED
      BY <3>1, <3>2 DEF ShotsMove
  <2>6. QED
    BY <2>4, <2>5
<1>5. CASE UndoShots(r)
  <2>1. shots' = [shots EXCEPT ![User(r)] = @ + (-Charge(job[r]))]
    BY <1>5 DEF UndoShots
  <2>2. HoldsShots(r) /\ \A q \in Requests : HoldsShots(q)' => HoldsShots(q) /\ q # r
    BY <1>2, <1>5 DEF UndoShots, HoldsShots, Pending
  <2>3. Charge(job[r]) \in Int /\ Charge(job[r]) <= Charge(job[r])
    BY JobTyped
  <2>4. QED
    BY <1>2, <2>1, <2>2, <2>3, ShotsTakenOff
<1>6. QED
  BY <1>1, <1>3, <1>4, <1>5 DEF Reserve, TryReserve

LEMMA ShotsMoveGateway ==
  ASSUME OnlyLeaks, TypeOK, Shape, ShotsCovered, NEW r \in Requests, NEW u \in Users,
         SendsNoSweep(u), Machine(r) \/ Outcome(r) \/ Rollback(r)
  PROVE  ShotsMove(u)
<1> USE DEF TypeOK, Shape, InFlight, SyncSteps, ReserveSteps, RollbackSteps, Settled, RepSteps,
            At, Goto, AddShots, NoCall, counterVars
<1>1. ~LostReply(r) /\ ~RollbackError(r)
  BY DEF LostReply, RollbackError, OnlyLeaks, Fails
<1>2. job' = job /\ RequestsOf(u)' = RequestsOf(u)
  BY JobKept DEF Next, RequestsOf, User
<1>3. CASE RollbackShots(r)
  <2>1. shots' = [shots EXCEPT ![User(r)] = @ + (-Charge(job[r]))]
    BY <1>3 DEF RollbackShots
  <2>2. HoldsShots(r) /\ \A q \in Requests : HoldsShots(q)' => HoldsShots(q) /\ q # r
    BY <1>2, <1>3 DEF RollbackShots, HoldsShots, Pending
  <2>3. Charge(job[r]) \in Int /\ Charge(job[r]) <= Charge(job[r])
    BY JobTyped
  <2>4. QED
    BY <1>2, <2>1, <2>2, <2>3, ShotsTakenOff
<1>4. CASE ~RollbackShots(r)
  <2>1. \A q \in Requests : HoldsShots(q)' => HoldsShots(q)
    <3> SUFFICES ASSUME NEW q \in Requests, HoldsShots(q)', ReserveShots(q)
                 PROVE  FALSE
      BY NewlyHolding DEF Next
    <3>1. pc[q] = "idle" /\ pc'[q] = "countJob"
      BY DEF ReserveShots
    <3>2. QED
      BY <1>1, <3>1 DEF Machine, MachineDecides, MachineFinishes, Outcome, Respond, Accepted,
         Refused, ConnectFails, GiveBack, LogJob, LogJobFails, Rollback, RollbackCalls,
         RollbackShots, RollbackJob, RollbackClamp, Fails
  <2>2. shots'[u] = shots[u]
    <3>1. CASE Machine(r) \/ Outcome(r) \/ RollbackJob(r)
      BY <1>1, <3>1 DEF Machine, MachineDecides, MachineFinishes, Outcome, Respond, Accepted,
         Refused, ConnectFails, GiveBack, LogJob, LogJobFails, RollbackJob, Fails
    <3>2. CASE RollbackClamp(r)
      BY <1>2, <3>2 DEF RollbackClamp, ShotsCovered, ZeroShots, RequestsOf
    <3>3. QED
      BY <1>1, <1>4, <3>1, <3>2 DEF Rollback, RollbackCalls
  <2>3. QED
    BY <1>2, <2>1, <2>2 DEF ShotsMove, ShotHolders, RequestsOf
<1>5. QED
  BY <1>3, <1>4

LEMMA ShotsMoveReporter ==
  ASSUME OnlyLeaks, TypeOK, Shape, ShotsCovered, NEW r \in Requests, NEW u \in Users,
         SendsNoSweep(u), Reporter(r)
  PROVE  ShotsMove(u)
<1> USE DEF TypeOK, Shape, RepSteps, AddShots, ReporterNext, ReporterOnly, counterVars, GatewayStays
<1>1. job' = job /\ RequestsOf(u)' = RequestsOf(u) /\ UNCHANGED <<pc, machine>>
  BY JobKept DEF Next, RequestsOf, User, Reporter, Release, ReporterMarks, ReporterDecrJobs,
     ReporterClampJobs, ReporterDecrShots, ReporterClampShots, ReporterError,
     ReporterCrash, GatewayStays, Fails
<1>2. \A q \in Requests : HoldsShots(q)' => HoldsShots(q)
  <2> SUFFICES ASSUME NEW q \in Requests, HoldsShots(q)', ReserveShots(q)
               PROVE  FALSE
    BY NewlyHolding DEF Next
  <2>1. QED
    BY <1>1 DEF ReserveShots, Goto, At
<1>3. CASE UNCHANGED shots \/ User(r) # u
  <2>1. shots'[u] = shots[u]
    BY <1>3 DEF Reporter, Release, ReporterMarks, ReporterDecrJobs, ReporterClampJobs,
       ReporterDecrShots, ReporterClampShots, ReporterError, ReporterCrash, ZeroShots,
       GatewayStays, Fails
  <2>2. QED
    BY <1>1, <1>2, <2>1 DEF ShotsMove, ShotHolders, RequestsOf
<1>4. CASE ~UNCHANGED shots /\ User(r) = u
  <2>1. /\ release[r] = "decrShots" /\ release'[r] \in {"clampShots", "done"}
        /\ release' = [release EXCEPT ![r] = release'[r]]
        /\ shots' = [shots EXCEPT ![User(r)] = @ + (-Discharge(job[r]))]
    BY <1>4 DEF ShotsCovered, RequestsOf, Reporter, Release, ReporterMarks, ReporterDecrJobs,
       ReporterClampJobs, ReporterDecrShots, ReporterClampShots, ReporterError,
       ReporterCrash, GatewayStays, Fails
  <2>2. HoldsShots(r) /\ ~HoldsShots(r)'
    <3>1. ~IsSweep(job[r])
      BY <1>4 DEF SendsNoSweep, RequestsOf
    <3>2. pc[r] = "tracked" /\ pc'[r] = "tracked"
      BY <1>1, <2>1
    <3>3. QED
      BY <1>1, <2>1, <3>1, <3>2 DEF HoldsShots, Pending
  <2>3. Discharge(job[r]) \in Int /\ Discharge(job[r]) <= Charge(job[r])
    BY <1>4, JobTyped DEF SendsNoSweep, RequestsOf
  <2>4. \A q \in Requests : HoldsShots(q)' => HoldsShots(q) /\ q # r
    BY <1>2, <2>2
  <2>5. QED
    BY <1>1, <2>1, <2>2, <2>3, <2>4, ShotsTakenOff
<1>5. QED
  BY <1>3, <1>4

LEMMA ShotsMoveStep ==
  ASSUME OnlyLeaks, TypeOK, Shape, ShotsCovered, [Next]_vars, NEW u \in Users, SendsNoSweep(u)
  PROVE  ShotsMove(u)
<1>1. ASSUME NEW r \in Requests,
             Reserve(r) \/ Machine(r) \/ Outcome(r) \/ Rollback(r) \/ Reporter(r)
      PROVE  ShotsMove(u)
  BY <1>1, ShotsMoveReserve, ShotsMoveGateway, ShotsMoveReporter
<1>2. CASE GatewayCrash \/ UNCHANGED vars
  <2>1. shots' = shots /\ RequestsOf(u)' = RequestsOf(u)
    BY <1>2 DEF GatewayCrash, counterVars, RequestsOf, User, vars
  <2>2. \A q \in Requests : HoldsShots(q)' => HoldsShots(q)
    <3> SUFFICES ASSUME NEW q \in Requests, HoldsShots(q)', ReserveShots(q)
                 PROVE  FALSE
      BY NewlyHolding
    <3>1. QED
      BY <1>2 DEF GatewayCrash, ReserveShots, Goto, At, vars, TypeOK, InFlight, SyncSteps,
                  ReserveSteps
  <2>3. QED
    BY <2>1, <2>2 DEF ShotsMove, ShotHolders, RequestsOf, TypeOK
<1>3. ASSUME NEW v \in Users
      PROVE  ~Expire(v)
  BY DEF Expire, OnlyLeaks, Fails
<1>4. QED
  BY <1>1, <1>2, <1>3 DEF Next

\* The sum is covered by the counter after every step...
LEMMA ShotSumStep ==
  ASSUME OnlyLeaks, TypeOK, Shape, ShotsCovered, [Next]_vars, NEW u \in Users, SendsNoSweep(u)
  PROVE  Weight(ShotHolders(u)', job) <= shots'[u]
<1>1. /\ IsFiniteSet(RequestsOf(u)) /\ ShotHolders(u) \in SUBSET RequestsOf(u)
      /\ \A r \in RequestsOf(u) : Charge(job[r]) \in Nat
  BY HoldersFinite, JobTyped DEF TypeOK, RequestsOf, ShotHolders
<1>2. shots[u] \in Int /\ shots'[u] \in Int
  BY TypeStep DEF TypeOK
<1>3. Weight(ShotHolders(u), job) <= shots[u]
  BY DEF ShotsCovered
<1>4. ShotsMove(u)
  BY ShotsMoveStep
<1>5. CASE ShotHolders(u)' \subseteq ShotHolders(u) /\ shots'[u] >= shots[u]
  BY <1>1, <1>2, <1>3, <1>5, WeightMoves
<1>6. CASE \E r \in RequestsOf(u) : /\ ShotHolders(u)' \subseteq ShotHolders(u) \cup {r}
                                    /\ shots'[u] = shots[u] + Charge(job[r])
  BY <1>1, <1>2, <1>3, <1>6, WeightMoves
<1>7. CASE \E r \in ShotHolders(u) : /\ ShotHolders(u)' \subseteq ShotHolders(u) \ {r}
                                     /\ shots'[u] >= shots[u] - Charge(job[r])
  BY <1>1, <1>2, <1>3, <1>7, WeightMoves
<1>8. QED
  BY <1>4, <1>5, <1>6, <1>7 DEF ShotsMove

\* ... and so is no clamp ever due ...
LEMMA NoShotClampStep ==
  ASSUME OnlyLeaks, TypeOK, Shape, ShotsCovered, [Next]_vars,
         NEW r \in Requests, SendsNoSweep(User(r))
  PROVE  /\ release'[r] # "clampShots" /\ pc'[r] # "rbClampShots"
         /\ pc'[r] = "rbJobs" => call'.shots >= 0
<1>1. /\ release[r] # "clampShots" /\ pc[r] # "rbClampShots"
      /\ pc[r] = "rbJobs" => call.shots >= 0
  BY JobTyped DEF ShotsCovered, TypeOK, RequestsOf
<1>2. ~IsSweep(job[r]) /\ User(r) \in Users
  BY JobTyped DEF SendsNoSweep, RequestsOf, TypeOK
<1>3. HoldsShots(r) => /\ shots[User(r)] - Charge(job[r]) >= 0
                       /\ shots[User(r)] - Discharge(job[r]) >= 0
  BY <1>2, HeldIsCharged, JobTyped DEF TypeOK
<1>4. ASSUME NEW q \in Requests, Reserve(q) \/ Machine(q) \/ Outcome(q)
      PROVE  /\ release'[r] # "clampShots" /\ pc'[r] # "rbClampShots"
             /\ pc'[r] = "rbJobs" => call'.shots >= 0
  <2>1. ~ReserveError(q) /\ ~LostReply(q)
    BY DEF ReserveError, LostReply, OnlyLeaks, Fails
  <2>2. release' = release
    BY <1>4, <2>1 DEF Reserve, TryReserve, NoLicense, ReserveShots, CountJob, UndoShots,
       UndoJob, ReserveSweep, Machine, MachineDecides, MachineFinishes, Outcome, Respond,
       Accepted, Refused, ConnectFails, GiveBack, LogJob, LogJobFails, Fails
  <2>3. CASE Machine(q) \/ Outcome(q)
    BY <1>1, <1>2, <2>1, <2>2, <2>3 DEF Shape, TypeOK, Machine, MachineDecides,
       MachineFinishes, Outcome, Respond, Accepted, Refused, ConnectFails, GiveBack, LogJob,
       LogJobFails, Goto, At, Fails
  <2>4. CASE Reserve(q)
    <3>1. pc'[r] \notin {"rbClampShots", "rbJobs"}
      BY <1>1, <2>1, <2>4 DEF Shape, TypeOK, SyncSteps, ReserveSteps, RollbackSteps, LoopFree,
         Reserve, TryReserve, NoLicense, ReserveShots, CountJob, UndoShots, UndoJob,
         ReserveSweep, Goto, Deny, Forward, At
    <3>2. QED
      BY <1>1, <2>2, <3>1
  <2>5. QED
    BY <1>4, <2>3, <2>4
<1>5. ASSUME NEW q \in Requests, Rollback(q)
      PROVE  /\ release'[r] # "clampShots" /\ pc'[r] # "rbClampShots"
             /\ pc'[r] = "rbJobs" => call'.shots >= 0
  <2>1. ~RollbackError(q)
    BY DEF RollbackError, OnlyLeaks, Fails
  <2>2. CASE RollbackShots(q)
    <3>1. CASE q = r
      <4>1. HoldsShots(r)
        BY <1>2, <2>2, <3>1 DEF RollbackShots, At, HoldsShots
      <4>2. call'.shots = shots[User(r)] - Charge(job[r])
        BY <2>2, <3>1 DEF RollbackShots, NoCall
      <4>3. pc'[r] = "rbJobs" /\ release' = release
        BY <2>2, <3>1 DEF RollbackShots, Goto, TypeOK
      <4>4. QED
        BY <1>1, <1>3, <4>1, <4>2, <4>3
    <3>2. CASE q # r
      BY <1>1, <2>2, <3>2 DEF RollbackShots, Goto, At, TypeOK, Shape, SyncSteps, RollbackSteps
    <3>3. QED
      BY <3>1, <3>2
  <2>3. CASE RollbackJob(q) \/ RollbackClamp(q)
    BY <1>1, <2>3 DEF RollbackJob, RollbackClamp, Goto, At, TypeOK, Shape, SyncSteps,
       RollbackSteps
  <2>4. QED
    BY <1>5, <2>1, <2>2, <2>3 DEF Rollback, RollbackCalls
<1>6. ASSUME NEW q \in Requests, Reporter(q)
      PROVE  /\ release'[r] # "clampShots" /\ pc'[r] # "rbClampShots"
             /\ pc'[r] = "rbJobs" => call'.shots >= 0
  <2>1. pc' = pc /\ call' = call
    BY <1>6 DEF Reporter, Release, ReporterMarks, ReporterDecrJobs, ReporterClampJobs,
       ReporterDecrShots, ReporterClampShots, ReporterError, ReporterCrash, ReporterOnly,
       GatewayStays, Fails
  <2>2. CASE ReporterDecrShots(q) /\ q = r
    <3>1. HoldsShots(r)
      BY <1>2, <2>2 DEF ReporterDecrShots, HoldsShots, Shape
    <3>2. ~(shots[User(r)] - Discharge(job[r]) < 0)
      BY <1>2, <1>3, <3>1, JobTyped DEF TypeOK
    <3>3. release'[r] = "done"
      BY <2>2, <3>2 DEF ReporterDecrShots, ReporterNext, TypeOK
    <3>4. QED
      BY <1>1, <2>1, <3>3
  <2>3. CASE ~(ReporterDecrShots(q) /\ q = r)
    <3>1. release'[r] # "clampShots"
      BY <1>1, <1>6, <2>3 DEF Reporter, Release, ReporterMarks, ReporterDecrJobs,
         ReporterClampJobs, ReporterDecrShots, ReporterClampShots, ReporterError,
         ReporterCrash, ReporterNext, TypeOK, GatewayStays, Fails
    <3>2. QED
      BY <1>1, <2>1, <3>1
  <2>4. QED
    BY <2>2, <2>3
<1>7. CASE GatewayCrash \/ UNCHANGED vars
  BY <1>1, <1>7 DEF GatewayCrash, vars, TypeOK, InFlight, SyncSteps, RollbackSteps
<1>8. ASSUME NEW v \in Users
      PROVE  ~Expire(v)
  BY DEF Expire, OnlyLeaks, Fails
<1>9. QED
  BY <1>4, <1>5, <1>6, <1>7, <1>8 DEF Next

\* ... and the count a handler is about to compare covers the sum as well.
LEMMA ShotCountStep ==
  ASSUME OnlyLeaks, TypeOK, Shape, ShotsCovered, [Next]_vars,
         NEW u \in Users, SendsNoSweep(u), NEW r \in RequestsOf(u), pc'[r] = "countJob"
  PROVE  Weight(ShotHolders(u)', job) <= call'.shots
<1>1. r \in Requests /\ User(r) = u
  BY DEF RequestsOf
<1>2. CASE ReserveShots(r)
  <2>1. call'.shots = shots[u] + Charge(job[r])
    BY <1>1, <1>2 DEF ReserveShots
  <2>2. call'.shots = shots'[u]
    BY <1>1, <1>2, <2>1 DEF ReserveShots, AddShots, TypeOK
  <2>3. QED
    BY <1>1, <2>2, ShotSumStep
<1>3. CASE ~ReserveShots(r)
  <2>1. pc[r] = "countJob" /\ call' = call
    <3>1. ASSUME NEW q \in Requests, Reserve(q)
          PROVE  FALSE
      <4>1. ~ReserveError(q)
        BY DEF ReserveError, OnlyLeaks, Fails
      <4>2. pc'[q] # "countJob" \/ q # r
        BY <1>1, <1>3, <3>1, <4>1 DEF Reserve, TryReserve, NoLicense, ReserveShots, CountJob,
           UndoShots, UndoJob, ReserveSweep, Goto, Deny, Forward, TypeOK
      <4>3. q # r /\ pc[r] = "countJob"
        BY <1>1, <1>3, <3>1, <4>1, <4>2 DEF Reserve, TryReserve, NoLicense, ReserveShots,
           CountJob, UndoShots, UndoJob, ReserveSweep, Goto, Deny, Forward, TypeOK
      <4>4. pc[q] \in SyncSteps \/ LoopFree(q)
        BY <3>1, <4>1 DEF Reserve, TryReserve, NoLicense, ReserveShots, CountJob, UndoShots,
           UndoJob, ReserveSweep, At, SyncSteps, ReserveSteps
      <4>5. QED
        BY <1>1, <4>3, <4>4 DEF Shape, LoopFree, SyncSteps, ReserveSteps
    <3>2. ASSUME NEW q \in Requests, Outcome(q) \/ Rollback(q) \/ Machine(q) \/ Reporter(q)
          PROVE  pc[r] = "countJob" /\ call' = call
      BY <1>1, <3>2 DEF OnlyLeaks, Shape, TypeOK, SyncSteps, ReserveSteps, RollbackSteps,
         LoopFree, Machine, MachineDecides, MachineFinishes, Outcome, Respond, Accepted,
         Refused, ConnectFails, LostReply, GiveBack, LogJob, LogJobFails, Rollback,
         RollbackCalls, RollbackShots, RollbackJob, RollbackClamp, RollbackError, Reporter,
         Release, ReporterMarks, ReporterDecrJobs, ReporterClampJobs, ReporterDecrShots,
         ReporterClampShots, ReporterError, ReporterCrash, ReporterOnly, Goto, At,
         GatewayStays, Fails
    <3>3. CASE GatewayCrash \/ UNCHANGED vars
      BY <1>1, <3>3 DEF GatewayCrash, vars, TypeOK, InFlight, SyncSteps, ReserveSteps
    <3>4. ASSUME NEW v \in Users
          PROVE  ~Expire(v)
      BY DEF Expire, OnlyLeaks, Fails
    <3>5. QED
      BY <3>1, <3>2, <3>3, <3>4 DEF Next
  <2>2. ShotHolders(u)' \subseteq ShotHolders(u)
    <3>1. \A q \in Requests : HoldsShots(q)' => HoldsShots(q)
      <4> SUFFICES ASSUME NEW q \in Requests, HoldsShots(q)', ReserveShots(q)
                   PROVE  FALSE
        BY NewlyHolding
      <4>1. pc[q] = "idle" /\ LoopFree(q)
        BY DEF ReserveShots, At, SyncSteps, ReserveSteps, RollbackSteps
      <4>2. QED
        BY <1>1, <2>1, <4>1 DEF LoopFree, SyncSteps, ReserveSteps
    <3>2. job' = job
      BY JobKept
    <3>3. QED
      BY <3>1, <3>2 DEF ShotHolders, RequestsOf, User
  <2>3. /\ Weight(ShotHolders(u)', job) <= Weight(ShotHolders(u), job)
        /\ Weight(ShotHolders(u)', job) \in Nat
        /\ Weight(ShotHolders(u), job) \in Nat
    <3>1. \A q \in ShotHolders(u) : Charge(job[q]) \in Nat
      BY JobTyped DEF TypeOK, ShotHolders, RequestsOf
    <3>2. QED
      BY <2>2, <3>1, HoldersFinite, WeightMonotone
  <2>4. Weight(ShotHolders(u), job) <= call.shots /\ call.shots \in Int
    BY <1>1, <2>1 DEF ShotsCovered, TypeOK
  <2>5. QED
    BY <2>1, <2>3, <2>4
<1>4. QED
  BY <1>2, <1>3

\* ShotsCovered is inductive.
LEMMA ShotsCoveredStep ==
  OnlyLeaks /\ TypeOK /\ Shape /\ ShotsCovered /\ [Next]_vars => ShotsCovered'
<1> SUFFICES ASSUME OnlyLeaks, TypeOK, Shape, ShotsCovered, [Next]_vars
             PROVE  ShotsCovered'
  OBVIOUS
<1>1. job' = job /\ \A u : RequestsOf(u)' = RequestsOf(u) /\ SendsNoSweep(u)' = SendsNoSweep(u)
  BY JobKept DEF RequestsOf, SendsNoSweep, User, IsSweep
<1>2. call'.limit <= MaxConcurrentShots
  <2>1. /\ call.limit <= MaxConcurrentShots /\ 0 <= MaxConcurrentShots
        /\ \A n \in ShotLimits : n <= MaxConcurrentShots
    BY LimitsTyped, LimitsAreNaturals DEF ShotsCovered
  <2>2. ASSUME NEW r \in Requests, Reserve(r)
        PROVE  call'.limit <= MaxConcurrentShots
    BY <2>1, <2>2 DEF Reserve, TryReserve, NoLicense, ReserveShots, CountJob, UndoShots,
       UndoJob, ReserveSweep, ReserveError, Deny, Forward, NoCall, Fails
  <2>3. ASSUME NEW r \in Requests, Machine(r) \/ Outcome(r) \/ Reporter(r)
        PROVE  call' = call
    BY <2>3 DEF Machine, MachineDecides, MachineFinishes, Outcome, Respond, Accepted, Refused,
       ConnectFails, LostReply, GiveBack, LogJob, LogJobFails, Reporter, Release, ReporterMarks,
       ReporterDecrJobs, ReporterClampJobs, ReporterDecrShots, ReporterClampShots,
       ReporterError, ReporterCrash, ReporterOnly, GatewayStays, Fails
  <2>4. ASSUME NEW r \in Requests, Rollback(r)
        PROVE  call'.limit <= MaxConcurrentShots
    BY <2>1, <2>4 DEF Rollback, RollbackCalls, RollbackShots, RollbackJob, RollbackClamp,
       RollbackError, NoCall, TypeOK, Fails
  <2>5. CASE GatewayCrash \/ UNCHANGED vars \/ \E u \in Users : Expire(u)
    BY <2>1, <2>5 DEF GatewayCrash, vars, Expire, NoCall, Fails
  <2>6. QED
    BY <2>1, <2>2, <2>3, <2>4, <2>5 DEF Next
<1>3. ASSUME NEW u \in Users, SendsNoSweep(u)
      PROVE  /\ Weight(ShotHolders(u)', job') <= shots'[u]
             /\ \A r \in RequestsOf(u) :
                  /\ release'[r] # "clampShots" /\ pc'[r] # "rbClampShots"
                  /\ pc'[r] = "rbJobs" => call'.shots >= 0
                  /\ pc'[r] = "countJob" => Weight(ShotHolders(u)', job') <= call'.shots
  <2>1. Weight(ShotHolders(u)', job') <= shots'[u]
    BY <1>1, <1>3, ShotSumStep
  <2>2. ASSUME NEW r \in RequestsOf(u)
        PROVE  /\ release'[r] # "clampShots" /\ pc'[r] # "rbClampShots"
               /\ pc'[r] = "rbJobs" => call'.shots >= 0
    <3>1. r \in Requests /\ SendsNoSweep(User(r))
      BY <1>3 DEF RequestsOf
    <3>2. QED
      BY <3>1, NoShotClampStep
  <2>3. ASSUME NEW r \in RequestsOf(u), pc'[r] = "countJob"
        PROVE  Weight(ShotHolders(u)', job') <= call'.shots
    BY <1>1, <1>3, <2>3, ShotCountStep
  <2>4. QED
    BY <2>1, <2>2, <2>3
<1>4. QED
  BY <1>1, <1>2, <1>3 DEF ShotsCovered

\* The shots of a user's active jobs are among the shots that are held: a job is
\* forwarded when the count read for it, which covers them, is within the limit.
LEMMA ShotStep ==
  OnlyLeaks /\ TypeOK /\ Shape /\ ShotsCovered /\ ShotLimit /\ [Next]_vars => ShotLimit'
<1> SUFFICES ASSUME OnlyLeaks, TypeOK, Shape, ShotsCovered, ShotLimit, [Next]_vars,
                    NEW u \in Users, SendsNoSweep(u)'
             PROVE  Weight({r \in RequestsOf(u) : Active(r)}', job') <= MaxConcurrentShots
  BY DEF ShotLimit
<1> DEFINE Running == {r \in RequestsOf(u) : Active(r)}
<1>1. /\ TypeOK' /\ Shape' /\ job' = job
      /\ RequestsOf(u)' = RequestsOf(u) /\ SendsNoSweep(u)
  BY TypeStep, ShapeStep, JobKept DEF RequestsOf, SendsNoSweep, User, IsSweep
<1>2. /\ MaxConcurrentShots \in Nat /\ IsFiniteSet(RequestsOf(u))
      /\ \A r \in RequestsOf(u) : r \in Requests /\ Charge(job[r]) \in Nat
  BY LimitsAreNaturals, HoldersFinite, JobTyped DEF TypeOK, RequestsOf
<1>3. CASE \E r \in RequestsOf(u) : Active(r)' /\ ~Active(r)
  <2>1. PICK r \in RequestsOf(u) : Active(r)' /\ ~Active(r)
    BY <1>3
  <2>2. CountJob(r) /\ call.shots <= call.limit
    BY <1>1, <1>2, <2>1, NewlyActive DEF ReserveSweep, SendsNoSweep
  <2>3. /\ Weight(ShotHolders(u), job) <= call.shots /\ call.limit <= MaxConcurrentShots
        /\ call.shots \in Int /\ call.limit \in Int
    BY <1>1, <2>1, <2>2 DEF ShotsCovered, CountJob, At, TypeOK
  <2>4. ShotHolders(u)' \subseteq ShotHolders(u)
    <3>1. ASSUME NEW q \in Requests, ReserveShots(q)
          PROVE  FALSE
      BY <1>2, <2>1, <2>2, <3>1 DEF ReserveShots, CountJob, At, LoopFree, SyncSteps,
         ReserveSteps, RollbackSteps
    <3>2. QED
      BY <1>1, <1>2, <3>1, NewlyHolding DEF ShotHolders
  <2>5. Running' \subseteq ShotHolders(u)'
    BY <1>1, <1>2, ShapeHoldsNext DEF ActiveHolds, ShotHolders, SendsNoSweep
  <2>6. Running' \in SUBSET ShotHolders(u) /\ IsFiniteSet(ShotHolders(u))
    BY <2>4, <2>5, HoldersFinite
  <2>7. \A q \in ShotHolders(u) : Charge(job[q]) \in Nat
    BY <1>2 DEF ShotHolders
  <2>8. /\ Weight(Running', job) <= Weight(ShotHolders(u), job)
        /\ Weight(Running', job) \in Nat /\ Weight(ShotHolders(u), job) \in Nat
    BY <2>6, <2>7, WeightMonotone
  <2>9. QED
    BY <1>1, <1>2, <2>2, <2>3, <2>8
<1>4. CASE \A r \in RequestsOf(u) : Active(r)' => Active(r)
  <2>1. Running' \in SUBSET Running /\ IsFiniteSet(Running)
    BY <1>1, <1>2, <1>4, FS_Subset
  <2>2. \A q \in Running : Charge(job[q]) \in Nat
    BY <1>2
  <2>3. /\ Weight(Running', job) <= Weight(Running, job)
        /\ Weight(Running', job) \in Nat /\ Weight(Running, job) \in Nat
    BY <2>1, <2>2, WeightMonotone
  <2>4. Weight(Running, job) <= MaxConcurrentShots
    BY <1>1, NeverUndercounted DEF ShotLimit
  <2>5. QED
    BY <1>1, <1>2, <2>3, <2>4
<1>5. QED
  BY <1>3, <1>4

\* Under faults that only leak, the shots of the active jobs of a user who sends no
\* sweep stay within MAX_CONCURRENT_SHOTS (try_reserve's shots branch, rollback,
\* decrement_user_counters).
THEOREM ShotLimitHolds == OnlyLeaks => (Spec => []ShotLimit)
<1> SUFFICES ASSUME OnlyLeaks
             PROVE  Spec => []ShotLimit
  OBVIOUS
<1> DEFINE IInv == TypeOK /\ Shape /\ ShotsCovered /\ ShotLimit
<1>1. Init => IInv
  <2> SUFFICES ASSUME Init
               PROVE  IInv
    OBVIOUS
  <2>1. TypeOK /\ Shape
    BY DEF Init, TypeOK, Shape, NoCall, SyncSteps, ReserveSteps, RollbackSteps
  <2>2. \A u : ShotHolders(u) = {} /\ {r \in RequestsOf(u) : Active(r)} = {}
    BY DEF Init, ShotHolders, RequestsOf, HoldsShots, Pending, Active
  <2>3. Weight({}, job) = 0
    <3>1. Tokens({}, job) = {}
      BY DEF Tokens
    <3>2. QED
      BY <3>1, FS_EmptySet, Zenon DEF Weight
  <2>4. \A u : /\ Weight(ShotHolders(u), job) = 0
               /\ Weight({r \in RequestsOf(u) : Active(r)}, job) = 0
    BY <2>2, <2>3, Zenon
  <2>5. ShotsCovered
    BY <2>4, LimitsAreNaturals DEF Init, NoCall, ShotsCovered, RequestsOf
  <2>6. ShotLimit
    BY <2>4, LimitsAreNaturals DEF ShotLimit
  <2>7. QED
    BY <2>1, <2>5, <2>6
<1>2. IInv /\ [Next]_vars => IInv'
  BY TypeStep, ShapeStep, ShotsCoveredStep, ShotStep
<1>3. QED
  BY <1>1, <1>2, PTL DEF Spec
=============================================================================

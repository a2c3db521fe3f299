----------------------------- MODULE Accounting -----------------------------
(***************************************************************************)
(* What a submission costs.  The gateway charges a user when it forwards a *)
(* submission (ConcurrencyLimiter.try_reserve) and the job-reporter gives  *)
(* the charge back when the job ends (decrement_user_counters).  The two   *)
(* sides compute the amount separately, from what the request parser found *)
(* in the body and from what the jobs table kept of it.                    *)
(***************************************************************************)
EXTENDS Integers, FiniteSets

\* A parsed submission.  The parser returns a positive number of shots or None,
\* and None is written 0 here, as the jobs table writes it; circuits is 0 when
\* the parser recognises no list of circuits in the body.
SubmissionsOf(U) == [user     : U,
                     type     : {"circuit", "sweep"},
                     shots    : Nat,
                     circuits : Nat]

\* A submission limited by the number of jobs instead of by shots.
IsSweep(s) == s.type = "sweep" \/ s.shots = 0

\* Python's `n or 1'.
OrOne(n) == IF n = 0 THEN 1 ELSE n

\* What try_reserve adds to shots:active:{user}; a sweep adds nothing to it.
Charge(s) == IF IsSweep(s) THEN 0 ELSE s.shots * OrOne(s.circuits)

Discharge_Sum(s) ==   \* slip: + for *
  IF s.shots # 0 /\ s.circuits # 0 THEN s.shots + s.circuits ELSE 1

\* What decrement_user_counters takes off shots:active:{user}.
Discharge(s) == IF s.shots # 0 /\ s.circuits # 0 THEN s.shots * s.circuits ELSE 1

\* The shots charged for the requests in R, where job[r] is the submission of r:
\* each charged shot is a token <<r, i>>, and the tokens are counted.
Tokens(R, job) == UNION {{r} \X (1..Charge(job[r])) : r \in R}
Weight(R, job) == Cardinality(Tokens(R, job))

-----------------------------------------------------------------------------
Budget_Difference(n, shotsPerLicense, maxShots) ==   \* slip: what is left, for the lesser
  maxShots - n * shotsPerLicense

\* shot_budget: the ceiling of a principal holding n licenses, and the number of
\* licenses a principal that does not come from the cluster counts as.
Budget(n, shotsPerLicense, maxShots) ==
  IF n * shotsPerLicense < maxShots THEN n * shotsPerLicense ELSE maxShots

FlatLicenses(shotsPerLicense, maxShots) == OrOne(maxShots \div shotsPerLicense)
=============================================================================

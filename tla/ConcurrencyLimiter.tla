------------------------- MODULE ConcurrencyLimiter -------------------------
(***************************************************************************)
(* The per-user counters in Redis and the two processes that move them,    *)
(* one Redis command at a time.  The gateway's handlers run on one event   *)
(* loop: they interleave only where they await, so try_reserve and         *)
(* rollback, which call Redis synchronously, exclude each other.  The      *)
(* job-reporter is another process and runs between any two commands.      *)
(***************************************************************************)
EXTENDS Accounting

CONSTANTS
  Users,                \* the usernames
  Requests,             \* the submissions the clients may send, one handler each
  Submissions,          \* what the requests may carry
  MaxConcurrentShots,   \* MAX_CONCURRENT_SHOTS
  MaxConcurrentSweeps,  \* MAX_CONCURRENT_SWEEPS
  ShotsPerLicense,      \* SHOTS_PER_LICENSE
  Licenses,             \* the license counts a cluster principal may hold
  Faults,               \* the faults that may happen
  MaxFailures           \* bound: how many do

AllFaults == {"gateway_crash", "gateway_redis", "lost_reply", "untracked",
              "reporter_crash", "reporter_redis", "ttl"}

ASSUME RequestsFinite    == IsFiniteSet(Requests)
ASSUME SubmissionsTyped  == Submissions \subseteq SubmissionsOf(Users)
ASSUME LimitsAreNaturals == /\ MaxConcurrentShots \in Nat
                            /\ MaxConcurrentSweeps \in Nat
                            /\ ShotsPerLicense \in Nat \ {0}
                            /\ Licenses \subseteq Nat
ASSUME FaultsKnown       == Faults \subseteq AllFaults /\ MaxFailures \in Nat

VARIABLES
  job,        \* what each request carries: the clients' choice, never changed
  pc,         \* where the handler of each request stands
  resv,       \* the kind of its reservation's pre_increment_id
  machine,    \* what became of its submission on the quantum computer
  call,       \* new_shot_count, new_job_count and shot_limit of the running call
  shots,      \* shots:active:{user}; an absent key counts as 0
  jobs,       \* jobs:active:{user}
  release,    \* how far the job-reporter is with giving back each job's charge:
              \* "no" until the job is in jobs:terminal:processed, then the
              \* reporter's next command for it, then "done"
  failed      \* history: the failures so far, each with the request or user it met

counterVars == <<shots, jobs>>
vars == <<job, pc, resv, machine, call, shots, jobs, release, failed>>

-----------------------------------------------------------------------------
\* The steps of a handler between two awaits, each about to send one command.
ReserveSteps  == {"countJob", "undoShots", "undoJobs", "undoSweep"}
RollbackSteps == {"rbShots", "rbJobs", "rbClampShots", "rbClampJobs"}
SyncSteps     == ReserveSteps \cup RollbackSteps
\* Suspended in the upstream call, and in the awaits that follow acceptance.
InFlight      == SyncSteps \cup {"upstream", "accepted"}
Settled       == {"denied", "rolledback", "tracked", "untracked", "gone"}
RepSteps      == {"decrJobs", "clampJobs", "decrShots", "clampShots"}

NoCall == [shots |-> 0, jobs |-> 0, limit |-> 0]

TypeOK ==
  /\ job \in [Requests -> Submissions]
  /\ pc \in [Requests -> {"idle"} \cup InFlight \cup Settled]
  /\ resv \in [Requests -> {"none", "shots", "jobs"}]
  /\ machine \in [Requests -> {"none", "sent", "refused", "running", "finished"}]
  /\ call \in [shots : Int, jobs : Int, limit : Nat]
  /\ shots \in [Users -> Int]
  /\ jobs \in [Users -> Int]
  /\ release \in [Requests -> {"no", "done"} \cup RepSteps]
  /\ failed \subseteq Faults \X (Requests \cup Users)

Init ==
  /\ job \in [Requests -> Submissions]
  /\ pc = [r \in Requests |-> "idle"]
  /\ resv = [r \in Requests |-> "none"]
  /\ machine = [r \in Requests |-> "none"]
  /\ call = NoCall
  /\ shots = [u \in Users |-> 0]
  /\ jobs = [u \in Users |-> 0]
  /\ release = [r \in Requests |-> "no"]
  /\ failed = {}

-----------------------------------------------------------------------------
\* Helpers: the user of a request, the event loop, the four Redis updates.
User(r) == job[r].user
LoopFree(r) == \A q \in Requests \ {r} : pc[q] \notin SyncSteps
At(r, step) == pc[r] = step /\ (step \in SyncSteps \/ LoopFree(r))
Goto(r, step) == pc' = [pc EXCEPT ![r] = step]
AddShots(u, n) == shots' = [shots EXCEPT ![u] = @ + n]
AddJobs(u, n)  == jobs' = [jobs EXCEPT ![u] = @ + n]
ZeroShots(u)   == shots' = [shots EXCEPT ![u] = 0]
ZeroJobs(u)    == jobs' = [jobs EXCEPT ![u] = 0]

\* A failure of this kind, of a call made for x.
Fails(kind, x) ==
  /\ kind \in Faults /\ Cardinality(failed) < MaxFailures
  /\ failed' = failed \cup {<<kind, x>>}

\* The request leaves for the machine, with what try_reserve returned for it.
Forward(r, kind) ==
  /\ Goto(r, "upstream")
  /\ resv' = [resv EXCEPT ![r] = kind]
  /\ machine' = [machine EXCEPT ![r] = "sent"]
  /\ call' = NoCall

Deny(r) == Goto(r, "denied") /\ call' = NoCall /\ UNCHANGED <<resv, machine>>

-----------------------------------------------------------------------------
\* try_reserve, called by the policy.  The INCR and EXPIRE of one key are one step.

\* The shot limits a policy passes to it: the flat cap (passthrough), or the budget
\* of a principal of the cluster or of one from elsewhere (shot_budget).
ShotLimits ==
  {MaxConcurrentShots} \cup
  {Budget(n, ShotsPerLicense, MaxConcurrentShots) :
     n \in (Licenses \ {0}) \cup {FlatLicenses(ShotsPerLicense, MaxConcurrentShots)}}

\* shot_budget refuses a circuit job of a principal without licenses.
NoLicense(r) ==
  /\ At(r, "idle") /\ ~IsSweep(job[r]) /\ 0 \in Licenses
  /\ Deny(r)
  /\ UNCHANGED <<job, counterVars, release, failed>>

ReserveShots(r) ==
  /\ At(r, "idle") /\ ~IsSweep(job[r])
  /\ \E n \in ShotLimits :
       call' = [shots |-> shots[User(r)] + Charge(job[r]), jobs |-> 0, limit |-> n]
  /\ AddShots(User(r), Charge(job[r]))
  /\ Goto(r, "countJob")
  /\ UNCHANGED <<job, resv, machine, jobs, release, failed>>

CountJob_RefusedAtLimit(r) ==   \* slip: >= for >
  /\ At(r, "countJob")
  /\ AddJobs(User(r), 1)
  /\ \/ /\ call.shots >= call.limit
        /\ Goto(r, "undoShots")
        /\ UNCHANGED <<resv, machine, call>>
     \/ /\ call.shots < call.limit
        /\ Forward(r, "shots")
  /\ UNCHANGED <<job, shots, release, failed>>

CountJob(r) ==
  /\ At(r, "countJob")
  /\ AddJobs(User(r), 1)
  /\ \/ /\ call.shots > call.limit
        /\ Goto(r, "undoShots")
        /\ UNCHANGED <<resv, machine, call>>
     \/ /\ call.shots <= call.limit
        /\ Forward(r, "shots")
  /\ UNCHANGED <<job, shots, release, failed>>

UndoShots_Forgotten(r) ==   \* slip: the denial gives back the job only
  /\ At(r, "undoShots")
  /\ Goto(r, "undoJobs")
  /\ UNCHANGED <<job, resv, machine, call, counterVars, release, failed>>

UndoShots(r) ==
  /\ At(r, "undoShots")
  /\ AddShots(User(r), -Charge(job[r]))
  /\ Goto(r, "undoJobs")
  /\ UNCHANGED <<job, resv, machine, call, jobs, release, failed>>

UndoJob(r) ==
  /\ At(r, "undoJobs") \/ At(r, "undoSweep")
  /\ AddJobs(User(r), -1)
  /\ Deny(r)
  /\ UNCHANGED <<job, shots, release, failed>>

ReserveSweep(r) ==
  /\ At(r, "idle") /\ IsSweep(job[r])
  /\ AddJobs(User(r), 1)
  /\ \/ /\ jobs[User(r)] + 1 > MaxConcurrentSweeps
        /\ Goto(r, "undoSweep")
        /\ UNCHANGED <<resv, machine, call>>
     \/ /\ jobs[User(r)] + 1 <= MaxConcurrentSweeps
        /\ Forward(r, "jobs")
  /\ UNCHANGED <<job, shots, release, failed>>

\* The effect on the counters of the command the handler of r sends next.
NextCommand(r) ==
  \/ /\ pc[r] = "idle" /\ ~IsSweep(job[r])
     /\ AddShots(User(r), Charge(job[r])) /\ UNCHANGED jobs
  \/ /\ pc[r] = "countJob" \/ (pc[r] = "idle" /\ IsSweep(job[r]))
     /\ AddJobs(User(r), 1) /\ UNCHANGED shots
  \/ /\ pc[r] \in {"undoShots", "rbShots"}
     /\ AddShots(User(r), -Charge(job[r])) /\ UNCHANGED jobs
  \/ /\ pc[r] \in {"undoJobs", "undoSweep", "rbJobs"}
     /\ AddJobs(User(r), -1) /\ UNCHANGED shots
  \/ pc[r] = "rbClampShots" /\ ZeroShots(User(r)) /\ UNCHANGED jobs
  \/ pc[r] = "rbClampJobs" /\ ZeroJobs(User(r)) /\ UNCHANGED shots

ReserveError_Retries(r) ==   \* slip: try_reserve starts again
  /\ Fails("gateway_redis", r)
  /\ \E step \in {"idle"} \cup ReserveSteps : At(r, step)
  /\ NextCommand(r) \/ UNCHANGED counterVars
  /\ Goto(r, "idle") /\ call' = NoCall
  /\ UNCHANGED <<job, resv, machine, release>>

\* A Redis call of try_reserve raises, whether or not the command was applied:
\* the submission is let through with nothing to roll back.  With the first
\* command not applied this is also a gateway that started without Redis.
ReserveError(r) ==
  /\ Fails("gateway_redis", r)
  /\ \E step \in {"idle"} \cup ReserveSteps : At(r, step)
  /\ NextCommand(r) \/ UNCHANGED counterVars
  /\ Forward(r, "none")
  /\ UNCHANGED <<job, release>>

-----------------------------------------------------------------------------
\* The machine decides on a submission that reached it, whatever became of the
\* handler that sent it, and runs what it accepts to the end.
MachineDecides(r) ==
  /\ machine[r] = "sent"
  /\ \E m \in {"running", "refused"} : machine' = [machine EXCEPT ![r] = m]
  /\ UNCHANGED <<job, pc, resv, call, counterVars, release, failed>>

MachineFinishes(r) ==
  /\ machine[r] = "running"
  /\ machine' = [machine EXCEPT ![r] = "finished"]
  /\ UNCHANGED <<job, pc, resv, call, counterVars, release, failed>>

\* The handler resumes with a 2xx response...
Accepted(r) ==
  /\ At(r, "upstream") /\ machine[r] \in {"running", "finished"}
  /\ Goto(r, "accepted")
  /\ UNCHANGED <<job, resv, machine, call, counterVars, release, failed>>

GiveBack_Dropped(r) ==   \* slip: the pre_increment_id is lost on the way back
  /\ Goto(r, "rolledback")
  /\ UNCHANGED <<job, resv, call, counterVars, release>>

\* ... or has to give the reservation back (policy.rollback): nothing to do when
\* try_reserve returned no pre_increment_id.
GiveBack(r) ==
  /\ Goto(r, CASE resv[r] = "shots" -> "rbShots"
               [] resv[r] = "jobs"  -> "rbJobs"
               [] OTHER             -> "rolledback")
  /\ UNCHANGED <<job, resv, call, counterVars, release>>

Refused(r) ==
  /\ At(r, "upstream") /\ machine[r] = "refused"
  /\ GiveBack(r)
  /\ UNCHANGED <<machine, failed>>

\* httpx.RequestError before the submission reached the machine...
ConnectFails(r) ==
  /\ At(r, "upstream") /\ machine[r] = "sent"
  /\ machine' = [machine EXCEPT ![r] = "none"]
  /\ GiveBack(r)
  /\ UNCHANGED failed

\* ... and after: the reply was lost, or came later than UPSTREAM_TIMEOUT.
LostReply(r) ==
  /\ Fails("lost_reply", r)
  /\ At(r, "upstream") /\ machine[r] \in {"sent", "running", "finished"}
  /\ GiveBack(r)
  /\ UNCHANGED machine

-----------------------------------------------------------------------------
\* rollback: the commands in order, then a SET 0 for each count below zero.
RollbackShots(r) ==
  /\ At(r, "rbShots")
  /\ AddShots(User(r), -Charge(job[r]))
  /\ call' = [NoCall EXCEPT !.shots = shots[User(r)] - Charge(job[r])]
  /\ Goto(r, "rbJobs")
  /\ UNCHANGED <<job, resv, machine, jobs, release, failed>>

RollbackJob(r) ==
  /\ At(r, "rbJobs")
  /\ AddJobs(User(r), -1)
  /\ \/ /\ call.shots < 0
        /\ Goto(r, "rbClampShots")
        /\ call' = [call EXCEPT !.jobs = jobs[User(r)] - 1]
     \/ /\ call.shots >= 0
        /\ Goto(r, IF jobs[User(r)] - 1 < 0 THEN "rbClampJobs" ELSE "rolledback")
        /\ call' = NoCall
  /\ UNCHANGED <<job, resv, machine, shots, release, failed>>

RollbackClamp(r) ==
  \/ /\ At(r, "rbClampShots")
     /\ ZeroShots(User(r))
     /\ Goto(r, IF call.jobs < 0 THEN "rbClampJobs" ELSE "rolledback")
     /\ call' = NoCall
     /\ UNCHANGED <<job, resv, machine, jobs, release, failed>>
  \/ /\ At(r, "rbClampJobs")
     /\ ZeroJobs(User(r))
     /\ Goto(r, "rolledback")
     /\ UNCHANGED <<job, resv, machine, call, shots, release, failed>>

\* A Redis call of rollback raises: rollback returns False and nobody tries again.
RollbackError(r) ==
  /\ Fails("gateway_redis", r)
  /\ \E step \in RollbackSteps : At(r, step)
  /\ NextCommand(r) \/ UNCHANGED counterVars
  /\ Goto(r, "rolledback") /\ call' = NoCall
  /\ UNCHANGED <<job, resv, machine, release>>

-----------------------------------------------------------------------------
\* The accepted job gets its row in the jobs table (log_job), from which alone
\* the reporter knows of it; or does not: the upload before the INSERT raised,
\* or the INSERT failed, which log_job swallows.
LogJob(r) ==
  /\ At(r, "accepted")
  /\ Goto(r, "tracked")
  /\ UNCHANGED <<job, resv, machine, call, counterVars, release, failed>>

LogJobFails(r) ==
  /\ Fails("untracked", r)
  /\ At(r, "accepted")
  /\ Goto(r, "untracked")
  /\ UNCHANGED <<job, resv, machine, call, counterVars, release>>

\* The gateway dies and restarts: every handler is gone where it stood.
GatewayCrash ==
  /\ "gateway_crash" \in Faults /\ Cardinality(failed) < MaxFailures
  /\ \E r \in Requests : pc[r] \in InFlight
  /\ pc' = [r \in Requests |-> IF pc[r] \in InFlight THEN "gone" ELSE pc[r]]
  /\ call' = NoCall
  /\ failed' = failed \cup {<<"gateway_crash", r>> : r \in {q \in Requests : pc[q] \in InFlight}}
  /\ UNCHANGED <<job, resv, machine, counterVars, release>>

-----------------------------------------------------------------------------
\* The reporter, one job at a time.
ReporterFree == \A r \in Requests : release[r] \notin RepSteps
ReporterNext(r, step) == release' = [release EXCEPT ![r] = step]
GatewayStays == UNCHANGED <<job, pc, resv, machine, call>>
ReporterOnly == GatewayStays /\ UNCHANGED failed

ReporterMarks_Unguarded(r) ==   \* slip: the result of SADD is not looked at
  /\ ReporterFree
  /\ pc[r] = "tracked" /\ machine[r] = "finished"
  /\ ReporterNext(r, "decrJobs")
  /\ UNCHANGED counterVars /\ ReporterOnly

\* The reporter meets the row of a finished job, in this cycle or a later one,
\* and goes on with SADD only when it added the job.
ReporterMarks(r) ==
  /\ ReporterFree
  /\ pc[r] = "tracked" /\ machine[r] = "finished"
  /\ IF release[r] = "no" THEN ReporterNext(r, "decrJobs") ELSE UNCHANGED release
  /\ UNCHANGED counterVars /\ ReporterOnly

\* decrement_user_counters.
ReporterDecrJobs(r) ==
  /\ release[r] = "decrJobs"
  /\ AddJobs(User(r), -1)
  /\ ReporterNext(r, IF jobs[User(r)] - 1 < 0 THEN "clampJobs" ELSE "decrShots")
  /\ UNCHANGED shots /\ ReporterOnly

ReporterClampJobs(r) ==
  /\ release[r] = "clampJobs"
  /\ ZeroJobs(User(r))
  /\ ReporterNext(r, "decrShots")
  /\ UNCHANGED shots /\ ReporterOnly

ReporterDecrShots(r) ==
  /\ release[r] = "decrShots"
  /\ AddShots(User(r), -Discharge(job[r]))
  /\ ReporterNext(r, IF shots[User(r)] - Discharge(job[r]) < 0 THEN "clampShots" ELSE "done")
  /\ UNCHANGED jobs /\ ReporterOnly

ReporterClampShots(r) ==
  /\ release[r] = "clampShots"
  /\ ZeroShots(User(r))
  /\ ReporterNext(r, "done")
  /\ UNCHANGED jobs /\ ReporterOnly

\* A Redis call of the reporter raises, the command applied or not.  Only the
\* DECR of the jobs counter has a handler of its own: the shots follow.
ReporterError(r) ==
  /\ Fails("reporter_redis", r)
  /\ GatewayStays
  /\ \/ /\ ReporterFree /\ pc[r] = "tracked" /\ machine[r] = "finished"
        /\ release[r] = "no" /\ ReporterNext(r, "done")
        /\ UNCHANGED counterVars
     \/ /\ release[r] = "decrJobs" /\ ReporterNext(r, "decrShots")
        /\ AddJobs(User(r), -1) \/ UNCHANGED jobs
        /\ UNCHANGED shots
     \/ /\ release[r] = "clampJobs" /\ ReporterNext(r, "done")
        /\ ZeroJobs(User(r)) \/ UNCHANGED jobs
        /\ UNCHANGED shots
     \/ /\ release[r] = "decrShots" /\ ReporterNext(r, "done")
        /\ AddShots(User(r), -Discharge(job[r])) \/ UNCHANGED shots
        /\ UNCHANGED jobs
     \/ /\ release[r] = "clampShots" /\ ReporterNext(r, "done")
        /\ ZeroShots(User(r)) \/ UNCHANGED shots
        /\ UNCHANGED jobs

\* The reporter dies between two commands and restarts: what SADD marked stays
\* marked, so the commands that were left are never sent.
ReporterCrash(r) ==
  /\ Fails("reporter_crash", r)
  /\ release[r] \in RepSteps
  /\ ReporterNext(r, "done")
  /\ UNCHANGED counterVars /\ GatewayStays

\* COUNTER_TTL passes since the user's last reservation: Redis drops the key.
Expire(u) ==
  /\ Fails("ttl", u)
  /\ \/ shots[u] # 0 /\ ZeroShots(u) /\ UNCHANGED jobs
     \/ jobs[u] # 0 /\ ZeroJobs(u) /\ UNCHANGED shots
  /\ UNCHANGED <<job, pc, resv, machine, call, release>>

-----------------------------------------------------------------------------
TryReserve(r)    == \/ NoLicense(r) \/ ReserveShots(r) \/ CountJob(r) \/ UndoShots(r)
                    \/ UndoJob(r) \/ ReserveSweep(r)
Respond(r)       == Accepted(r) \/ Refused(r) \/ LogJob(r)
RollbackCalls(r) == RollbackShots(r) \/ RollbackJob(r) \/ RollbackClamp(r)
Release(r)       == \/ ReporterMarks(r) \/ ReporterDecrJobs(r) \/ ReporterClampJobs(r)
                    \/ ReporterDecrShots(r) \/ ReporterClampShots(r)

Reserve(r)  == TryReserve(r) \/ ReserveError(r)
Machine(r)  == MachineDecides(r) \/ MachineFinishes(r)
Outcome(r)  == Respond(r) \/ ConnectFails(r) \/ LostReply(r) \/ LogJobFails(r)
Rollback(r) == RollbackCalls(r) \/ RollbackError(r)
Reporter(r) == Release(r) \/ ReporterError(r) \/ ReporterCrash(r)

Next ==
  \/ \E r \in Requests : Reserve(r) \/ Machine(r) \/ Outcome(r) \/ Rollback(r) \/ Reporter(r)
  \/ GatewayCrash
  \/ \E u \in Users : Expire(u)
  \/ (\A r \in Requests : pc[r] \in Settled) /\ UNCHANGED vars   \* no request is left

Spec == Init /\ [][Next]_vars

\* The gateway goes on with what it began, the reporter keeps its cycles, the
\* machine answers and ends what it runs.  Clients owe no request, and no failure
\* has to happen.
Fairness ==
  \A r \in Requests :
    /\ WF_vars(pc[r] # "idle" /\ TryReserve(r)) /\ WF_vars(Machine(r))
    /\ WF_vars(Respond(r)) /\ WF_vars(RollbackCalls(r)) /\ WF_vars(Release(r))

FairSpec == Spec /\ Fairness

-----------------------------------------------------------------------------
\* What is charged.  A request holds shots, and a place among the jobs, from the
\* INCR until the command that takes it off again.
Pending(r) == \* the machine has it, may get it, or had it to the end
  pc[r] = "gone" /\ machine[r] \in {"sent", "running", "finished"}

HoldsShots(r) ==
  /\ ~IsSweep(job[r])
  /\ \/ pc[r] \in {"countJob", "undoShots", "upstream", "rbShots", "accepted", "untracked"}
     \/ pc[r] = "tracked" /\ release[r] \in {"no", "decrJobs", "clampJobs", "decrShots"}
     \/ Pending(r)

HoldsJob(r) ==
  \/ pc[r] \in {"undoShots", "undoJobs", "undoSweep", "upstream", "rbShots", "rbJobs",
                "accepted", "untracked"}
  \/ pc[r] = "tracked" /\ release[r] \in {"no", "decrJobs"}
  \/ Pending(r)

Active(r) == machine[r] \in {"sent", "running"}

\* The requests that met a failure, those that may leave shots behind, and the users
\* of whose jobs a failure may have hidden some from the counters.
Met(r)   == \E f \in Faults \ {"ttl"} : <<f, r>> \in failed
Leaks(r) == Met(r) \/ (pc[r] # "idle" /\ Discharge(job[r]) < Charge(job[r]))
Undercounted(u) ==
  \/ <<"ttl", u>> \in failed
  \/ \E r \in Requests, f \in {"gateway_redis", "lost_reply"} : User(r) = u /\ <<f, r>> \in failed

RequestsOf(u) == {r \in Requests : User(r) = u}
ShotHolders(u) == {r \in RequestsOf(u) : HoldsShots(r)}
JobHolders(u)  == {r \in RequestsOf(u) : HoldsJob(r)}

SendsNoSweep(u) == \A r \in RequestsOf(u) : ~IsSweep(job[r])

\* At every moment the shots of a user's jobs that the machine is running, or may
\* yet receive, stay within MAX_CONCURRENT_SHOTS, for a user whose jobs are all
\* circuits: whatever the reporter does between two commands of try_reserve, and
\* whatever crashes or fails between a charge and its release, unless the failure is
\* one that hides a job of that user from the counter.
ShotLimit ==
  \A u \in Users : SendsNoSweep(u) /\ ~Undercounted(u) =>
    Weight({r \in RequestsOf(u) : Active(r)}, job) <= MaxConcurrentShots

\* The same of the sweeps of every user and MAX_CONCURRENT_SWEEPS.
SweepLimit ==
  \A u \in Users : ~Undercounted(u) =>
    Cardinality({r \in RequestsOf(u) : Active(r) /\ IsSweep(job[r])}) <= MaxConcurrentSweeps

\* The promise of policy/shot_budget.py:3 and docs/MODULARIZATION.md:109, "the
\* budget caps concurrent active shots" while sweeps are exempt from it: the
\* shots of a user's active circuit jobs stay within the cap, sweeps or not.  The
\* code breaks it: a sweep that ends gives back shots it was never charged.
ActiveShotsCapped ==
  \A u \in Users : Weight({r \in RequestsOf(u) : Active(r)}, job) <= MaxConcurrentShots

\* The promise of tests/test_policy_passthrough.py:81, "a machine that says no must
\* not leave the user's counters charged for a job that never ran".  The code
\* breaks it when Redis applies an INCR of try_reserve and the call then raises:
\* the reservation is let through without its pre_increment_id.
NoChargeForRefusedJobs ==
  \A u \in Users :
    (\A r \in RequestsOf(u) : pc[r] = "rolledback" /\ machine[r] = "refused")
      => shots[u] <= 0 /\ jobs[u] <= 0

\* Without faults the counters are exact between any two commands: jobs:active is
\* the number of places held, and shots:active the shots held by the users whose
\* jobs give back what they were charged.
CountersExact ==
  \A u \in Users :
    /\ jobs[u] = Cardinality(JobHolders(u))
    /\ (\A r \in RequestsOf(u) : Charge(job[r]) = Discharge(job[r]))
         => shots[u] = Weight(ShotHolders(u), job)

\* Whatever fails, and in every order, a counter shows no more than what the user's
\* requests hold at that moment and what can be put down to a failure: a request leaves
\* something behind only when a call made for it failed, or when its release is smaller
\* than its charge.  No retry, rollback, clamp or crash inflates a counter otherwise.
OnlyFailuresLeak ==
  \A u \in Users :
    /\ jobs[u] <= Cardinality({r \in RequestsOf(u) : HoldsJob(r) \/ Met(r)})
    /\ shots[u] <= Weight({r \in RequestsOf(u) : HoldsShots(r) \/ Leaks(r)}, job)

\* Without faults all that was charged is given back: once no submission is made
\* any more, both counters of every user return to zero and stay there.
AllGivenBack == <>[](\A u \in Users : shots[u] = 0 /\ jobs[u] = 0)

-----------------------------------------------------------------------------
\* The claim of shots and the place of each request, as the ledger sees them.  A
\* request is decided when its INCR is applied, in one step with the decision,
\* though the handler compares later and takes a refused INCR off again.
OverLimit(r) ==
  /\ ~IsSweep(job[r])
  /\ \/ pc[r] = "countJob" /\ call.shots > call.limit
     \/ pc[r] \in {"undoShots", "undoJobs", "denied"}

ClaimOf(r) ==
  IF OverLimit(r) THEN "refused"
  ELSE IF HoldsShots(r) THEN "held"
  ELSE IF IsSweep(job[r]) \/ pc[r] = "idle" THEN "none" ELSE "returned"

PlaceOf(r) ==
  IF pc[r] \in {"undoShots", "undoJobs", "undoSweep", "denied"}
    THEN IF IsSweep(job[r]) THEN "refused" ELSE "none"
  ELSE IF HoldsJob(r) THEN "held"
  ELSE IF pc[r] \in {"idle", "countJob"} THEN "none" ELSE "returned"

\* The limits it is decided against; a principal without licenses has no room at all.
LedgerLimits == ShotLimits \cup (IF 0 \in Licenses THEN {-1} ELSE {})

Ledger == INSTANCE AdmissionLedger WITH
  Limits    <- LedgerLimits,
  MaxSweeps <- MaxConcurrentSweeps,
  claim     <- [r \in Requests |-> ClaimOf(r)],
  place     <- [r \in Requests |-> PlaceOf(r)]

\* Without faults try_reserve, rollback and the reporter's release, a sequence of
\* commands that interleave with each other, implement the ledger: for users whose
\* jobs give back what they were charged, every decision is the one an indivisible
\* check would have made, and every claim is returned at most once.
ImplementsLedger == Ledger!Spec
=============================================================================

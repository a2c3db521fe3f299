---------------------------- MODULE CounterProofs ----------------------------
(***************************************************************************)
(* What is proved of the values of the two counters: what they never show, *)
(* whatever fails, and what they show exactly when nothing does.           *)
(***************************************************************************)
EXTENDS ConcurrencyLimiterProofs

(***************************************************************************)
(* Whatever fails, what the counters show is held, or was left behind by a *)
(* request that met a failure or whose release is too small.               *)
(***************************************************************************)
CountsJob(r)   == HoldsJob(r) \/ Met(r)
CountsShots(r) == HoldsShots(r) \/ Leaks(r)
JobOwners(u)   == {r \in RequestsOf(u) : CountsJob(r)}
ShotOwners(u)  == {r \in RequestsOf(u) : CountsShots(r)}

\* Where a handler may stand with what it has, and where it has met a failure.
Handled ==
  \A r \in Requests :
    /\ pc[r] \in {"idle"} \cup ReserveSteps => ~Met(r)
    /\ pc[r] = "upstream" => Met(r) \/ resv[r] = IF IsSweep(job[r]) THEN "jobs" ELSE "shots"
    /\ pc[r] = "gone" => Met(r)
    /\ pc[r] \in {"countJob", "undoShots"} => ~IsSweep(job[r])
    /\ release[r] # "no" => pc[r] = "tracked"

\* A request's step, its own handler's, the machine's or the reporter's, leaves the other
\* requests and the other users' counters alone; a failure is noted for the request it met.
LEMMA OthersStay ==
  ASSUME TypeOK, NEW r \in Requests,
         Reserve(r) \/ Machine(r) \/ Outcome(r) \/ Rollback(r) \/ Reporter(r)
  PROVE  /\ \A q \in Requests \ {r} : /\ pc'[q] = pc[q] /\ machine'[q] = machine[q]
                                      /\ release'[q] = release[q] /\ resv'[q] = resv[q]
         /\ \A u \in Users \ {User(r)} : shots'[u] = shots[u] /\ jobs'[u] = jobs[u]
         /\ failed' = failed \/ \E f \in Faults \ {"ttl"} : failed' = failed \cup {<<f, r>>}
<1> USE DEF TypeOK, Goto, Deny, Forward, AddShots, AddJobs, ZeroShots, ZeroJobs, counterVars
<1>1. CASE Reserve(r)
  <2>1. CASE NoLicense(r) \/ ReserveShots(r) \/ UndoShots(r)
    BY <2>1 DEF NoLicense, ReserveShots, UndoShots
  <2>2. CASE CountJob(r) \/ UndoJob(r) \/ ReserveSweep(r)
    BY <2>2 DEF CountJob, UndoJob, ReserveSweep
  <2>3. CASE ReserveError(r)
    BY <2>3 DEF ReserveError, NextCommand, Fails
  <2>4. QED
    BY <1>1, <2>1, <2>2, <2>3 DEF Reserve, TryReserve
<1>2. CASE Machine(r) \/ Outcome(r)
  BY <1>2 DEF Machine, MachineDecides, MachineFinishes, Outcome, Respond, Accepted,
     Refused, ConnectFails, LostReply, GiveBack, LogJob, LogJobFails, Fails
<1>3. CASE Rollback(r)
  <2>1. CASE RollbackError(r)
    BY <2>1 DEF RollbackError, NextCommand, Fails
  <2>2. QED
    BY <1>3, <2>1 DEF Rollback, RollbackCalls, RollbackShots, RollbackJob, RollbackClamp
<1>4. CASE Reporter(r)
  BY <1>4 DEF Reporter, Release, ReporterMarks, ReporterDecrJobs, ReporterClampJobs,
     ReporterDecrShots, ReporterClampShots, ReporterError, ReporterCrash, ReporterNext,
     ReporterOnly, GatewayStays, Fails
<1>5. QED
  BY <1>1, <1>2, <1>3, <1>4

LEMMA MetStays ==
  ASSUME TypeOK, NEW r \in Requests,
         Reserve(r) \/ Machine(r) \/ Outcome(r) \/ Rollback(r) \/ Reporter(r)
  PROVE  /\ \A q \in Requests : Met(q) => Met(q)'
         /\ \A q \in Requests \ {r} : Met(q)' <=> Met(q)
         /\ UNCHANGED failed \/ Met(r)'
<1>1. failed' = failed \/ \E f \in Faults \ {"ttl"} : failed' = failed \cup {<<f, r>>}
  BY OthersStay
<1>2. QED
  BY <1>1 DEF Met

LEMMA FailedSteps ==
  ASSUME TypeOK, NEW r \in Requests,
         ReserveError(r) \/ LostReply(r) \/ RollbackError(r) \/ LogJobFails(r)
           \/ ReporterError(r) \/ ReporterCrash(r)
  PROVE  Met(r)'
BY DEF ReserveError, LostReply, RollbackError, LogJobFails, ReporterError, ReporterCrash, Fails, Met

\* What is not a failure leaves the history as it is.
LEMMA NoFailureSteps ==
  ASSUME TypeOK, NEW r \in Requests,
         \/ TryReserve(r) \/ Machine(r) \/ Respond(r) \/ ConnectFails(r) \/ RollbackCalls(r)
         \/ Release(r)
  PROVE  (Met(r)' <=> Met(r)) /\ UNCHANGED failed
<1>1. UNCHANGED failed
  BY DEF TryReserve, NoLicense, ReserveShots, CountJob, UndoShots, UndoJob, ReserveSweep,
     Machine, MachineDecides, MachineFinishes, Respond, Accepted, Refused, LogJob, ConnectFails,
     RollbackCalls, RollbackShots, RollbackJob, RollbackClamp, Release, ReporterMarks,
     ReporterDecrJobs, ReporterClampJobs, ReporterDecrShots, ReporterClampShots, ReporterOnly
<1>2. QED
  BY <1>1 DEF Met

LEMMA HandledStep == TypeOK /\ Handled /\ [Next]_vars => Handled'
<1> SUFFICES ASSUME TypeOK, Handled, [Next]_vars PROVE Handled'
  OBVIOUS
<1>0. job' = job /\ \A r \in Requests : IsSweep(job[r])' = IsSweep(job[r])
  BY JobKept
<1> USE DEF TypeOK, Goto, Deny, Forward, At
<1>1. ASSUME NEW r \in Requests,
             Reserve(r) \/ Machine(r) \/ Outcome(r) \/ Rollback(r) \/ Reporter(r),
             /\ pc'[r] \in {"idle"} \cup ReserveSteps => ~Met(r)'
             /\ pc'[r] = "upstream" =>
                  Met(r)' \/ resv'[r] = IF IsSweep(job[r]) THEN "jobs" ELSE "shots"
             /\ pc'[r] = "gone" => Met(r)'
             /\ pc'[r] \in {"countJob", "undoShots"} => ~IsSweep(job[r])
             /\ release'[r] # "no" => pc'[r] = "tracked"
      PROVE  Handled'
  BY <1>0, <1>1, OthersStay, MetStays DEF Handled
<1>2. ASSUME NEW r \in Requests, Reserve(r)
      PROVE  Handled'
  <2>1. CASE NoLicense(r) \/ ReserveShots(r) \/ UndoShots(r)
    <3>1. Met(r)' <=> Met(r)
      BY <2>1, NoFailureSteps DEF TryReserve
    <3>2. QED
      BY <1>1, <1>2, <2>1, <3>1 DEF Handled, NoLicense, ReserveShots, UndoShots, ReserveSteps
  <2>2. CASE CountJob(r) \/ UndoJob(r) \/ ReserveSweep(r)
    <3>1. Met(r)' <=> Met(r)
      BY <2>2, NoFailureSteps DEF TryReserve
    <3>2. QED
      BY <1>1, <1>2, <2>2, <3>1 DEF Handled, CountJob, UndoJob, ReserveSweep, ReserveSteps
  <2>3. CASE ReserveError(r)
    <3>1. Met(r)'
      BY <2>3, FailedSteps
    <3>2. QED
      BY <1>1, <1>2, <2>3, <3>1 DEF Handled, ReserveError, ReserveSteps
  <2>4. QED
    BY <1>2, <2>1, <2>2, <2>3 DEF Reserve, TryReserve
<1>3. ASSUME NEW r \in Requests, Machine(r) \/ Outcome(r)
      PROVE  Handled'
  <2>1. CASE Machine(r)
    <3>1. Met(r)' <=> Met(r)
      BY <2>1, NoFailureSteps
    <3>2. QED
      BY <1>1, <2>1, <3>1 DEF Handled, Machine, MachineDecides, MachineFinishes
  <2>2. CASE Outcome(r)
    BY <1>1, <2>2, MetStays DEF Handled, Outcome, Respond, Accepted, Refused, ConnectFails,
       LostReply, GiveBack, LogJob, LogJobFails, ReserveSteps
  <2>3. QED
    BY <1>3, <2>1, <2>2
<1>4. ASSUME NEW r \in Requests, Rollback(r)
      PROVE  Handled'
  BY <1>1, <1>4, MetStays DEF Handled, Rollback, RollbackCalls, RollbackShots, RollbackJob,
     RollbackClamp, RollbackError, ReserveSteps, RollbackSteps
<1>5. ASSUME NEW r \in Requests, Reporter(r)
      PROVE  Handled'
  <2>1. pc'[r] = pc[r] /\ resv'[r] = resv[r] /\ (release'[r] # "no" => pc[r] = "tracked")
    BY <1>5 DEF Handled, Reporter, Release, ReporterMarks, ReporterDecrJobs, ReporterClampJobs,
       ReporterDecrShots, ReporterClampShots, ReporterError, ReporterCrash, ReporterNext,
       ReporterOnly, GatewayStays, RepSteps
  <2>2. release'[r] = release[r] \/ pc[r] = "tracked"
    BY <2>1, <1>5 DEF Handled, Reporter, Release, ReporterMarks, ReporterDecrJobs,
       ReporterClampJobs, ReporterDecrShots, ReporterClampShots, ReporterError, ReporterCrash,
       ReporterNext, RepSteps
  <2>3. UNCHANGED failed \/ pc[r] = "tracked"
    BY <1>5 DEF Handled, Reporter, Release, ReporterMarks, ReporterDecrJobs, ReporterClampJobs,
       ReporterDecrShots, ReporterClampShots, ReporterError, ReporterCrash, ReporterOnly, RepSteps
  <2>4. (Met(r)' <=> Met(r)) \/ pc[r] = "tracked"
    BY <2>3 DEF Met
  <2>5. QED
    BY <1>1, <1>5, <2>1, <2>4 DEF Handled, ReserveSteps
<1>6. CASE GatewayCrash
  <2>1. ASSUME NEW r \in Requests
        PROVE  IF pc[r] \in InFlight THEN pc'[r] = "gone" /\ Met(r)'
                                     ELSE pc'[r] = pc[r] /\ (Met(r)' <=> Met(r))
    BY <1>6 DEF GatewayCrash, Met
  <2>2. UNCHANGED <<resv, release>>
    BY <1>6 DEF GatewayCrash
  <2>3. QED
    BY <1>0, <2>1, <2>2 DEF Handled, InFlight, SyncSteps, ReserveSteps, RollbackSteps
<1>7. ASSUME UNCHANGED vars \/ \E u \in Users : Expire(u)
      PROVE  Handled'
  <2>1. \A r \in Requests : Met(r)' <=> Met(r)
    <3>1. failed' = failed \/ \E u \in Users : failed' = failed \cup {<<"ttl", u>>}
      BY <1>7 DEF vars, Expire, Fails
    <3>2. \A f \in Faults \ {"ttl"}, r \in Requests : <<f, r>> \in failed' <=> <<f, r>> \in failed
      BY <3>1
    <3>3. QED
      BY <3>2 DEF Met
  <2>2. UNCHANGED <<pc, resv, release>>
    BY <1>7 DEF vars, Expire
  <2>3. QED
    BY <1>0, <2>1, <2>2 DEF Handled
<1>8. QED
  BY <1>2, <1>3, <1>4, <1>5, <1>6, <1>7 DEF Next

\* A handler that has begun does not begin again.
LEMMA HandlerGoesOn ==
  ASSUME TypeOK, NEW r \in Requests,
         Reserve(r) \/ Machine(r) \/ Outcome(r) \/ Rollback(r) \/ Reporter(r)
  PROVE  pc'[r] = "idle" => pc[r] = "idle"
<1> USE DEF TypeOK, Goto, Deny, Forward
<1>1. CASE Reserve(r)
  BY <1>1 DEF Reserve, TryReserve, NoLicense, ReserveShots, CountJob, UndoShots, UndoJob,
     ReserveSweep, ReserveError
<1>2. CASE Machine(r) \/ Outcome(r)
  BY <1>2 DEF Machine, MachineDecides, MachineFinishes, Outcome, Respond, Accepted, Refused,
     ConnectFails, LostReply, GiveBack, LogJob, LogJobFails
<1>3. CASE Rollback(r)
  BY <1>3 DEF Rollback, RollbackCalls, RollbackShots, RollbackJob, RollbackClamp, RollbackError
<1>4. CASE Reporter(r)
  BY <1>4 DEF Reporter, Release, ReporterMarks, ReporterDecrJobs, ReporterClampJobs,
     ReporterDecrShots, ReporterClampShots, ReporterError, ReporterCrash, ReporterOnly,
     GatewayStays
<1>5. QED
  BY <1>1, <1>2, <1>3, <1>4

\* What the step of a request does to its own place, and to the counter with it ...
LEMMA OwnJob ==
  ASSUME TypeOK, Handled, NEW r \in Requests,
         Reserve(r) \/ Machine(r) \/ Outcome(r) \/ Rollback(r) \/ Reporter(r)
  PROVE  \/ /\ jobs'[User(r)] <= jobs[User(r)] \/ jobs'[User(r)] <= 0
            /\ CountsJob(r) => CountsJob(r)'
         \/ jobs'[User(r)] = jobs[User(r)] + 1 /\ ~CountsJob(r) /\ CountsJob(r)'
         \/ jobs'[User(r)] = jobs[User(r)] - 1 /\ CountsJob(r)
<1> USE DEF TypeOK, Goto, Deny, Forward, At, AddJobs, ZeroJobs, counterVars, CountsJob, HoldsJob,
            Pending
<1>1. User(r) \in Users /\ jobs[User(r)] \in Int /\ (Met(r) => Met(r)')
  BY JobTyped, MetStays
<1>2. CASE Reserve(r)
  <2>1. CASE NoLicense(r) \/ ReserveShots(r)
    BY <1>1, <2>1 DEF NoLicense, ReserveShots, SyncSteps, ReserveSteps, RollbackSteps
  <2>2. CASE UndoShots(r)
    BY <1>1, <2>2 DEF UndoShots
  <2>3. CASE CountJob(r)
    BY <1>1, <2>3 DEF CountJob, Handled, ReserveSteps
  <2>4. CASE ReserveSweep(r)
    BY <1>1, <2>4 DEF ReserveSweep, Handled
  <2>5. CASE UndoJob(r)
    BY <1>1, <2>5 DEF UndoJob
  <2>6. CASE ReserveError(r)
    <3>1. Met(r)' /\ pc[r] \in {"idle"} \cup ReserveSteps /\ ~Met(r)
      BY <2>6, FailedSteps DEF ReserveError, Handled
    <3>2. CASE UNCHANGED counterVars
      BY <1>1, <3>1, <3>2
    <3>3. CASE NextCommand(r)
      <4>1. CASE pc[r] = "idle" /\ ~IsSweep(job[r])
        BY <1>1, <3>1, <3>3, <4>1 DEF NextCommand
      <4>2. CASE pc[r] = "countJob" \/ (pc[r] = "idle" /\ IsSweep(job[r]))
        <5>1. AddJobs(User(r), 1)
          BY <3>3, <4>2 DEF NextCommand
        <5>2. QED
          BY <1>1, <3>1, <4>2, <5>1
      <4>3. CASE pc[r] = "undoShots"
        BY <1>1, <3>1, <3>3, <4>3 DEF NextCommand
      <4>4. CASE pc[r] \in {"undoJobs", "undoSweep"}
        <5>1. AddJobs(User(r), -1)
          BY <3>3, <4>4 DEF NextCommand
        <5>2. QED
          BY <1>1, <3>1, <4>4, <5>1
      <4>5. QED
        BY <3>1, <4>1, <4>2, <4>3, <4>4 DEF ReserveSteps
    <3>4. QED
      BY <2>6, <3>2, <3>3 DEF ReserveError
  <2>7. QED
    BY <1>2, <2>1, <2>2, <2>3, <2>4, <2>5, <2>6 DEF Reserve, TryReserve
<1>3. CASE Machine(r)
  BY <1>1, <1>3 DEF Machine, MachineDecides, MachineFinishes, Handled
<1>4. CASE Outcome(r)
  <2>1. CASE Accepted(r)
    BY <1>1, <2>1 DEF Accepted
  <2>2. CASE LogJob(r)
    BY <1>1, <2>2 DEF LogJob, Handled
  <2>3. CASE Refused(r) \/ ConnectFails(r)
    BY <1>1, <2>3 DEF Refused, ConnectFails, GiveBack, Handled
  <2>4. CASE LostReply(r) \/ LogJobFails(r)
    <3>1. Met(r)' /\ UNCHANGED jobs
      BY <2>4, FailedSteps DEF LostReply, GiveBack, LogJobFails
    <3>2. QED
      BY <1>1, <3>1
  <2>5. QED
    BY <1>4, <2>1, <2>2, <2>3, <2>4 DEF Outcome, Respond
<1>5. CASE Rollback(r)
  <2>1. CASE RollbackShots(r)
    BY <1>1, <2>1 DEF RollbackShots
  <2>2. CASE RollbackJob(r)
    BY <1>1, <2>2 DEF RollbackJob
  <2>3. CASE RollbackClamp(r)
    BY <1>1, <2>3 DEF RollbackClamp
  <2>4. CASE RollbackError(r)
    <3>1. Met(r)' /\ pc[r] \in RollbackSteps
      BY <2>4, FailedSteps DEF RollbackError
    <3>2. jobs'[User(r)] <= jobs[User(r)] \/ jobs'[User(r)] <= 0
      BY <1>1, <2>4, <3>1 DEF RollbackError, NextCommand, RollbackSteps
    <3>3. QED
      BY <3>1, <3>2
  <2>5. QED
    BY <1>5, <2>1, <2>2, <2>3, <2>4 DEF Rollback, RollbackCalls
<1>6. CASE Reporter(r)
  <2> USE DEF ReporterNext, ReporterOnly, Handled, GatewayStays
  <2>1. CASE ReporterMarks(r)
    BY <1>1, <2>1 DEF ReporterMarks
  <2>2. CASE ReporterDecrJobs(r)
    BY <1>1, <2>2 DEF ReporterDecrJobs
  <2>3. CASE ReporterDecrShots(r) \/ ReporterClampShots(r)
    BY <1>1, <2>3 DEF ReporterDecrShots, ReporterClampShots
  <2>4. CASE ReporterClampJobs(r)
    BY <1>1, <2>4 DEF ReporterClampJobs
  <2>5. CASE ReporterError(r) \/ ReporterCrash(r)
    <3>1. Met(r)'
      BY <2>5, FailedSteps
    <3>2. jobs'[User(r)] <= jobs[User(r)] \/ jobs'[User(r)] <= 0
      BY <1>1, <2>5 DEF ReporterError, ReporterCrash
    <3>3. QED
      BY <3>1, <3>2
  <2>6. QED
    BY <1>6, <2>1, <2>2, <2>3, <2>4, <2>5 DEF Reporter, Release
<1>7. QED
  BY <1>2, <1>3, <1>4, <1>5, <1>6

\* ... and to its shots.
LEMMA OwnShots ==
  ASSUME TypeOK, Handled, NEW r \in Requests,
         Reserve(r) \/ Machine(r) \/ Outcome(r) \/ Rollback(r) \/ Reporter(r)
  PROVE  \/ /\ shots'[User(r)] <= shots[User(r)] \/ shots'[User(r)] <= 0
            /\ CountsShots(r) => CountsShots(r)'
         \/ /\ shots'[User(r)] = shots[User(r)] + Charge(job[r])
            /\ ~CountsShots(r) /\ CountsShots(r)'
         \/ shots'[User(r)] <= shots[User(r)] - Charge(job[r]) /\ CountsShots(r)
<1> USE DEF TypeOK, Goto, Deny, Forward, At, AddShots, ZeroShots, counterVars, HoldsShots, Pending
<1>1. /\ User(r) \in Users /\ shots[User(r)] \in Int
      /\ Charge(job[r]) \in Nat /\ Discharge(job[r]) \in Nat
  BY JobTyped
<1>2. /\ job' = job /\ (IsSweep(job[r])' <=> IsSweep(job[r])) /\ (Met(r) => Met(r)')
      /\ Discharge(job[r])' = Discharge(job[r]) /\ Charge(job[r])' = Charge(job[r])
  BY JobKept, MetStays DEF Next
<1>3. pc'[r] = "idle" => pc[r] = "idle"
  BY HandlerGoesOn
<1>4. /\ Leaks(r) => Leaks(r)'
      /\ Met(r)' => Leaks(r)'
      /\ CountsShots(r) <=> HoldsShots(r) \/ Leaks(r)
      /\ CountsShots(r)' <=> HoldsShots(r)' \/ Leaks(r)'
  BY <1>2, <1>3 DEF Leaks, CountsShots
<1>5. CASE Reserve(r)
  <2>1. CASE NoLicense(r)
    BY <1>1, <1>2, <1>4, <2>1 DEF NoLicense, SyncSteps, ReserveSteps, RollbackSteps
  <2>2. CASE ReserveShots(r)
    <3>1. ~Leaks(r)
      BY <2>2 DEF ReserveShots, Leaks, Handled
    <3>2. QED
      BY <1>1, <1>2, <1>4, <2>2, <3>1 DEF ReserveShots
  <2>3. CASE CountJob(r)
    BY <1>1, <1>2, <1>4, <2>3 DEF CountJob
  <2>4. CASE UndoShots(r)
    BY <1>1, <1>2, <1>4, <2>4 DEF UndoShots, Handled
  <2>5. CASE UndoJob(r)
    BY <1>1, <1>2, <1>4, <2>5 DEF UndoJob
  <2>6. CASE ReserveSweep(r)
    BY <1>1, <1>2, <1>4, <2>6 DEF ReserveSweep
  <2>7. CASE ReserveError(r)
    <3>1. Met(r)' /\ pc[r] \in {"idle"} \cup ReserveSteps /\ ~Met(r)
      BY <2>7, FailedSteps DEF ReserveError, Handled
    <3>2. CASE UNCHANGED counterVars
      BY <1>1, <1>4, <3>1, <3>2
    <3>3. CASE NextCommand(r)
      <4>1. CASE pc[r] = "idle" /\ ~IsSweep(job[r])
        <5>1. ~Leaks(r)
          BY <3>1, <4>1 DEF Leaks
        <5>2. shots'[User(r)] = shots[User(r)] + Charge(job[r])
          BY <1>1, <3>3, <4>1 DEF NextCommand, ReserveSteps, RollbackSteps, SyncSteps
        <5>3. QED
          BY <1>1, <1>2, <1>4, <3>1, <4>1, <5>1, <5>2
      <4>2. CASE pc[r] = "undoShots"
        BY <1>1, <1>4, <3>1, <3>3, <4>2 DEF NextCommand
      <4>3. CASE pc[r] = "countJob" \/ (pc[r] = "idle" /\ IsSweep(job[r]))
                 \/ pc[r] \in {"undoJobs", "undoSweep"}
        <5>1. UNCHANGED shots
          BY <3>3, <4>3 DEF NextCommand
        <5>2. QED
          BY <1>1, <1>4, <3>1, <5>1
      <4>4. QED
        BY <3>1, <4>1, <4>2, <4>3 DEF ReserveSteps
    <3>4. QED
      BY <2>7, <3>2, <3>3 DEF ReserveError
  <2>8. QED
    BY <1>5, <2>1, <2>2, <2>3, <2>4, <2>5, <2>6, <2>7 DEF Reserve, TryReserve
<1>6. CASE Machine(r)
  <2>1. pc[r] = "gone" => Leaks(r)
    BY DEF Handled, Leaks
  <2>2. QED
    BY <1>1, <1>2, <1>4, <1>6, <2>1 DEF Machine, MachineDecides, MachineFinishes
<1>7. CASE Outcome(r)
  <2>1. CASE Accepted(r)
    BY <1>1, <1>2, <1>4, <2>1 DEF Accepted
  <2>2. CASE LogJob(r)
    BY <1>1, <1>2, <1>4, <2>2 DEF LogJob, Handled
  <2>3. CASE Refused(r) \/ ConnectFails(r)
    <3>1. Met(r) => Leaks(r)
      BY DEF Leaks
    <3>2. QED
      BY <1>1, <1>2, <1>4, <2>3, <3>1 DEF Refused, ConnectFails, GiveBack, Handled
  <2>4. CASE LostReply(r) \/ LogJobFails(r)
    <3>1. Met(r)' /\ UNCHANGED shots
      BY <2>4, FailedSteps DEF LostReply, GiveBack, LogJobFails
    <3>2. QED
      BY <1>1, <1>4, <3>1
  <2>5. QED
    BY <1>7, <2>1, <2>2, <2>3, <2>4 DEF Outcome, Respond
<1>8. CASE Rollback(r)
  <2>1. CASE RollbackShots(r)
    <3>1. IsSweep(job[r]) => Charge(job[r]) = 0
      BY DEF Charge
    <3>2. QED
      BY <1>1, <1>2, <1>4, <2>1, <3>1 DEF RollbackShots
  <2>2. CASE RollbackJob(r)
    BY <1>1, <1>2, <1>4, <2>2 DEF RollbackJob
  <2>3. CASE RollbackClamp(r)
    BY <1>1, <1>2, <1>4, <2>3 DEF RollbackClamp
  <2>4. CASE RollbackError(r)
    <3>1. Met(r)' /\ pc[r] \in RollbackSteps
      BY <2>4, FailedSteps DEF RollbackError
    <3>2. shots'[User(r)] <= shots[User(r)] \/ shots'[User(r)] <= 0
      BY <1>1, <2>4, <3>1 DEF RollbackError, NextCommand, RollbackSteps
    <3>3. QED
      BY <1>4, <3>1, <3>2
  <2>5. QED
    BY <1>8, <2>1, <2>2, <2>3, <2>4 DEF Rollback, RollbackCalls
<1>9. CASE Reporter(r)
  <2> USE DEF ReporterNext, ReporterOnly, Handled, GatewayStays
  <2>1. CASE ReporterMarks(r)
    BY <1>1, <1>2, <1>4, <2>1 DEF ReporterMarks
  <2>2. CASE ReporterDecrJobs(r) \/ ReporterClampJobs(r)
    BY <1>1, <1>2, <1>4, <2>2 DEF ReporterDecrJobs, ReporterClampJobs
  <2>3. CASE ReporterDecrShots(r)
    <3>1. IsSweep(job[r]) => Charge(job[r]) = 0
      BY DEF Charge
    <3>2. Discharge(job[r]) < Charge(job[r]) => Leaks(r)
      BY <2>3 DEF ReporterDecrShots, Leaks
    <3>3. /\ pc[r] = "tracked" /\ release[r] = "decrShots"
          /\ shots'[User(r)] = shots[User(r)] - Discharge(job[r])
      BY <1>1, <2>3 DEF ReporterDecrShots
    <3>4. CASE Leaks(r)
      BY <1>1, <1>4, <3>3, <3>4
    <3>5. CASE ~IsSweep(job[r]) /\ ~Leaks(r)
      BY <1>1, <1>4, <3>2, <3>3, <3>5
    <3>6. CASE IsSweep(job[r])
      BY <1>1, <1>4, <3>1, <3>3, <3>6
    <3>7. QED
      BY <3>4, <3>5, <3>6
  <2>4. CASE ReporterClampShots(r)
    BY <1>1, <1>2, <1>4, <2>4 DEF ReporterClampShots
  <2>5. CASE ReporterError(r) \/ ReporterCrash(r)
    <3>1. Met(r)'
      BY <2>5, FailedSteps
    <3>2. shots'[User(r)] <= shots[User(r)] \/ shots'[User(r)] <= 0
      BY <1>1, <2>5 DEF ReporterError, ReporterCrash
    <3>3. QED
      BY <1>4, <3>1, <3>2
  <2>6. QED
    BY <1>9, <2>1, <2>2, <2>3, <2>4, <2>5 DEF Reporter, Release
<1>10. QED
  BY <1>5, <1>6, <1>7, <1>8, <1>9

\* A number that counts no more than a set has members, and moves with it, goes on so.
LEMMA CardinalityFalls ==
  ASSUME NEW S, IsFiniteSet(S), NEW T, IsFiniteSet(T), NEW n \in Int, NEW m \in Int,
         n <= Cardinality(S),
         \/ S \subseteq T /\ (m <= n \/ m <= 0)
         \/ \E x \in T \ S : S \subseteq T /\ m = n + 1
         \/ \E x \in S : S \ {x} \subseteq T /\ m = n - 1
  PROVE  m <= Cardinality(T)
<1>1. Cardinality(S) \in Nat /\ Cardinality(T) \in Nat
  BY FS_CardinalityType
<1>2. CASE S \subseteq T /\ (m <= n \/ m <= 0)
  <2>1. Cardinality(S) <= Cardinality(T)
    BY <1>2, FS_Subset
  <2>2. QED
    BY <1>1, <1>2, <2>1
<1>3. ASSUME NEW x \in T \ S, S \subseteq T, m = n + 1
      PROVE  m <= Cardinality(T)
  <2>1. Cardinality(S \cup {x}) = Cardinality(S) + 1
    BY <1>3, FS_AddElement
  <2>2. S \cup {x} \subseteq T
    BY <1>3
  <2>3. Cardinality(S \cup {x}) <= Cardinality(T)
    BY <2>2, FS_Subset
  <2>4. QED
    BY <1>1, <1>3, <2>1, <2>3
<1>4. ASSUME NEW x \in S, S \ {x} \subseteq T, m = n - 1
      PROVE  m <= Cardinality(T)
  <2>1. Cardinality(S \ {x}) = Cardinality(S) - 1
    BY FS_RemoveElement
  <2>2. Cardinality(S \ {x}) <= Cardinality(T)
    BY <1>4, FS_Subset
  <2>3. QED
    BY <1>1, <1>4, <2>1, <2>2
<1>5. QED
  BY <1>2, <1>3, <1>4

LEMMA WeightFalls ==
  ASSUME NEW S, IsFiniteSet(S), NEW T, IsFiniteSet(T), NEW j,
         \A r \in S \cup T : Charge(j[r]) \in Nat,
         NEW n \in Int, NEW m \in Int, n <= Weight(S, j),
         \/ S \subseteq T /\ (m <= n \/ m <= 0)
         \/ \E x \in T \ S : S \subseteq T /\ m = n + Charge(j[x])
         \/ \E x \in S : S \ {x} \subseteq T /\ m <= n - Charge(j[x])
  PROVE  m <= Weight(T, j)
<1>1. Weight(S, j) \in Nat /\ Weight(T, j) \in Nat
  BY TokensFinite
<1>2. CASE S \subseteq T /\ (m <= n \/ m <= 0)
  <2>1. Weight(S, j) <= Weight(T, j)
    BY <1>2, WeightMonotone
  <2>2. QED
    BY <1>1, <1>2, <2>1
<1>3. ASSUME NEW x \in T \ S, S \subseteq T, m = n + Charge(j[x])
      PROVE  m <= Weight(T, j)
  <2>1. Weight(S \cup {x}, j) = Weight(S, j) + Charge(j[x])
    BY <1>3, WeightAdd
  <2>2. S \cup {x} \in SUBSET T /\ \A r \in T : Charge(j[r]) \in Nat
    BY <1>3
  <2>3. Weight(S \cup {x}, j) <= Weight(T, j)
    BY <2>2, WeightMonotone
  <2>4. Charge(j[x]) \in Nat
    BY <1>3
  <2>5. QED
    BY <1>1, <1>3, <2>1, <2>3, <2>4
<1>4. ASSUME NEW x \in S, S \ {x} \subseteq T, m <= n - Charge(j[x])
      PROVE  m <= Weight(T, j)
  <2>1. Weight(S \ {x}, j) = Weight(S, j) - Charge(j[x])
    BY <1>4, WeightRemove
  <2>2. S \ {x} \in SUBSET T /\ \A r \in T : Charge(j[r]) \in Nat
    BY <1>4
  <2>3. Weight(S \ {x}, j) <= Weight(T, j)
    BY <2>2, WeightMonotone
  <2>4. Charge(j[x]) \in Nat
    BY <1>4
  <2>5. QED
    BY <1>1, <1>4, <2>1, <2>3, <2>4
<1>5. QED
  BY <1>2, <1>3, <1>4

LEMMA OwnersFinite ==
  ASSUME NEW u
  PROVE  /\ JobOwners(u) \subseteq RequestsOf(u) /\ IsFiniteSet(JobOwners(u))
         /\ ShotOwners(u) \subseteq RequestsOf(u) /\ IsFiniteSet(ShotOwners(u))
<1>1. JobOwners(u) \subseteq RequestsOf(u) /\ ShotOwners(u) \subseteq RequestsOf(u)
  BY DEF JobOwners, ShotOwners
<1>2. QED
  BY <1>1, HoldersFinite, FS_Subset

\* Whose claims a step of some request, or one of nobody's, takes from a user's, and adds.
LEMMA OwnersMove ==
  ASSUME TypeOK, Handled, [Next]_vars, NEW u \in Users
  PROVE  /\ \/ /\ JobOwners(u) \subseteq JobOwners(u)'
               /\ jobs'[u] <= jobs[u] \/ jobs'[u] <= 0
            \/ \E x \in JobOwners(u)' \ JobOwners(u) :
                 JobOwners(u) \subseteq JobOwners(u)' /\ jobs'[u] = jobs[u] + 1
            \/ \E x \in JobOwners(u) :
                 JobOwners(u) \ {x} \subseteq JobOwners(u)' /\ jobs'[u] = jobs[u] - 1
         /\ \/ /\ ShotOwners(u) \subseteq ShotOwners(u)'
               /\ shots'[u] <= shots[u] \/ shots'[u] <= 0
            \/ \E x \in ShotOwners(u)' \ ShotOwners(u) :
                 ShotOwners(u) \subseteq ShotOwners(u)' /\ shots'[u] = shots[u] + Charge(job[x])
            \/ \E x \in ShotOwners(u) :
                 /\ ShotOwners(u) \ {x} \subseteq ShotOwners(u)'
                 /\ shots'[u] <= shots[u] - Charge(job[x])
<1> DEFINE Moves ==
         /\ \/ /\ JobOwners(u) \subseteq JobOwners(u)'
               /\ jobs'[u] <= jobs[u] \/ jobs'[u] <= 0
            \/ \E x \in JobOwners(u)' \ JobOwners(u) :
                 JobOwners(u) \subseteq JobOwners(u)' /\ jobs'[u] = jobs[u] + 1
            \/ \E x \in JobOwners(u) :
                 JobOwners(u) \ {x} \subseteq JobOwners(u)' /\ jobs'[u] = jobs[u] - 1
         /\ \/ /\ ShotOwners(u) \subseteq ShotOwners(u)'
               /\ shots'[u] <= shots[u] \/ shots'[u] <= 0
            \/ \E x \in ShotOwners(u)' \ ShotOwners(u) :
                 ShotOwners(u) \subseteq ShotOwners(u)' /\ shots'[u] = shots[u] + Charge(job[x])
            \/ \E x \in ShotOwners(u) :
                 /\ ShotOwners(u) \ {x} \subseteq ShotOwners(u)'
                 /\ shots'[u] <= shots[u] - Charge(job[x])
<1>1. TypeOK' /\ job' = job /\ RequestsOf(u)' = RequestsOf(u)
  BY TypeStep, JobKept DEF RequestsOf, User
<1>2. /\ shots[u] \in Int /\ shots'[u] \in Int /\ jobs[u] \in Int /\ jobs'[u] \in Int
  BY <1>1 DEF TypeOK
<1>3. ASSUME NEW r \in Requests,
             Reserve(r) \/ Machine(r) \/ Outcome(r) \/ Rollback(r) \/ Reporter(r)
      PROVE  Moves
  <2>1. \A q \in Requests \ {r} : /\ CountsJob(q) => CountsJob(q)'
                                  /\ CountsShots(q) => CountsShots(q)'
    <3>1. ASSUME NEW q \in Requests \ {r}
          PROVE  /\ HoldsJob(q)' <=> HoldsJob(q)
                 /\ HoldsShots(q)' <=> HoldsShots(q)
                 /\ Leaks(q)' <=> Leaks(q)
                 /\ Met(q)' <=> Met(q)
      <4>1. /\ pc'[q] = pc[q] /\ machine'[q] = machine[q] /\ release'[q] = release[q]
            /\ Met(q)' <=> Met(q)
            /\ IsSweep(job[q])' <=> IsSweep(job[q])
            /\ Discharge(job[q])' = Discharge(job[q]) /\ Charge(job[q])' = Charge(job[q])
        BY <1>1, <1>3, OthersStay, MetStays
      <4>2. QED
        BY <4>1 DEF HoldsJob, HoldsShots, Pending, Leaks
    <3>2. QED
      BY <3>1 DEF CountsJob, CountsShots
  <2>2. CASE User(r) # u
    <3>1. JobOwners(u) \subseteq JobOwners(u)' /\ ShotOwners(u) \subseteq ShotOwners(u)'
      BY <1>1, <2>1, <2>2 DEF JobOwners, ShotOwners, RequestsOf
    <3>2. shots'[u] = shots[u] /\ jobs'[u] = jobs[u]
      BY <1>3, <2>2, OthersStay
    <3>3. QED
      BY <1>2, <3>1, <3>2
  <2>3. CASE User(r) = u
    <3>1. /\ \A q \in JobOwners(u) \ {r} : q \in JobOwners(u)'
          /\ \A q \in ShotOwners(u) \ {r} : q \in ShotOwners(u)'
      BY <1>1, <2>1 DEF JobOwners, ShotOwners, RequestsOf
    <3>2. /\ CountsJob(r) <=> r \in JobOwners(u)
          /\ CountsJob(r)' <=> r \in JobOwners(u)'
          /\ CountsShots(r) <=> r \in ShotOwners(u)
          /\ CountsShots(r)' <=> r \in ShotOwners(u)'
      BY <1>1, <2>3 DEF JobOwners, ShotOwners, RequestsOf
    <3>3. \/ /\ jobs'[u] <= jobs[u] \/ jobs'[u] <= 0
             /\ CountsJob(r) => CountsJob(r)'
          \/ jobs'[u] = jobs[u] + 1 /\ ~CountsJob(r) /\ CountsJob(r)'
          \/ jobs'[u] = jobs[u] - 1 /\ CountsJob(r)
      BY <1>3, <2>3, OwnJob
    <3>4. \/ /\ shots'[u] <= shots[u] \/ shots'[u] <= 0
             /\ CountsShots(r) => CountsShots(r)'
          \/ shots'[u] = shots[u] + Charge(job[r]) /\ ~CountsShots(r) /\ CountsShots(r)'
          \/ shots'[u] <= shots[u] - Charge(job[r]) /\ CountsShots(r)
      BY <1>3, <2>3, OwnShots
    <3>5. \/ /\ JobOwners(u) \subseteq JobOwners(u)'
             /\ jobs'[u] <= jobs[u] \/ jobs'[u] <= 0
          \/ \E x \in JobOwners(u)' \ JobOwners(u) :
               JobOwners(u) \subseteq JobOwners(u)' /\ jobs'[u] = jobs[u] + 1
          \/ \E x \in JobOwners(u) :
               JobOwners(u) \ {x} \subseteq JobOwners(u)' /\ jobs'[u] = jobs[u] - 1
      BY <3>1, <3>2, <3>3
    <3>6. QED
      BY <3>1, <3>2, <3>4, <3>5
  <2>4. QED
    BY <2>2, <2>3
<1>4. CASE GatewayCrash
  <2>1. \A r \in Requests : IF pc[r] \in InFlight
                              THEN Met(r)'
                              ELSE pc'[r] = pc[r] /\ (Met(r) => Met(r)')
    BY <1>4 DEF GatewayCrash, Met, TypeOK
  <2>2. UNCHANGED <<job, machine, release, shots, jobs>>
    BY <1>4 DEF GatewayCrash, counterVars
  <2>3. ASSUME NEW r \in Requests
        PROVE  /\ CountsJob(r) => CountsJob(r)'
               /\ CountsShots(r) => CountsShots(r)'
    <3>1. CASE pc[r] \in InFlight
      BY <2>1, <3>1 DEF CountsJob, CountsShots, Leaks
    <3>2. CASE pc[r] \notin InFlight
      <4>1. /\ pc'[r] = pc[r] /\ (Met(r) => Met(r)') /\ (IsSweep(job[r])' <=> IsSweep(job[r]))
            /\ Discharge(job[r])' = Discharge(job[r]) /\ Charge(job[r])' = Charge(job[r])
        BY <2>1, <2>2, <3>2
      <4>2. QED
        BY <2>2, <4>1 DEF CountsJob, CountsShots, Leaks, HoldsJob, HoldsShots, Pending
    <3>3. QED
      BY <3>1, <3>2
  <2>4. JobOwners(u) \subseteq JobOwners(u)' /\ ShotOwners(u) \subseteq ShotOwners(u)'
    BY <1>1, <2>3 DEF JobOwners, ShotOwners, RequestsOf
  <2>5. QED
    BY <1>2, <2>2, <2>4
<1>5. ASSUME UNCHANGED vars \/ \E v \in Users : Expire(v)
      PROVE  Moves
  <2>1. UNCHANGED <<job, pc, machine, release>> /\ \A r : Met(r) => Met(r)'
    BY <1>5 DEF vars, Expire, Fails, Met
  <2>2. ASSUME NEW r \in Requests
        PROVE  /\ CountsJob(r) => CountsJob(r)'
               /\ CountsShots(r) => CountsShots(r)'
    BY <2>1 DEF CountsJob, CountsShots, Leaks, HoldsJob, HoldsShots, Pending, IsSweep
  <2>3. JobOwners(u) \subseteq JobOwners(u)' /\ ShotOwners(u) \subseteq ShotOwners(u)'
    BY <1>1, <2>2 DEF JobOwners, ShotOwners, RequestsOf
  <2>4. /\ jobs'[u] <= jobs[u] \/ jobs'[u] <= 0
        /\ shots'[u] <= shots[u] \/ shots'[u] <= 0
    BY <1>2, <1>5 DEF vars, Expire, ZeroShots, ZeroJobs, TypeOK
  <2>5. QED
    BY <2>3, <2>4
<1>6. QED
  BY <1>3, <1>4, <1>5 DEF Next

LEMMA OnlyFailuresLeakStep ==
  TypeOK /\ Handled /\ OnlyFailuresLeak /\ [Next]_vars => OnlyFailuresLeak'
<1> SUFFICES ASSUME TypeOK, Handled, OnlyFailuresLeak, [Next]_vars, NEW u \in Users
             PROVE  /\ jobs'[u] <= Cardinality(JobOwners(u)')
                    /\ shots'[u] <= Weight(ShotOwners(u)', job')
  BY DEF OnlyFailuresLeak, JobOwners, ShotOwners, CountsJob, CountsShots
<1>1. TypeOK' /\ job' = job /\ RequestsOf(u)' = RequestsOf(u)
  BY TypeStep, JobKept DEF RequestsOf, User
<1>2. /\ shots[u] \in Int /\ shots'[u] \in Int /\ jobs[u] \in Int /\ jobs'[u] \in Int
      /\ \A r \in RequestsOf(u) : r \in Requests /\ Charge(job[r]) \in Nat
  BY <1>1, JobTyped DEF TypeOK, RequestsOf
<1>3. /\ IsFiniteSet(JobOwners(u)) /\ IsFiniteSet(ShotOwners(u))
      /\ ShotOwners(u) \subseteq RequestsOf(u)
  BY OwnersFinite
<1>4. /\ IsFiniteSet(JobOwners(u)') /\ IsFiniteSet(ShotOwners(u)')
      /\ ShotOwners(u)' \subseteq RequestsOf(u)
  <2>1. JobOwners(u)' \subseteq RequestsOf(u) /\ ShotOwners(u)' \subseteq RequestsOf(u)
    BY <1>1 DEF JobOwners, ShotOwners
  <2>2. QED
    BY <2>1, HoldersFinite, FS_Subset
<1>5. /\ jobs[u] <= Cardinality(JobOwners(u))
      /\ shots[u] <= Weight(ShotOwners(u), job)
  BY DEF OnlyFailuresLeak, JobOwners, ShotOwners, CountsJob, CountsShots
<1>6. jobs'[u] <= Cardinality(JobOwners(u)')
  BY <1>2, <1>3, <1>4, <1>5, OwnersMove, CardinalityFalls
<1>7. shots'[u] <= Weight(ShotOwners(u)', job)
  <2>1. \A r \in ShotOwners(u) \cup ShotOwners(u)' : Charge(job[r]) \in Nat
    BY <1>2, <1>3, <1>4
  <2>2. QED
    BY <1>2, <1>3, <1>4, <1>5, <2>1, OwnersMove, WeightFalls
<1>8. QED
  BY <1>1, <1>6, <1>7

LEMMA HandledInit == Init => TypeOK /\ Handled /\ OnlyFailuresLeak
<1> SUFFICES ASSUME Init PROVE TypeOK /\ Handled /\ OnlyFailuresLeak
  OBVIOUS
<1>1. TypeOK
  BY DEF Init, TypeOK, NoCall
<1>2. \A r : ~Met(r)
  BY DEF Init, Met
<1>3. Handled
  BY <1>2 DEF Init, Handled, ReserveSteps
<1>4. ASSUME NEW u \in Users
      PROVE  /\ jobs[u] <= Cardinality(JobOwners(u))
             /\ shots[u] <= Weight(ShotOwners(u), job)
  <2>1. Weight(ShotOwners(u), job) \in Nat
    <3>1. \A r \in ShotOwners(u) : Charge(job[r]) \in Nat
      BY <1>1, JobTyped DEF TypeOK, ShotOwners, RequestsOf
    <3>2. QED
      BY <3>1, OwnersFinite, TokensFinite
  <2>2. Cardinality(JobOwners(u)) \in Nat
    BY OwnersFinite, FS_CardinalityType
  <2>3. QED
    BY <2>1, <2>2 DEF Init
<1>5. QED
  BY <1>1, <1>3, <1>4 DEF OnlyFailuresLeak, JobOwners, ShotOwners, CountsJob, CountsShots

\* Under every fault and in every order, a counter shows no more than what the user's
\* requests hold and what was left by those that met a failure, or whose release is
\* smaller than their charge: try_reserve, rollback and decrement_user_counters leak
\* nothing else.
THEOREM NothingElseLeaks == Spec => []OnlyFailuresLeak
<1>1. Init => TypeOK /\ Handled /\ OnlyFailuresLeak
  BY HandledInit
<1>2. TypeOK /\ Handled /\ OnlyFailuresLeak /\ [Next]_vars
      => (TypeOK /\ Handled /\ OnlyFailuresLeak)'
  BY TypeStep, HandledStep, OnlyFailuresLeakStep
<1>3. QED
  BY <1>1, <1>2, PTL DEF Spec

-----------------------------------------------------------------------------
(***************************************************************************)
(* Without faults the counters are exact.  That they cover what is held is *)
(* known from JobsCovered and ShotsCovered, and that they do not exceed it *)
(* from the theorem above: nothing failed, so nothing was left behind.     *)
(***************************************************************************)
NoFaults == Faults = {}

\* No handler is lost.
NoneGone == \A r \in Requests : pc[r] # "gone"

\* A user whose jobs give back what they were charged.
Balanced(u) == \A r \in RequestsOf(u) : Charge(job[r]) = Discharge(job[r])

LEMMA BalancedSendsNoSweep ==
  ASSUME TypeOK, NEW u, Balanced(u)
  PROVE  SendsNoSweep(u)
<1> SUFFICES ASSUME NEW r \in RequestsOf(u) PROVE ~IsSweep(job[r])
  BY DEF SendsNoSweep
<1>1. job[r] \in SubmissionsOf(Users)
  BY SubmissionsTyped DEF TypeOK, RequestsOf
<1>2. IsSweep(job[r]) => Charge(job[r]) < Discharge(job[r])
  BY <1>1, ChargeFacts
<1>3. Charge(job[r]) \in Nat /\ Charge(job[r]) = Discharge(job[r])
  BY <1>1, ChargeFacts DEF Balanced
<1>4. QED
  BY <1>2, <1>3

\* What is counted is held.
NotExceeded ==
  \A u \in Users :
    /\ jobs[u] <= Cardinality(JobHolders(u))
    /\ Balanced(u) => shots[u] <= Weight(ShotHolders(u), job)

LEMMA NoneGoneStep == NoFaults /\ TypeOK /\ NoneGone /\ [Next]_vars => NoneGone'
<1> SUFFICES ASSUME NoFaults, TypeOK, NoneGone, [Next]_vars PROVE NoneGone'
  OBVIOUS
<1> USE DEF NoneGone, TypeOK, Goto, Deny, Forward
<1>1. ASSUME NEW r \in Requests, Reserve(r)
      PROVE  NoneGone'
  BY <1>1 DEF NoFaults, Reserve, TryReserve, NoLicense, ReserveShots, CountJob, UndoShots,
     UndoJob, ReserveSweep, ReserveError, Fails
<1>2. ASSUME NEW r \in Requests, Machine(r) \/ Outcome(r)
      PROVE  NoneGone'
  BY <1>2 DEF NoFaults, Machine, MachineDecides, MachineFinishes, Outcome, Respond, Accepted,
     Refused, ConnectFails, LostReply, GiveBack, LogJob, LogJobFails, Fails
<1>3. ASSUME NEW r \in Requests, Rollback(r)
      PROVE  NoneGone'
  BY <1>3 DEF NoFaults, Rollback, RollbackCalls, RollbackShots, RollbackJob, RollbackClamp,
     RollbackError, Fails
<1>4. ASSUME NEW r \in Requests, Reporter(r)
      PROVE  pc' = pc
  BY <1>4 DEF Reporter, Release, ReporterMarks, ReporterDecrJobs, ReporterClampJobs,
     ReporterDecrShots, ReporterClampShots, ReporterError, ReporterCrash, ReporterOnly,
     GatewayStays, Fails
<1>5. CASE GatewayCrash \/ UNCHANGED vars \/ \E u \in Users : Expire(u)
  BY <1>5 DEF GatewayCrash, vars, Expire, NoFaults, Fails
<1>6. QED
  BY <1>1, <1>2, <1>3, <1>4, <1>5 DEF Next

\* Where nothing fails nothing is left behind.
LEMMA NothingLeft == NoFaults /\ TypeOK /\ OnlyFailuresLeak => NotExceeded
<1> SUFFICES ASSUME NoFaults, TypeOK, OnlyFailuresLeak, NEW u \in Users
             PROVE  /\ jobs[u] <= Cardinality(JobHolders(u))
                    /\ Balanced(u) => shots[u] <= Weight(ShotHolders(u), job)
  BY DEF NotExceeded
<1>1. \A r : ~Met(r)
  BY DEF NoFaults, Met
<1>2. {r \in RequestsOf(u) : HoldsJob(r) \/ Met(r)} = JobHolders(u)
  BY <1>1 DEF JobHolders
<1>3. ASSUME Balanced(u)
      PROVE  {r \in RequestsOf(u) : HoldsShots(r) \/ Leaks(r)} = ShotHolders(u)
  <2>1. \A r \in RequestsOf(u) : Charge(job[r]) \in Nat /\ Charge(job[r]) = Discharge(job[r])
    BY <1>3, JobTyped DEF TypeOK, RequestsOf, Balanced
  <2>2. \A r \in RequestsOf(u) : ~Leaks(r)
    BY <1>1, <2>1 DEF Leaks
  <2>3. QED
    BY <2>2 DEF ShotHolders
<1>4. QED
  BY <1>2, <1>3 DEF OnlyFailuresLeak

\* Without faults jobs:active:{user} is the number of places held, and shots:active:{user}
\* the shots held by a user whose jobs give back what they were charged: between any two
\* commands of the two processes, for any number of submissions at once.
THEOREM CountersAreExact == Faults = {} => (Spec => []CountersExact)
<1> SUFFICES ASSUME NoFaults
             PROVE  Spec => []CountersExact
  BY DEF NoFaults
<1>0. OnlyLeaks
  BY DEF OnlyLeaks, NoFaults
<1> DEFINE IInv == /\ TypeOK /\ Shape /\ JobsCovered /\ ShotsCovered
                   /\ Handled /\ OnlyFailuresLeak
<1>1. Init => IInv
  <2> SUFFICES ASSUME Init
               PROVE  IInv
    OBVIOUS
  <2>1. TypeOK /\ Shape /\ Handled /\ OnlyFailuresLeak
    BY HandledInit DEF Init, Shape, NoCall, SyncSteps, ReserveSteps, RollbackSteps
  <2>2. \A u : JobHolders(u) = {} /\ ShotHolders(u) = {}
    BY DEF Init, JobHolders, ShotHolders, RequestsOf, HoldsJob, HoldsShots, Pending
  <2>3. Weight({}, job) = 0 /\ Cardinality({}) = 0
    <3>1. Tokens({}, job) = {}
      BY DEF Tokens
    <3>2. QED
      BY <3>1, FS_EmptySet, Zenon DEF Weight
  <2>4. \A u : Weight(ShotHolders(u), job) = 0 /\ Cardinality(JobHolders(u)) = 0
    BY <2>2, <2>3, Zenon
  <2>5. JobsCovered /\ ShotsCovered
    BY <2>4, LimitsAreNaturals DEF Init, NoCall, JobsCovered, ShotsCovered, RequestsOf
  <2>6. QED
    BY <2>1, <2>5
<1>2. IInv /\ [Next]_vars => IInv'
  BY <1>0, TypeStep, ShapeStep, JobsCoveredStep, ShotsCoveredStep, HandledStep,
     OnlyFailuresLeakStep
<1>3. IInv => CountersExact
  <2> SUFFICES ASSUME IInv, NEW u \in Users
               PROVE  /\ jobs[u] = Cardinality(JobHolders(u))
                      /\ Balanced(u) => shots[u] = Weight(ShotHolders(u), job)
    BY DEF CountersExact, Balanced
  <2>0. NotExceeded
    BY NothingLeft
  <2>1. /\ jobs[u] <= Cardinality(JobHolders(u)) /\ Cardinality(JobHolders(u)) <= jobs[u]
        /\ jobs[u] \in Int /\ shots[u] \in Int /\ Cardinality(JobHolders(u)) \in Nat
    BY <2>0, HoldersFinite DEF NotExceeded, JobsCovered, TypeOK
  <2>2. ASSUME Balanced(u)
        PROVE  shots[u] = Weight(ShotHolders(u), job)
    <3>1. SendsNoSweep(u)
      BY <2>2, BalancedSendsNoSweep
    <3>2. Weight(ShotHolders(u), job) <= shots[u] /\ shots[u] <= Weight(ShotHolders(u), job)
      BY <2>0, <2>2, <3>1 DEF ShotsCovered, NotExceeded
    <3>3. Weight(ShotHolders(u), job) \in Nat
      <4>1. \A r \in ShotHolders(u) : Charge(job[r]) \in Nat
        BY JobTyped DEF TypeOK, ShotHolders, RequestsOf
      <4>2. QED
        BY <4>1, HoldersFinite, TokensFinite
    <3>4. QED
      BY <2>1, <3>2, <3>3
  <2>3. QED
    BY <2>1, <2>2
<1>4. QED
  BY <1>1, <1>2, <1>3, PTL DEF Spec

-----------------------------------------------------------------------------
(***************************************************************************)
(* The refinement.  Every step of the two processes is a step of the       *)
(* ledger for one request, or none: what the handler compares with its     *)
(* limit is what the ledger counts, because the counters are exact at the  *)
(* moment of its INCR.                                                     *)
(***************************************************************************)

\* A user who sends circuit jobs only sends jobs that give back what they were charged.
CircuitUsersBalanced ==
  \A s, t \in Submissions : s.user = t.user /\ ~IsSweep(s) => Charge(t) = Discharge(t)

\* Only the denial of a sweep is undone by the job alone.
SweepsUndone == \A r \in Requests : pc[r] = "undoSweep" => IsSweep(job[r])

\* What the ledger counts for r when it is decided.
ClaimedWith(r) == {q \in Requests : User(q) = User(r) /\ ClaimOf(q) = "held"}
PlacedWith(r)  == {q \in Requests : User(q) = User(r) /\ PlaceOf(q) = "held"}

LEMMA SweepsUndoneStep == NoFaults /\ TypeOK /\ SweepsUndone /\ [Next]_vars => SweepsUndone'
<1> SUFFICES ASSUME NoFaults, TypeOK, SweepsUndone, [Next]_vars PROVE SweepsUndone'
  OBVIOUS
<1> USE DEF SweepsUndone, TypeOK, Goto, Deny, Forward
<1>0. job' = job /\ \A r \in Requests : IsSweep(job[r])' = IsSweep(job[r])
  BY JobKept
<1>1. ASSUME NEW r \in Requests, Reserve(r)
      PROVE  SweepsUndone'
  BY <1>0, <1>1 DEF NoFaults, Reserve, TryReserve, NoLicense, ReserveShots, CountJob, UndoShots,
     UndoJob, ReserveSweep, ReserveError, Fails
<1>2. ASSUME NEW r \in Requests, Machine(r) \/ Outcome(r)
      PROVE  SweepsUndone'
  BY <1>0, <1>2 DEF NoFaults, Machine, MachineDecides, MachineFinishes, Outcome, Respond,
     Accepted, Refused, ConnectFails, LostReply, GiveBack, LogJob, LogJobFails, Fails
<1>3. ASSUME NEW r \in Requests, Rollback(r)
      PROVE  SweepsUndone'
  BY <1>0, <1>3 DEF NoFaults, Rollback, RollbackCalls, RollbackShots, RollbackJob,
     RollbackClamp, RollbackError, Fails
<1>4. ASSUME NEW r \in Requests, Reporter(r)
      PROVE  pc' = pc
  BY <1>4 DEF Reporter, Release, ReporterMarks, ReporterDecrJobs, ReporterClampJobs,
     ReporterDecrShots, ReporterClampShots, ReporterError, ReporterCrash, ReporterOnly,
     GatewayStays, Fails
<1>5. CASE GatewayCrash \/ UNCHANGED vars \/ \E u \in Users : Expire(u)
  BY <1>0, <1>5 DEF GatewayCrash, vars, Expire, NoFaults, Fails
<1>6. QED
  BY <1>0, <1>1, <1>2, <1>3, <1>4, <1>5 DEF Next

\* The claims of the other requests stay: a handler between its INCR and its comparison
\* keeps the event loop, and with it the counts it has read.
LEMMA OthersClaimsStay ==
  ASSUME NoFaults, TypeOK, Shape, NEW r \in Requests, NEW q \in Requests, q # r,
         Reserve(r) \/ Machine(r) \/ Outcome(r) \/ Rollback(r) \/ Reporter(r)
  PROVE  ClaimOf(q)' = ClaimOf(q) /\ PlaceOf(q)' = PlaceOf(q)
<1>1. job' = job /\ pc'[q] = pc[q] /\ machine'[q] = machine[q] /\ release'[q] = release[q]
  BY OthersStay, JobKept DEF Next
<1>2. pc[q] = "countJob" => call' = call
  <2>1. CASE Machine(r) \/ Reporter(r)
    BY <2>1 DEF Machine, MachineDecides, MachineFinishes, Reporter, Release, ReporterMarks,
       ReporterDecrJobs, ReporterClampJobs, ReporterDecrShots, ReporterClampShots,
       ReporterError, ReporterCrash, ReporterOnly, GatewayStays, Fails
  <2>2. ASSUME NEW step, At(r, step), pc[q] = "countJob"
        PROVE  FALSE
    BY <2>2 DEF At, LoopFree, Shape, SyncSteps, ReserveSteps
  <2>3. CASE Reserve(r)
    BY <2>2, <2>3 DEF Reserve, TryReserve, NoLicense, ReserveShots, CountJob, UndoShots,
       UndoJob, ReserveSweep, ReserveError, Fails
  <2>4. CASE Outcome(r)
    BY <2>2, <2>4 DEF Outcome, Respond, Accepted, Refused, ConnectFails, LostReply, LogJob,
       LogJobFails, Fails
  <2>5. CASE Rollback(r)
    BY <2>2, <2>5 DEF Rollback, RollbackCalls, RollbackShots, RollbackJob, RollbackClamp,
       RollbackError, Fails
  <2>6. QED
    BY <2>1, <2>3, <2>4, <2>5
<1>3. /\ OverLimit(q)' = OverLimit(q) /\ HoldsShots(q)' = HoldsShots(q)
      /\ HoldsJob(q)' = HoldsJob(q) /\ IsSweep(job[q])' = IsSweep(job[q])
  BY <1>1, <1>2 DEF OverLimit, HoldsShots, HoldsJob, Pending
<1>4. QED
  BY <1>1, <1>3 DEF ClaimOf, PlaceOf

\* When the event loop is free, what the ledger counts is what the counters count.
LEMMA CountsAgree ==
  ASSUME TypeOK, NEW r \in Requests, LoopFree(r), pc[r] = "idle"
  PROVE  /\ ClaimedWith(r) = ShotHolders(User(r))
         /\ PlacedWith(r) = JobHolders(User(r))
<1>1. ASSUME NEW q \in Requests
      PROVE  /\ ClaimOf(q) = "held" <=> HoldsShots(q)
             /\ PlaceOf(q) = "held" <=> HoldsJob(q)
  <2>1. pc[q] \notin SyncSteps
    BY DEF LoopFree, SyncSteps, ReserveSteps, RollbackSteps
  <2>2. QED
    BY <2>1 DEF ClaimOf, PlaceOf, OverLimit, HoldsShots, HoldsJob, Pending, SyncSteps,
       ReserveSteps
<1>2. QED
  BY <1>1 DEF ClaimedWith, PlacedWith, ShotHolders, JobHolders, RequestsOf

\* What a step does to the claims of its own request: one action of the ledger, or none.
Decided(r)  == /\ ~IsSweep(job[r]) /\ ClaimOf(r) = "none" /\ PlaceOf(r)' = PlaceOf(r)
               /\ \E n \in LedgerLimits :
                    ClaimOf(r)' = IF Weight(ClaimedWith(r), job) + Charge(job[r]) <= n
                                    THEN "held" ELSE "refused"
Placing(r)  == /\ ClaimOf(r) = "held" /\ ClaimOf(r)' = "held"
               /\ PlaceOf(r) = "none" /\ PlaceOf(r)' = "held"
Ranked(r)   == /\ IsSweep(job[r]) /\ PlaceOf(r) = "none" /\ ClaimOf(r)' = ClaimOf(r)
               /\ PlaceOf(r)' = IF Cardinality(PlacedWith(r)) + 1 <= MaxConcurrentSweeps
                                  THEN "held" ELSE "refused"
ShotsBack(r) == /\ ClaimOf(r) = "held" /\ ClaimOf(r)' = "returned"
                /\ PlaceOf(r) # "none" /\ PlaceOf(r)' = PlaceOf(r)
PlaceBack(r) == /\ PlaceOf(r) = "held" /\ PlaceOf(r)' = "returned"
                /\ ClaimOf(r)' = ClaimOf(r)
Unmoved(r)  == ClaimOf(r)' = ClaimOf(r) /\ PlaceOf(r)' = PlaceOf(r)

OwnMove(r) ==
  Unmoved(r) \/ Decided(r) \/ Placing(r) \/ Ranked(r) \/ ShotsBack(r) \/ PlaceBack(r)

LEMMA MovesInReserve ==
  ASSUME NoFaults, CircuitUsersBalanced, TypeOK, Shape, NoneGone, SweepsUndone, CountersExact,
         NEW r \in Requests, Reserve(r)
  PROVE  OwnMove(r)
<1> USE DEF TypeOK, Goto, Deny, Forward, At, counterVars, NoneGone
<1>1. /\ User(r) \in Users /\ Charge(job[r]) \in Nat
      /\ jobs[User(r)] \in Int /\ shots[User(r)] \in Int
  BY JobTyped
<1>2. job' = job /\ IsSweep(job[r])' = IsSweep(job[r])
  BY JobKept DEF Next
<1>3. pc[r] # "gone" /\ ~Pending(r)
  BY DEF Pending
<1>4. pc[r] = "idle" => ClaimOf(r) = "none" /\ PlaceOf(r) = "none"
  BY <1>3 DEF ClaimOf, PlaceOf, OverLimit, HoldsShots, HoldsJob
<1>5. pc'[r] = "denied" => /\ ClaimOf(r)' = IF IsSweep(job[r]) THEN "none" ELSE "refused"
                           /\ PlaceOf(r)' = IF IsSweep(job[r]) THEN "refused" ELSE "none"
  BY <1>2 DEF ClaimOf, PlaceOf, OverLimit, HoldsShots, HoldsJob, Pending
<1>6. CASE NoLicense(r)
  <2>1. /\ pc[r] = "idle" /\ ~IsSweep(job[r]) /\ pc'[r] = "denied" /\ -1 \in LedgerLimits
    BY <1>6 DEF NoLicense, LedgerLimits
  <2>2. Weight(ClaimedWith(r), job) \in Nat
    <3>1. \A q \in ClaimedWith(r) : Charge(job[q]) \in Nat
      BY JobTyped DEF ClaimedWith
    <3>2. IsFiniteSet(ClaimedWith(r))
      <4>1. ClaimedWith(r) \in SUBSET Requests
        BY DEF ClaimedWith
      <4>2. QED
        BY <4>1, RequestsFinite, FS_Subset
    <3>3. QED
      BY <3>1, <3>2, TokensFinite
  <2>3. ~(Weight(ClaimedWith(r), job) + Charge(job[r]) <= -1)
    BY <1>1, <2>2
  <2>4. QED
    BY <1>4, <1>5, <2>1, <2>3 DEF OwnMove, Decided
<1>7. CASE ReserveShots(r)
  <2>1. /\ pc[r] = "idle" /\ ~IsSweep(job[r]) /\ LoopFree(r) /\ pc'[r] = "countJob"
    BY <1>7 DEF ReserveShots, SyncSteps, ReserveSteps, RollbackSteps
  <2>2. Balanced(User(r))
    BY <2>1 DEF Balanced, RequestsOf, User, CircuitUsersBalanced
  <2>3. shots[User(r)] = Weight(ClaimedWith(r), job)
    <3>1. shots[User(r)] = Weight(ShotHolders(User(r)), job)
      BY <1>1, <2>2 DEF CountersExact, Balanced
    <3>2. QED
      BY <2>1, <3>1, CountsAgree
  <2>4. PICK n \in ShotLimits : /\ call'.shots = shots[User(r)] + Charge(job[r])
                                /\ call'.limit = n
    BY <1>7 DEF ReserveShots
  <2>5. n \in LedgerLimits /\ n \in Nat
    BY <2>4, LimitsTyped DEF LedgerLimits
  <2>6. /\ ClaimOf(r)' = IF call'.shots > call'.limit THEN "refused" ELSE "held"
        /\ PlaceOf(r)' = "none"
    BY <1>2, <2>1 DEF ClaimOf, PlaceOf, OverLimit, HoldsShots, HoldsJob, Pending
  <2>7. ClaimOf(r)' = IF Weight(ClaimedWith(r), job) + Charge(job[r]) <= n
                        THEN "held" ELSE "refused"
    BY <1>1, <2>3, <2>4, <2>5, <2>6
  <2>8. QED
    BY <1>4, <2>1, <2>5, <2>6, <2>7 DEF OwnMove, Decided
<1>8. CASE CountJob(r)
  <2>1. ~IsSweep(job[r]) /\ pc[r] = "countJob" /\ call.shots \in Int /\ call.limit \in Nat
    BY <1>8 DEF CountJob, Shape
  <2>2. PlaceOf(r) = "none" /\ ClaimOf(r) = IF call.shots > call.limit THEN "refused" ELSE "held"
    BY <2>1 DEF ClaimOf, PlaceOf, OverLimit, HoldsShots, HoldsJob, Pending
  <2>3. CASE call.shots > call.limit
    <3>1. pc'[r] = "undoShots"
      BY <1>8, <2>1, <2>3 DEF CountJob
    <3>2. ClaimOf(r)' = "refused" /\ PlaceOf(r)' = "none"
      BY <1>2, <2>1, <3>1 DEF ClaimOf, PlaceOf, OverLimit
    <3>3. QED
      BY <2>2, <2>3, <3>2 DEF OwnMove, Unmoved
  <2>4. CASE ~(call.shots > call.limit)
    <3>1. pc'[r] = "upstream"
      BY <1>8, <2>1, <2>4 DEF CountJob
    <3>2. ClaimOf(r)' = "held" /\ PlaceOf(r)' = "held"
      BY <1>2, <2>1, <3>1 DEF ClaimOf, PlaceOf, OverLimit, HoldsShots, HoldsJob
    <3>3. QED
      BY <2>2, <2>4, <3>2 DEF OwnMove, Placing
  <2>5. QED
    BY <2>3, <2>4
<1>9. CASE UndoShots(r)
  <2>1. pc[r] = "undoShots" /\ pc'[r] = "undoJobs" /\ ~IsSweep(job[r])
    BY <1>9 DEF UndoShots, Shape
  <2>2. QED
    BY <1>2, <2>1 DEF ClaimOf, PlaceOf, OverLimit, OwnMove, Unmoved
<1>10. CASE UndoJob(r)
  <2>1. /\ pc[r] \in {"undoJobs", "undoSweep"} /\ pc'[r] = "denied"
        /\ pc[r] = "undoSweep" => IsSweep(job[r])
    BY <1>10 DEF UndoJob, SweepsUndone
  <2>2. /\ ClaimOf(r) = IF IsSweep(job[r]) THEN "none" ELSE "refused"
        /\ PlaceOf(r) = IF IsSweep(job[r]) THEN "refused" ELSE "none"
    BY <2>1 DEF ClaimOf, PlaceOf, OverLimit, HoldsShots
  <2>3. QED
    BY <1>5, <2>1, <2>2 DEF OwnMove, Unmoved
<1>11. CASE ReserveSweep(r)
  <2>1. /\ pc[r] = "idle" /\ IsSweep(job[r]) /\ LoopFree(r)
        /\ pc'[r] = IF jobs[User(r)] + 1 > MaxConcurrentSweeps THEN "undoSweep" ELSE "upstream"
    BY <1>1, <1>11, LimitsAreNaturals DEF ReserveSweep, SyncSteps, ReserveSteps, RollbackSteps
  <2>2. jobs[User(r)] = Cardinality(PlacedWith(r))
    BY <1>1, <2>1, CountsAgree DEF CountersExact
  <2>3. /\ ClaimOf(r)' = "none"
        /\ PlaceOf(r)' = IF pc'[r] = "undoSweep" THEN "refused" ELSE "held"
    BY <1>2, <2>1 DEF ClaimOf, PlaceOf, OverLimit, HoldsShots, HoldsJob
  <2>4. PlaceOf(r)' = IF Cardinality(PlacedWith(r)) + 1 <= MaxConcurrentSweeps
                        THEN "held" ELSE "refused"
    BY <1>1, <2>1, <2>2, <2>3, LimitsAreNaturals
  <2>5. QED
    BY <1>4, <2>1, <2>3, <2>4 DEF OwnMove, Ranked
<1>12. QED
  BY <1>6, <1>7, <1>8, <1>9, <1>10, <1>11 DEF NoFaults, Reserve, TryReserve, ReserveError, Fails

LEMMA MovesAfterwards ==
  ASSUME NoFaults, TypeOK, Shape, NoneGone,
         NEW r \in Requests, Machine(r) \/ Outcome(r) \/ Rollback(r) \/ Reporter(r)
  PROVE  OwnMove(r)
<1> USE DEF TypeOK, Goto, At, counterVars, OwnMove
<1>1. job' = job /\ IsSweep(job[r])' = IsSweep(job[r])
  BY JobKept DEF Next
<1>2. pc[r] # "gone"
  BY DEF NoneGone
<1>3. CASE Machine(r)
  <2>1. pc' = pc /\ release' = release /\ call' = call
    BY <1>3 DEF Machine, MachineDecides, MachineFinishes
  <2>2. ~Pending(r) /\ ~Pending(r)'
    BY <1>2, <2>1 DEF Pending
  <2>3. QED
    BY <1>1, <2>1, <2>2 DEF ClaimOf, PlaceOf, OverLimit, HoldsShots, HoldsJob, Unmoved
<1>4. CASE Outcome(r)
  <2>1. \/ pc[r] = "upstream" /\ pc'[r] = "accepted"
        \/ pc[r] = "upstream" /\ pc'[r] = "rbShots" /\ ~IsSweep(job[r])
        \/ pc[r] = "upstream" /\ pc'[r] = "rbJobs" /\ IsSweep(job[r])
        \/ pc[r] = "accepted" /\ pc'[r] = "tracked" /\ release[r] = "no" /\ release' = release
    BY <1>4 DEF NoFaults, Outcome, Respond, Accepted, Refused, ConnectFails, GiveBack, LogJob,
       LostReply, LogJobFails, Shape, Fails
  <2>2. ClaimOf(r) = IF IsSweep(job[r]) THEN "none" ELSE "held"
    BY <2>1 DEF ClaimOf, OverLimit, HoldsShots, Pending
  <2>3. PlaceOf(r) = "held"
    BY <2>1 DEF PlaceOf, HoldsJob
  <2>4. ClaimOf(r)' = IF IsSweep(job[r]) THEN "none" ELSE "held"
    BY <1>1, <2>1 DEF ClaimOf, OverLimit, HoldsShots, Pending
  <2>5. PlaceOf(r)' = "held"
    BY <2>1 DEF PlaceOf, HoldsJob
  <2>6. QED
    BY <2>2, <2>3, <2>4, <2>5 DEF Unmoved
<1>5. CASE Rollback(r)
  <2>1. CASE RollbackShots(r)
    <3>1. pc[r] = "rbShots" /\ pc'[r] = "rbJobs" /\ ~IsSweep(job[r])
      BY <2>1 DEF RollbackShots, Shape
    <3>2. ClaimOf(r) = "held" /\ PlaceOf(r) = "held"
      BY <3>1 DEF ClaimOf, PlaceOf, OverLimit, HoldsShots, HoldsJob
    <3>3. ClaimOf(r)' = "returned" /\ PlaceOf(r)' = "held"
      BY <1>1, <3>1 DEF ClaimOf, PlaceOf, OverLimit, HoldsShots, HoldsJob, Pending
    <3>4. QED
      BY <3>2, <3>3 DEF ShotsBack
  <2>2. CASE RollbackJob(r)
    <3>1. pc[r] = "rbJobs" /\ pc'[r] \in {"rbClampShots", "rbClampJobs", "rolledback"}
      BY <2>2 DEF RollbackJob
    <3>2. /\ ClaimOf(r) = IF IsSweep(job[r]) THEN "none" ELSE "returned"
          /\ PlaceOf(r) = "held"
      BY <3>1 DEF ClaimOf, PlaceOf, OverLimit, HoldsShots, HoldsJob, Pending
    <3>3. /\ ClaimOf(r)' = IF IsSweep(job[r]) THEN "none" ELSE "returned"
          /\ PlaceOf(r)' = "returned"
      BY <1>1, <3>1 DEF ClaimOf, PlaceOf, OverLimit, HoldsShots, HoldsJob, Pending
    <3>4. QED
      BY <3>2, <3>3 DEF PlaceBack
  <2>3. CASE RollbackClamp(r)
    <3>1. /\ pc[r] \in {"rbClampShots", "rbClampJobs"}
          /\ pc'[r] \in {"rbClampJobs", "rolledback"}
      BY <2>3 DEF RollbackClamp
    <3>2. QED
      BY <1>1, <3>1 DEF ClaimOf, PlaceOf, OverLimit, HoldsShots, HoldsJob, Pending, Unmoved
  <2>4. QED
    BY <1>5, <2>1, <2>2, <2>3 DEF NoFaults, Rollback, RollbackCalls, RollbackError, Fails
<1>6. CASE Reporter(r)
  <2> USE DEF ReporterNext, ReporterOnly, GatewayStays
  <2>1. /\ pc[r] = "tracked" /\ pc'[r] = "tracked"
        /\ \/ release[r] = "no" /\ release'[r] \in {"no", "decrJobs"}
           \/ release'[r] = release[r]
           \/ release[r] = "decrJobs" /\ release'[r] \in {"clampJobs", "decrShots"}
           \/ release[r] = "clampJobs" /\ release'[r] = "decrShots"
           \/ release[r] = "decrShots" /\ release'[r] \in {"clampShots", "done"}
           \/ release[r] = "clampShots" /\ release'[r] = "done"
    BY <1>6 DEF NoFaults, Shape, Reporter, Release, ReporterMarks, ReporterDecrJobs,
       ReporterClampJobs, ReporterDecrShots, ReporterClampShots, ReporterError,
       ReporterCrash, GatewayStays, Fails
  <2>2. /\ ClaimOf(r) = IF IsSweep(job[r]) THEN "none"
                        ELSE IF release[r] \in {"no", "decrJobs", "clampJobs", "decrShots"}
                        THEN "held" ELSE "returned"
        /\ PlaceOf(r) = IF release[r] \in {"no", "decrJobs"} THEN "held" ELSE "returned"
    BY <2>1 DEF ClaimOf, PlaceOf, OverLimit, HoldsShots, HoldsJob, Pending
  <2>3. /\ ClaimOf(r)' = IF IsSweep(job[r]) THEN "none"
                         ELSE IF release'[r] \in {"no", "decrJobs", "clampJobs", "decrShots"}
                         THEN "held" ELSE "returned"
        /\ PlaceOf(r)' = IF release'[r] \in {"no", "decrJobs"} THEN "held" ELSE "returned"
    BY <1>1, <2>1 DEF ClaimOf, PlaceOf, OverLimit, HoldsShots, HoldsJob, Pending
  <2>4. CASE release[r] = "decrJobs" /\ release'[r] \in {"clampJobs", "decrShots"}
    BY <2>2, <2>3, <2>4 DEF PlaceBack
  <2>5. CASE release[r] = "decrShots" /\ release'[r] \in {"clampShots", "done"}
    BY <2>2, <2>3, <2>5 DEF ShotsBack, Unmoved
  <2>6. QED
    BY <2>1, <2>2, <2>3, <2>4, <2>5 DEF Unmoved
<1>7. QED
  BY <1>3, <1>4, <1>5, <1>6

\* The ledger's own sums are those of the limiter.
LEMMA LedgerCounts ==
  ASSUME NEW r \in Requests
  PROVE  /\ Ledger!IsSweep(job[r]) = IsSweep(job[r])
         /\ Ledger!Charge(job[r]) = Charge(job[r])
         /\ Ledger!Claimed(r) = Weight(ClaimedWith(r), job)
         /\ Ledger!Placed(r) = Cardinality(PlacedWith(r))
<1>1. /\ \A q \in Requests : Ledger!IsSweep(job[q]) = IsSweep(job[q])
      /\ \A q \in Requests : Ledger!Charge(job[q]) = Charge(job[q])
  BY DEF Ledger!IsSweep, IsSweep, Ledger!Charge, Charge, Ledger!OrOne, OrOne
<1>2. {q \in Ledger!SameUser(r) : [x \in Requests |-> ClaimOf(x)][q] = "held"} = ClaimedWith(r)
  BY DEF Ledger!SameUser, ClaimedWith, User
<1>3. {q \in Ledger!SameUser(r) : [x \in Requests |-> PlaceOf(x)][q] = "held"} = PlacedWith(r)
  BY DEF Ledger!SameUser, PlacedWith, User
<1>4. Ledger!Tokens(ClaimedWith(r), job) = Tokens(ClaimedWith(r), job)
  BY <1>1 DEF Ledger!Tokens, Tokens, ClaimedWith
<1>5. \A S : Ledger!Cardinality(S) = Cardinality(S)
  BY Zenon DEF Ledger!Cardinality, Cardinality
<1>6. QED
  BY <1>1, <1>2, <1>3, <1>4, <1>5, Zenon
     DEF Ledger!Claimed, Ledger!Placed, Ledger!Weight, Weight

\* A step that moves the claims of one request alone is a step of the ledger.
LEMMA MoveIsLedgerStep ==
  ASSUME NEW r \in Requests, OwnMove(r), job' = job,
         \A q \in Requests \ {r} : ClaimOf(q)' = ClaimOf(q) /\ PlaceOf(q)' = PlaceOf(q)
  PROVE  [Ledger!Next]_(Ledger!ledger)
<1> DEFINE claims == [q \in Requests |-> ClaimOf(q)]
           places == [q \in Requests |-> PlaceOf(q)]
<1>1. /\ ClaimOf(r)' = ClaimOf(r) => claims' = claims
      /\ PlaceOf(r)' = PlaceOf(r) => places' = places
      /\ claims' = [claims EXCEPT ![r] = ClaimOf(r)']
      /\ places' = [places EXCEPT ![r] = PlaceOf(r)']
      /\ claims[r] = ClaimOf(r) /\ places[r] = PlaceOf(r)
  OBVIOUS
<1> HIDE DEF claims, places
<1>2. CASE Unmoved(r)
  BY <1>1, <1>2 DEF Unmoved, claims, places, Ledger!ledger
<1>3. CASE Decided(r)
  <2>1. PICK n \in LedgerLimits :
          ClaimOf(r)' = IF Weight(ClaimedWith(r), job) + Charge(job[r]) <= n
                          THEN "held" ELSE "refused"
    BY <1>3 DEF Decided
  <2>2. Ledger!DecideCircuit(r, n)
    BY <1>1, <1>3, <2>1, LedgerCounts DEF Decided, Ledger!DecideCircuit, claims, places
  <2>3. QED
    BY <2>2 DEF Ledger!Next
<1>4. CASE Placing(r)
  <2>1. Ledger!TakePlace(r)
    BY <1>1, <1>4 DEF Placing, Ledger!TakePlace, claims, places
  <2>2. QED
    BY <2>1 DEF Ledger!Next
<1>5. CASE Ranked(r)
  <2>1. Ledger!DecideSweep(r)
    BY <1>1, <1>5, LedgerCounts DEF Ranked, Ledger!DecideSweep, claims, places
  <2>2. QED
    BY <2>1 DEF Ledger!Next
<1>6. CASE ShotsBack(r)
  <2>1. Ledger!ReturnShots(r)
    BY <1>1, <1>6 DEF ShotsBack, Ledger!ReturnShots, claims, places
  <2>2. QED
    BY <2>1 DEF Ledger!Next
<1>7. CASE PlaceBack(r)
  <2>1. Ledger!ReturnPlace(r)
    BY <1>1, <1>7 DEF PlaceBack, Ledger!ReturnPlace, claims, places
  <2>2. QED
    BY <2>1 DEF Ledger!Next
<1>8. QED
  BY <1>2, <1>3, <1>4, <1>5, <1>6, <1>7 DEF OwnMove

\* What holds of every state without faults; CountersExact is a part of it.
Exact == /\ TypeOK /\ Shape /\ NoneGone /\ SweepsUndone /\ CountersExact

LEMMA LedgerStep ==
  ASSUME NoFaults, CircuitUsersBalanced, Exact, [Next]_vars
  PROVE  [Ledger!Next]_(Ledger!ledger)
<1>1. ASSUME NEW r \in Requests,
             Reserve(r) \/ Machine(r) \/ Outcome(r) \/ Rollback(r) \/ Reporter(r)
      PROVE  [Ledger!Next]_(Ledger!ledger)
  <2>1. OwnMove(r)
    BY <1>1, MovesInReserve, MovesAfterwards DEF Exact
  <2>2. \A q \in Requests \ {r} : ClaimOf(q)' = ClaimOf(q) /\ PlaceOf(q)' = PlaceOf(q)
    BY <1>1, OthersClaimsStay DEF Exact
  <2>3. QED
    BY <2>1, <2>2, JobKept, MoveIsLedgerStep
<1>2. CASE UNCHANGED vars
  <2>1. \A q \in Requests : ClaimOf(q)' = ClaimOf(q) /\ PlaceOf(q)' = PlaceOf(q)
    BY <1>2 DEF vars, ClaimOf, PlaceOf, OverLimit, HoldsShots, HoldsJob, Pending
  <2>2. QED
    BY <1>2, <2>1 DEF vars, Ledger!ledger
<1>3. CASE GatewayCrash \/ \E u \in Users : Expire(u)
  BY <1>3 DEF GatewayCrash, Expire, NoFaults, Fails
<1>4. QED
  BY <1>1, <1>2, <1>3 DEF Next

\* Without faults, and for users who do not send circuit jobs beside jobs that give back
\* more than they were charged, the limiter and the reporter implement the ledger: for any
\* number of submissions at once, each is admitted or refused as one indivisible check
\* would have done it, and its claims are returned at most once.
THEOREM LimiterImplementsLedger ==
  Faults = {} /\ CircuitUsersBalanced => (Spec => ImplementsLedger)
<1> SUFFICES ASSUME NoFaults, CircuitUsersBalanced
             PROVE  Spec => ImplementsLedger
  BY DEF NoFaults
<1>0. OnlyLeaks
  BY DEF OnlyLeaks, NoFaults
<1>1. Init => Ledger!Init
  BY DEF Init, Ledger!Init, ClaimOf, PlaceOf, OverLimit, HoldsShots, HoldsJob, Pending
<1>2. Spec => []CountersExact
  BY CountersAreExact DEF NoFaults
<1>3. Spec => [](TypeOK /\ Shape /\ NoneGone /\ SweepsUndone)
  <2>1. Init => TypeOK /\ Shape /\ NoneGone /\ SweepsUndone
    BY DEF Init, TypeOK, Shape, NoneGone, SweepsUndone, NoCall, SyncSteps, ReserveSteps,
       RollbackSteps
  <2>2. TypeOK /\ Shape /\ NoneGone /\ SweepsUndone /\ [Next]_vars
          => (TypeOK /\ Shape /\ NoneGone /\ SweepsUndone)'
    BY <1>0, TypeStep, ShapeStep, NoneGoneStep, SweepsUndoneStep
  <2>3. QED
    BY <2>1, <2>2, PTL DEF Spec
<1>4. Exact /\ [Next]_vars => [Ledger!Next]_(Ledger!ledger)
  BY LedgerStep
<1>5. QED
  BY <1>1, <1>2, <1>3, <1>4, PTL DEF Spec, Exact, ImplementsLedger, Ledger!Spec
==============================================================================

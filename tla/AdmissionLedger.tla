-------------------------- MODULE AdmissionLedger --------------------------
(***************************************************************************)
(* What the counters promise when nothing fails: a ledger of claims.  A    *)
(* request is admitted or refused in one indivisible step, against exactly *)
(* the claims held at that moment, and a claim is given back at most once  *)
(* and never taken again.  A circuit job claims shots and then a place     *)
(* among its user's jobs; a sweep claims a place only, and the places of   *)
(* all the user's jobs count against it.                                   *)
(***************************************************************************)
EXTENDS Accounting

CONSTANTS Requests, Limits, MaxSweeps

VARIABLES job,    \* what each request carries
          claim,  \* each request's claim of shots
          place   \* each request's claim of a place among the jobs

ledger == <<job, claim, place>>

ClaimStates == {"none", "held", "refused", "returned"}

SameUser(r) == {q \in Requests : job[q].user = job[r].user}
Claimed(r)  == Weight({q \in SameUser(r) : claim[q] = "held"}, job)
Placed(r)   == Cardinality({q \in SameUser(r) : place[q] = "held"})

Init == /\ claim = [r \in Requests |-> "none"]
        /\ place = [r \in Requests |-> "none"]

\* A circuit job is admitted only if it fits, and refused only if it does not.
DecideCircuit(r, limit) ==
  /\ ~IsSweep(job[r]) /\ claim[r] = "none"
  /\ claim' = [claim EXCEPT ![r] = IF Claimed(r) + Charge(job[r]) <= limit
                                     THEN "held" ELSE "refused"]
  /\ UNCHANGED place

\* A circuit job that may run takes a place, whatever the number of jobs.
TakePlace(r) ==
  /\ claim[r] = "held" /\ place[r] = "none"
  /\ place' = [place EXCEPT ![r] = "held"]
  /\ UNCHANGED claim

DecideSweep(r) ==
  /\ IsSweep(job[r]) /\ place[r] = "none"
  /\ place' = [place EXCEPT ![r] = IF Placed(r) + 1 <= MaxSweeps
                                     THEN "held" ELSE "refused"]
  /\ UNCHANGED claim

ReturnShots(r) ==
  /\ claim[r] = "held" /\ place[r] # "none"
  /\ claim' = [claim EXCEPT ![r] = "returned"]
  /\ UNCHANGED place

ReturnPlace(r) ==
  /\ place[r] = "held"
  /\ place' = [place EXCEPT ![r] = "returned"]
  /\ UNCHANGED claim

Next == \E r \in Requests :
          /\ \/ \E limit \in Limits : DecideCircuit(r, limit)
             \/ TakePlace(r) \/ DecideSweep(r) \/ ReturnShots(r) \/ ReturnPlace(r)
          /\ UNCHANGED job

Spec == Init /\ [][Next]_ledger
=============================================================================

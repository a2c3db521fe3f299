------------------------- MODULE SubmissionPipeline -------------------------
(***************************************************************************)
(* proxy_and_capture: the gateway's handling of a request, from its route  *)
(* to the answer, with one step per call to another service.  Requests are *)
(* handled at once, each by a handler of its own; the machine, the         *)
(* job-reporter and the portal work beside them.  The counters behind a    *)
(* reservation are ConcurrencyLimiter's and the turns of the reporter      *)
(* JobReporter's: here a reservation is charged or not, and the reporter   *)
(* closes a job in one step.                                               *)
(***************************************************************************)
EXTENDS AuthChain

CONSTANTS
  Routes,      \* method and path, as far as the gateway tells them apart
  Public,      \* public_routes
  Deprecated,  \* deprecated_routes
  RoleRoutes,  \* role_routes, in order: the routes an entry matches, and its roles
  Logged,      \* logged_routes, the submissions
  Sweeps,      \* those of them that submit sweeps
  ShotBudget,  \* POLICY_PLUGIN is shot_budget
  Kinds        \* what each request may be: a route and a token

ASSUME RoutesKnown == UNION {Public, Deprecated, Logged} \subseteq Routes /\ Sweeps \subseteq Logged
ASSUME TableKnown  == RoleRoutes \in Seq([routes : SUBSET Routes, roles : SUBSET Roles])
ASSUME BudgetKnown == ShotBudget \in BOOLEAN
ASSUME KindsKnown  == Kinds \in [Requests -> SUBSET [route : Routes, token : Tokens]]

VARIABLES
  mode,     \* MIDDLEWARE_MODE
  route,    \* what each request asks for
  at,       \* what its handler does next
  reply,    \* its answer, sent once the handler is done
  charge,   \* what its reservation is: "held", "stray" when no handler knows of it,
            \* "returned", and "overdrawn" when it was returned and never made
  machine,  \* the fate of the submission on the machine
  named,    \* the machine's answer names the job
  row,      \* its row in the jobs table
  store,    \* its objects in MinIO
  portal    \* what the portal was told of it

outside == <<mode, route>>
handler == <<at, reply>>
records == <<row, store, portal>>
vars    == <<chainVars, outside, handler, charge, machine, named, records>>

-----------------------------------------------------------------------------
Modes == {"production", "authentication", "reporting", "maintenance"}
Steps == {"new", "auth", "portal", "policy", "upstream", "rollback", "initial", "payload",
          "row", "report", "done", "lost"}
Replies == {"none", "local", "ok", "refused", "denied",
            "401", "403", "410", "429", "500", "502", "503"}

TypeOK ==
  /\ ChainTypeOK
  /\ mode \in Modes /\ route \in [Requests -> Routes]
  /\ at \in [Requests -> Steps] /\ reply \in [Requests -> Replies]
  /\ charge \in [Requests -> {"none", "held", "stray", "returned", "overdrawn"}]
  /\ machine \in [Requests -> {"none", "running", "ended"}]
  /\ named \in [Requests -> BOOLEAN]
  /\ row \in [Requests -> {"none", "submitted", "deleted"}]
  /\ store \in [Requests -> SUBSET {"initial", "submitted"}]
  /\ portal \in [Requests -> {"none", "submitted", "ended"}]

Init ==
  /\ ChainInit
  /\ mode \in Modes
  /\ route \in [Requests -> Routes] /\ token \in [Requests -> Tokens]
  /\ \A r \in Requests : [route |-> route[r], token |-> token[r]] \in Kinds[r]
  /\ at = [r \in Requests |-> "new"] /\ reply = [r \in Requests |-> "none"]
  /\ charge = [r \in Requests |-> "none"]
  /\ machine = [r \in Requests |-> "none"] /\ named = [r \in Requests |-> TRUE]
  /\ row = [r \in Requests |-> "none"]
  /\ store = [r \in Requests |-> {}]
  /\ portal = [r \in Requests |-> "none"]

-----------------------------------------------------------------------------
\* The handler goes on, or answers.
Goto(r, step) == at' = [at EXCEPT ![r] = step] /\ UNCHANGED reply
Answer(r, status) ==
  /\ at' = [at EXCEPT ![r] = "done"]
  /\ reply' = [reply EXCEPT ![r] = status]

\* Whose submission it is; a name may be empty.
User(r) == principal[r].user
IsNamed(r) == User(r) # Nobody

Submits(r) == route[r] \in Logged
Limited(r) == mode = "production" /\ Submits(r)
Captures(r) == mode \in {"production", "reporting"} /\ Submits(r)

\* The entries of the role table that match a request; the first of them decides.
Matching(r) == {i \in DOMAIN RoleRoutes : route[r] \in RoleRoutes[i].routes}
RoleAllows(r) ==
  \A i \in Matching(r) :
    (\A k \in Matching(r) : i <= k) => RoleRoutes[i].roles \cap principal[r].roles # {}

-----------------------------------------------------------------------------
\* The head of proxy_and_capture: routes without authentication, the mode, the
\* whitelist; and authenticate is entered.
Arrive(r) ==
  /\ at[r] = "new"
  /\ IF route[r] \in Public THEN Answer(r, "local") /\ UNCHANGED auth
     ELSE IF route[r] \in Deprecated THEN Answer(r, "410") /\ UNCHANGED auth
     ELSE IF mode = "maintenance" THEN Answer(r, "503") /\ UNCHANGED auth
     ELSE IF Matching(r) = {} THEN Answer(r, "403") /\ UNCHANGED auth
     ELSE Goto(r, "auth") /\ auth' = [auth EXCEPT ![r] = "due"]
  /\ UNCHANGED <<token, principal, lookup, cache, bus, clock, hurt, glitches>>
  /\ UNCHANGED <<outside, charge, machine, named, records>>

Authenticating(r) ==
  /\ at[r] = "auth"
  /\ Authenticate(r) \/ PortalAnswers(r) \/ RolesArrive(r)
  /\ UNCHANGED <<outside, handler, charge, machine, named, records>>

\* The answer of authenticate; then the roles, and what comes first for the mode.
Authenticated(r) ==
  /\ at[r] = "auth" /\ auth[r] \in {"401", "503", "in"}
  /\ IF auth[r] # "in" THEN Answer(r, auth[r])
     ELSE IF ~RoleAllows(r) THEN Answer(r, "403")
     ELSE Goto(r, IF Limited(r) THEN "portal" ELSE "upstream")
  /\ UNCHANGED <<chainVars, outside, charge, machine, named, records>>

AuthorizeJob_NoStatus(r) ==   \* slip: no status of its own for a verdict without one
  /\ at[r] = "portal"
  /\ \/ Works /\ Goto(r, IF IsNamed(r) THEN "policy" ELSE "upstream")
     \/ Works /\ \E status \in {"denied", "null"} : Answer(r, status)
     \/ Fails(r) /\ Answer(r, "500")
  /\ UNCHANGED <<chain, outside, charge, machine, named, records>>

\* authorize_job: the portal's verdict, whose status is passed on, or a failure.
AuthorizeJob(r) ==
  /\ at[r] = "portal"
  /\ \/ Works /\ Goto(r, IF IsNamed(r) THEN "policy" ELSE "upstream")
     \/ Works /\ Answer(r, "denied")
     \/ Fails(r) /\ Answer(r, "500")
  /\ UNCHANGED <<chain, outside, charge, machine, named, records>>

-----------------------------------------------------------------------------
\* check_submission: a reservation, or a denial; when Redis fails the request is let
\* through, with a charge nobody will give back if the failure came after it.
NeedsLicense(r) == ShotBudget /\ route[r] \notin Sweeps /\ ~principal[r].licensed

CheckSubmission_KeepsDenied(r) ==   \* slip: the reservation of a denied request is kept
  /\ at[r] = "policy"
  /\ \/ /\ Works /\ Answer(r, "429")
        /\ charge' \in {charge, [charge EXCEPT ![r] = "held"]}
     \/ /\ ~NeedsLicense(r) /\ Works /\ Goto(r, "upstream")
        /\ charge' = [charge EXCEPT ![r] = "held"]
     \/ /\ ~NeedsLicense(r) /\ Fails(r) /\ Goto(r, "upstream")
        /\ charge' \in {charge, [charge EXCEPT ![r] = "stray"]}
  /\ UNCHANGED <<chain, outside, machine, named, records>>

CheckSubmission(r) ==
  /\ at[r] = "policy"
  /\ \/ Works /\ Answer(r, "429") /\ UNCHANGED charge
     \/ /\ ~NeedsLicense(r) /\ Works /\ Goto(r, "upstream")
        /\ charge' = [charge EXCEPT ![r] = "held"]
     \/ /\ ~NeedsLicense(r) /\ Fails(r) /\ Goto(r, "upstream")
        /\ charge' \in {charge, [charge EXCEPT ![r] = "stray"]}
  /\ UNCHANGED <<chain, outside, machine, named, records>>

\* The machine: it takes a submission, or answers something else, or the connection
\* fails, before it took the submission or before its answer arrived.
Taken(r) == machine' = [machine EXCEPT ![r] = IF Submits(r) THEN "running" ELSE @]

Forward(r) ==
  /\ at[r] = "upstream"
  /\ \/ /\ Works /\ Taken(r) /\ UNCHANGED named
        /\ IF Captures(r) THEN Goto(r, "initial") ELSE Answer(r, "ok")
     \/ /\ Captures(r) /\ Fails(r) /\ Taken(r)
        /\ named' = [named EXCEPT ![r] = FALSE] /\ Goto(r, "payload")
     \/ /\ Works /\ UNCHANGED <<machine, named>>
        /\ at' = [at EXCEPT ![r] = "rollback"] /\ reply' = [reply EXCEPT ![r] = "refused"]
     \/ /\ Fails(r) /\ (UNCHANGED machine \/ Taken(r)) /\ UNCHANGED named
        /\ at' = [at EXCEPT ![r] = "rollback"] /\ reply' = [reply EXCEPT ![r] = "502"]
  /\ UNCHANGED <<chain, outside, charge, records>>

Rollback_OnRefusal(r) ==   \* slip: a connection that fails leaves the reservation
  /\ at[r] = "rollback"
  /\ IF charge[r] = "held" /\ reply[r] = "refused"
       THEN \/ Works /\ charge' = [charge EXCEPT ![r] = "returned"]
            \/ Fails(r) /\ UNCHANGED charge
       ELSE Works /\ UNCHANGED charge
  /\ Answer(r, reply[r])
  /\ UNCHANGED <<chain, outside, machine, named, records>>

\* The policy's rollback; that it fails is swallowed.
Rollback(r) ==
  /\ at[r] = "rollback"
  /\ IF charge[r] = "held"
       THEN \/ Works /\ charge' = [charge EXCEPT ![r] = "returned"]
            \/ Fails(r) /\ UNCHANGED charge
       ELSE Works /\ UNCHANGED charge
  /\ Answer(r, reply[r])
  /\ UNCHANGED <<chain, outside, machine, named, records>>

-----------------------------------------------------------------------------
\* The artifacts the machine's answer lists, each of which may be missed.
InitialArtifacts(r) ==
  /\ at[r] = "initial"
  /\ Goto(r, "payload")
  /\ \E uploaded \in SUBSET {"initial"} : store' = [store EXCEPT ![r] = @ \cup uploaded]
  /\ UNCHANGED <<chainVars, outside, charge, machine, named, row, portal>>

\* upload_submitted_circuit: a JSON body whose upload fails is tried again as bytes.  A
\* sweep is a byte blob, which does not parse, and is uploaded once.  When the last try
\* fails the handler raises.  Without the job's id what is stored is not found as its.
Parses(r) == route[r] \notin Sweeps
Tries(r) == IF Parses(r) THEN 2 ELSE 1

FailsTimes(r, n) ==
  /\ glitches + n <= MaxGlitches /\ glitches' = glitches + n
  /\ hurt' = [hurt EXCEPT ![r] = @ + n]

Submitted(r) == [store EXCEPT ![r] = IF named[r] THEN @ \cup {"submitted"} ELSE @]

UploadPayload_OneTry(r) ==   \* slip: no second try for JSON
  /\ at[r] = "payload"
  /\ \/ Works /\ store' = Submitted(r) /\ Goto(r, "row")
     \/ Fails(r) /\ store' \in {store, Submitted(r)} /\ Answer(r, "500")
  /\ UNCHANGED <<chain, outside, charge, machine, named, row, portal>>

UploadPayload_Swallows(r) ==   \* slip: the last failure is logged
  /\ at[r] = "payload"
  /\ \/ Works /\ store' = Submitted(r) /\ Goto(r, "row")
     \/ Parses(r) /\ Fails(r) /\ store' = Submitted(r) /\ Goto(r, "row")
     \/ FailsTimes(r, Tries(r)) /\ store' \in {store, Submitted(r)} /\ Goto(r, "row")
  /\ UNCHANGED <<chain, outside, charge, machine, named, row, portal>>

UploadPayload(r) ==
  /\ at[r] = "payload"
  /\ \/ Works /\ store' = Submitted(r) /\ Goto(r, "row")
     \/ Parses(r) /\ Fails(r) /\ store' = Submitted(r) /\ Goto(r, "row")
     \/ FailsTimes(r, Tries(r)) /\ store' \in {store, Submitted(r)} /\ Answer(r, "500")
  /\ UNCHANGED <<chain, outside, charge, machine, named, row, portal>>

\* log_job, which swallows its failures; a principal without a name is not reported.
Inserted(r) == [row EXCEPT ![r] = IF named[r] THEN "submitted" ELSE @]

LogJob(r) ==
  /\ at[r] = "row"
  /\ \/ Works /\ row' = Inserted(r)
     \/ Fails(r) /\ row' \in {row, Inserted(r)}
  /\ IF IsNamed(r) THEN Goto(r, "report") ELSE Answer(r, "ok")
  /\ UNCHANGED <<chain, outside, charge, machine, named, store, portal>>

\* What the portal has when the report got through.
Told(r) == [portal EXCEPT ![r] = IF named[r] THEN "submitted" ELSE @]

InitialReport_Logged(r) ==   \* slip: a report that fails is logged
  /\ at[r] = "report"
  /\ \/ Works /\ portal' = Told(r) /\ Answer(r, "ok")
     \/ Fails(r) /\ portal' \in {portal, Told(r)} /\ Answer(r, "ok")
  /\ UNCHANGED <<chain, outside, charge, machine, named, row, store>>

\* send_initial_report; refused or failed, the client gets 502.
InitialReport(r) ==
  /\ at[r] = "report"
  /\ \/ Works /\ portal' = Told(r) /\ Answer(r, "ok")
     \/ Fails(r) /\ portal' \in {portal, Told(r)} /\ Answer(r, "502")
  /\ UNCHANGED <<chain, outside, charge, machine, named, row, store>>

-----------------------------------------------------------------------------
\* The machine ends a job.  The reporter finds it by its row: the reservation is given
\* back, made or not, the portal is told, the row is deleted.
MachineEnds(r) ==
  /\ machine[r] = "running"
  /\ machine' = [machine EXCEPT ![r] = "ended"]
  /\ UNCHANGED <<chainVars, outside, handler, charge, named, records>>

Close(r) ==
  /\ machine[r] = "ended" /\ row[r] = "submitted"
  /\ row' = [row EXCEPT ![r] = "deleted"]
  /\ portal' = [portal EXCEPT ![r] = "ended"]
  /\ charge' = [charge EXCEPT ![r] = IF ~IsNamed(r) THEN @
                                     ELSE IF @ \in {"held", "stray"} THEN "returned"
                                     ELSE "overdrawn"]
  /\ UNCHANGED <<chainVars, outside, handler, machine, named, store>>

\* The gateway dies, with its handlers and the cache, and is started again.
InFlight == {r \in Requests : at[r] \notin {"new", "done", "lost"}}
Crash ==
  /\ glitches < MaxGlitches /\ glitches' = glitches + 1 /\ InFlight # {}
  /\ hurt' = [r \in Requests |-> hurt[r] + (IF r \in InFlight THEN 1 ELSE 0)]
  /\ at' = [r \in Requests |-> IF r \in InFlight THEN "lost" ELSE at[r]]
  /\ cache' = EmptyCache
  /\ UNCHANGED <<token, auth, principal, lookup, bus, clock>>
  /\ UNCHANGED <<outside, reply, charge, machine, named, records>>

-----------------------------------------------------------------------------
Handle(r) ==
  \/ Arrive(r) \/ Authenticating(r) \/ Authenticated(r) \/ AuthorizeJob(r)
  \/ CheckSubmission(r) \/ Forward(r) \/ Rollback(r)
  \/ InitialArtifacts(r) \/ UploadPayload(r) \/ LogJob(r) \/ InitialReport(r)

\* The clock, the scheduler and the administrator move as long as a request is still to
\* be authenticated: nothing else looks at what they change.
Elsewhere ==
  /\ \E r \in Requests : at[r] \in {"new", "auth"}
  /\ World
  /\ UNCHANGED <<outside, handler, charge, machine, named, records>>

Next == \/ \E r \in Requests : Handle(r) \/ MachineEnds(r) \/ Close(r)
        \/ Crash \/ Elsewhere

Spec == Init /\ [][Next]_vars

-----------------------------------------------------------------------------
\* A handler is done with a request, in one way or another.
Left(r) == at[r] \in {"done", "lost"}

\* A request that was refused, by the gateway, the portal, the policy or the machine,
\* leaves nothing behind: no job, no row, no object, no report, and no reservation
\* unless a call failed for it.
RefusedLeavesNothing ==
  \A r \in Requests :
    at[r] = "done" /\ reply[r] \in {"401", "403", "410", "429", "503", "denied", "refused"} =>
      /\ machine[r] = "none" /\ row[r] = "none" /\ store[r] = {} /\ portal[r] = "none"
      /\ charge[r] \in {"none", "returned"} \/ hurt[r] > 0

\* A submission answered with success, in a mode that records submissions, is on the
\* machine; when the answer named the job, its payload is stored and the portal knows
\* of it, whatever failed on the way, and it is tracked unless the database failed.
SuccessIsTracked ==
  \A r \in Requests :
    at[r] = "done" /\ reply[r] = "ok" /\ Captures(r) =>
      /\ machine[r] # "none"
      /\ named[r] => /\ "submitted" \in store[r]
                     /\ IsNamed(r) => portal[r] # "none"
      /\ row[r] # "none" \/ hurt[r] > 0

\* An error answered for a job that the machine runs costs a failure; a 500 means that
\* every try to store its payload failed, which for a body that parses takes two.
ErrorsAreEarned ==
  \A r \in Requests :
    at[r] = "done" /\ machine[r] # "none" =>
      /\ reply[r] = "502" => hurt[r] >= 1
      /\ reply[r] = "500" => hurt[r] >= Tries(r)

\* What the reporter finds in the jobs table stands for a job of the machine whose
\* payload is stored and, in production, whose reservation was made, unless the
\* policy's Redis failed: the reporter gives back for each row.
RowsAreBacked ==
  \A r \in Requests :
    row[r] # "none" =>
      /\ machine[r] # "none" /\ "submitted" \in store[r]
      /\ Limited(r) /\ IsNamed(r) => charge[r] \notin {"none", "overdrawn"} \/ hurt[r] > 0

\* A reservation that nobody will give back, and one given back for a job that still
\* runs, cost a failure; and where the machine was not reached, one more than that.
ReservationsFollowJobs ==
  \A r \in Requests :
    Left(r) =>
      /\ charge[r] \in {"held", "stray"} /\ row[r] = "none" =>
           hurt[r] >= IF reply[r] = "502" /\ machine[r] = "none" THEN 2 ELSE 1
      /\ charge[r] = "returned" /\ machine[r] = "running" => hurt[r] >= 1
=============================================================================

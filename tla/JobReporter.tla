---------------------------- MODULE JobReporter ----------------------------
(***************************************************************************)
(* The job-reporter: one process that walks the jobs table cycle after     *)
(* cycle and, for each job, asks the machine for its status, releases its  *)
(* reservation, copies its artifacts to MinIO, reports it to the portal    *)
(* and drops its row.  The gateway, which writes the rows and sends the    *)
(* first report, and the machine run beside it.                            *)
(***************************************************************************)
EXTENDS Naturals, FiniteSets

CONSTANTS
  Jobs,        \* the jobs the machine accepted
  Results,     \* the artifacts of a job that is not failed, its payload apart
  Extras,      \* what may come with an artifact: its parsed view, calibration metrics
  Terminal,    \* the terminal statuses the jobs may end with
  FirstReports,\* whether the gateway reports a job when it is submitted (site plugin)
  MaxErrors,   \* MAX_CONSECUTIVE_ERRORS
  MaxGlitches  \* bound: how many calls to other services, or processes, fail

Interim          == {"waiting", "running"}
TerminalStatuses == {"completed", "failed", "aborted", "deletion failed", "deleted"}
RowStatuses      == {"submitted"} \cup Interim
Artifacts        == Results \cup {"payload", "error_log"}
Objects          == Artifacts \cup Extras \cup {"timeline"}

ASSUME JobsFinite       == IsFiniteSet(Jobs)
ASSUME ResultsKnown     == IsFiniteSet(Results) /\ Results \cap {"timeline", "error_log"} = {}
ASSUME ExtrasApart      == Extras \cap (Artifacts \cup {"timeline"}) = {}
ASSUME TerminalKnown    == Terminal \subseteq TerminalStatuses
ASSUME FirstReportsIs   == FirstReports \in BOOLEAN
ASSUME BoundsAreNatural == MaxErrors \in Nat \ {0} /\ MaxGlitches \in Nat

VARIABLES
  machine,   \* status and timeline of each job on the quantum computer
  initial,   \* the gateway's own report of the job: "due", "sent" or "none"
  row,       \* status column of its row in the jobs table, "none" or "deleted"
  processed, \* the members of jobs:terminal:processed
  released,  \* how often decrement_user_counters was called for it
  lapses,    \* how often jobs:terminal:processed expired
  store,     \* the objects in MinIO under the job's prefix
  index,     \* the objects under that prefix its index.html links to
  portal,    \* the status the portal knows of it
  took,      \* the jobs whose terminal status the portal once took
  at,        \* what the reporter does next
  todo,      \* jobs: the rows of this cycle's SELECT still to do
  cur,       \* job, status and timestamps of the job in hand
  left,      \* artifact_types still to fetch
  links,     \* artifact_locations
  redis,     \* this cycle got a Redis client
  conn,      \* its database connection: "ok", in an "aborted" transaction, "closed"
  errors,    \* consecutive_errors
  glitches   \* failures so far

releases == <<processed, released, lapses>>
objects  == <<store, index>>
reports  == <<portal, took>>
world    == <<initial, row, releases, objects, reports>>
reporter == <<at, todo, cur, left, links, redis, conn, errors>>
vars     == <<machine, world, reporter, glitches>>

-----------------------------------------------------------------------------
Steps == {"asleep", "pick", "mark", "give", "timeline", "artifacts", "report",
          "post_report", "delete", "tell", "post_tell", "update", "down"}

Snapshots == [job : Jobs, status : Interim \cup Terminal, timed : BOOLEAN]
Nothing   == [status |-> "none"]

TypeOK ==
  /\ machine \in [Jobs -> [status : Interim \cup Terminal, timed : BOOLEAN, known : BOOLEAN]]
  /\ initial \in [Jobs -> {"none", "due", "sent"}]
  /\ row \in [Jobs -> {"none", "deleted"} \cup RowStatuses]
  /\ processed \subseteq Jobs
  /\ released \in [Jobs -> Nat]
  /\ lapses \in Nat
  /\ store \in [Jobs -> SUBSET Objects]
  /\ index \in [Jobs -> SUBSET Objects]
  /\ portal \in [Jobs -> {"none"} \cup RowStatuses \cup Terminal]
  /\ took \subseteq Jobs
  /\ at \in Steps
  /\ todo \subseteq Jobs
  /\ cur \in Snapshots \cup {Nothing}
  /\ left \subseteq Artifacts
  /\ links \subseteq Objects
  /\ redis \in BOOLEAN
  /\ conn \in {"ok", "aborted", "closed"}
  /\ errors \in 0..MaxErrors
  /\ glitches \in 0..MaxGlitches

Init ==
  /\ machine = [j \in Jobs |-> [status |-> "waiting", timed |-> FALSE, known |-> TRUE]]
  /\ initial = [j \in Jobs |-> "none"]
  /\ row = [j \in Jobs |-> "none"]
  /\ processed = {} /\ lapses = 0
  /\ released = [j \in Jobs |-> 0]
  /\ store = [j \in Jobs |-> {}]
  /\ index = [j \in Jobs |-> {}]
  /\ portal = [j \in Jobs |-> "none"] /\ took = {}
  /\ at = "asleep" /\ todo = {} /\ cur = Nothing /\ left = {} /\ links = {}
  /\ redis = FALSE /\ conn = "ok" /\ errors = 0
  /\ glitches = 0

-----------------------------------------------------------------------------
\* Helpers: a call that fails, the job in hand, the end of its turn.
Fails == glitches < MaxGlitches /\ glitches' = glitches + 1
Works == UNCHANGED glitches
Job == cur.job
Goto(step) == at' = step /\ UNCHANGED <<cur, left, links, redis, todo, errors>>

\* The turn of a job is over: the loop goes on with the next.
NextJob ==
  /\ at' = "pick" /\ cur' = Nothing /\ left' = {} /\ links' = {}
  /\ UNCHANGED <<todo, redis, errors>>

\* conn.commit() without a statement before it: ends an aborted transaction, and
\* raises, which the turn's except swallows, when the connection is closed.
Commit == conn' = IF conn = "aborted" THEN "ok" ELSE conn

\* A statement and its commit: done, or the turn ends in its except branch, which
\* does not roll back.  What follows on the connection then fails as well.
Execute(newRow) ==
  \/ /\ conn = "ok" /\ Works
     /\ row' = [row EXCEPT ![Job] = newRow]
     /\ UNCHANGED conn
  \/ /\ conn = "ok" /\ Fails
     /\ \/ conn' = "aborted" /\ UNCHANGED row
        \/ conn' = "closed" /\ row' \in {row, [row EXCEPT ![Job] = newRow]}
  \/ /\ conn # "ok" /\ Works
     /\ UNCHANGED <<row, conn>>

\* slip: the status of the row is sent where the machine's is meant.
Taken_RowStatus ==
  /\ portal' = [portal EXCEPT ![Job] = IF at = "tell" THEN row[Job] ELSE cur.status]
  /\ took' = IF cur.status \in Terminal THEN took \cup {Job} ELSE took

\* What the portal does with a report of the job in hand.
Taken ==
  /\ portal' = [portal EXCEPT ![Job] = cur.status]
  /\ took' = IF cur.status \in Terminal THEN took \cup {Job} ELSE took
Refused == UNCHANGED reports

\* A report that failed: the row stays for the next cycle.
Unreported == NextJob /\ Commit

\* slip: any answer to the PUT counts as taken.
Put_AnyAnswer(post, next) ==
  \/ Works /\ portal[Job] # "none" /\ Taken /\ Goto(next) /\ UNCHANGED conn
  \/ Works /\ portal[Job] = "none" /\ Refused /\ Goto(next) /\ UNCHANGED conn
  \/ Fails /\ Refused /\ Unreported

\* report_job, first half: the PUT, which the portal takes when it knows the job.  Any
\* answer but 200 leads to the POST; an exception, the report taken or not, ends it.
Put(post, next) ==
  \/ Works /\ portal[Job] # "none" /\ Taken /\ Goto(next) /\ UNCHANGED conn
  \/ Works /\ portal[Job] = "none" /\ Refused /\ Goto(post) /\ UNCHANGED conn
  \/ /\ Fails
     /\ Refused \/ (portal[Job] # "none" /\ Taken)
     /\ (Goto(post) /\ UNCHANGED conn) \/ Unreported

\* slip: the answer to the POST is not looked at.
Post_Unchecked(next) ==
  /\ \/ Works /\ Taken
     \/ Works /\ portal[Job] # "none" /\ Refused
     \/ Fails /\ (Taken \/ Refused)
  /\ Goto(next) /\ UNCHANGED conn

\* The second half: the POST, which a portal that has come to know the job may refuse.
Post(next) ==
  \/ Works /\ Taken /\ Goto(next) /\ UNCHANGED conn
  \/ Works /\ portal[Job] # "none" /\ Refused /\ Unreported
  \/ Fails /\ (Taken \/ Refused) /\ Unreported

\* classify_artifacts, with the payload.
Wanted(status) == {"payload"} \cup IF status = "failed" THEN {"error_log"} ELSE Results

-----------------------------------------------------------------------------
\* The machine, and the gateway's part in a job it saw accepted: log_job inserts
\* the row, and only then is the first report sent, unless the gateway dies.
MachineRuns(j) ==
  /\ machine[j].status = "waiting"
  /\ machine' = [machine EXCEPT ![j].status = "running"]
  /\ UNCHANGED <<world, reporter, glitches>>

MachineEnds(j) ==
  /\ machine[j].status \in Interim
  /\ \E s \in Terminal, timed \in BOOLEAN :
       machine' = [machine EXCEPT ![j] = [status |-> s, timed |-> timed, known |-> TRUE]]
  /\ UNCHANGED <<world, reporter, glitches>>

\* The timeline of a job that ended is completed.
MachineStamps(j) ==
  /\ machine[j].status \in Terminal /\ ~machine[j].timed
  /\ machine' = [machine EXCEPT ![j].timed = TRUE]
  /\ UNCHANGED <<world, reporter, glitches>>

\* The machine knows the job no longer: it answers 404 from now on.
MachineForgets(j) ==
  /\ machine[j].status \in Terminal /\ machine[j].known
  /\ machine' = [machine EXCEPT ![j].known = FALSE]
  /\ UNCHANGED <<world, reporter, glitches>>

LogJob(j) ==
  /\ row[j] = "none"
  /\ row' = [row EXCEPT ![j] = "submitted"]
  /\ initial' = [initial EXCEPT ![j] = IF FirstReports THEN "due" ELSE "none"]
  /\ UNCHANGED <<machine, releases, objects, reports, reporter, glitches>>

\* The POST of the first report; a portal that has the job already may refuse it.
InitialReport(j) ==
  /\ initial[j] = "due"
  /\ initial' = [initial EXCEPT ![j] = "sent"]
  /\ \/ Works /\ portal' = [portal EXCEPT ![j] = "submitted"]
     \/ Works /\ portal[j] # "none" /\ UNCHANGED portal
     \/ Fails /\ portal' \in {portal, [portal EXCEPT ![j] = "submitted"]}
  /\ UNCHANGED <<machine, row, releases, objects, took, reporter>>

-----------------------------------------------------------------------------
\* slip: the SELECT leaves out what is in jobs:terminal:processed.
StartCycle_SkipsProcessed ==
  /\ at = "asleep"
  /\ \/ Works /\ redis' = TRUE
     \/ Fails /\ redis' = FALSE
  /\ todo' = {j \in Jobs \ processed : row[j] \notin {"none", "deleted", "ready", "failed"}}
  /\ at' = "pick" /\ conn' = "ok" /\ errors' = 0
  /\ UNCHANGED <<machine, world, cur, left, links>>

\* main: a cycle begins with a Redis client, or without one, and the SELECT.
StartCycle ==
  /\ at = "asleep"
  /\ \/ Works /\ redis' = TRUE
     \/ Fails /\ redis' = FALSE
  /\ todo' = {j \in Jobs : row[j] \notin {"none", "deleted", "ready", "failed"}}
  /\ at' = "pick" /\ conn' = "ok" /\ errors' = 0
  /\ UNCHANGED <<machine, world, cur, left, links>>

\* slip: > for >=.
CycleFails_OneMore ==
  /\ at = "asleep" /\ Fails
  /\ errors' = errors + 1
  /\ at' = IF errors + 1 > MaxErrors THEN "down" ELSE "asleep"
  /\ UNCHANGED <<machine, world, todo, cur, left, links, redis, conn>>

\* MinIO or the database is not there: process_once raises, and the reporter exits
\* when that happened MaxErrors times in a row.
CycleFails ==
  /\ at = "asleep" /\ Fails
  /\ errors' = errors + 1
  /\ at' = IF errors + 1 >= MaxErrors THEN "down" ELSE "asleep"
  /\ UNCHANGED <<machine, world, todo, cur, left, links, redis, conn>>

EndCycle ==
  /\ at = "pick" /\ todo = {}
  /\ at' = "asleep" /\ redis' = FALSE /\ conn' = "ok"
  /\ UNCHANGED <<machine, world, todo, cur, left, links, errors, glitches>>

\* slip: the loop over the jobs is inside the try that catches a job's exception.
Pick_EndsCycle(j) ==
  /\ at = "pick" /\ j \in todo
  /\ \/ /\ IF machine[j].known THEN Fails ELSE Works
        /\ todo' = {}
        /\ UNCHANGED <<at, cur, conn>>
     \/ /\ Works /\ machine[j].known /\ machine[j].status \in Terminal
        /\ cur' = [job |-> j, status |-> machine[j].status, timed |-> machine[j].timed]
        /\ at' = "mark" /\ todo' = todo \ {j} /\ UNCHANGED conn
     \/ /\ Works /\ machine[j].status \in Interim \ {row[j]}
        /\ cur' = [job |-> j, status |-> machine[j].status, timed |-> FALSE]
        /\ at' = "tell" /\ todo' = todo \ {j} /\ UNCHANGED conn
     \/ /\ Works /\ machine[j].status = row[j]
        /\ Commit /\ todo' = todo \ {j} /\ UNCHANGED <<at, cur>>
  /\ UNCHANGED <<machine, world, left, links, redis, errors>>

\* The next row: get_job_status raises, or the status decides what is to be done.
\* The row's status is the one of the SELECT; only the reporter changes it.
Pick(j) ==
  /\ at = "pick" /\ j \in todo
  /\ todo' = todo \ {j}
  /\ \/ /\ IF machine[j].known THEN Fails ELSE Works
        /\ UNCHANGED <<at, cur, conn>>
     \/ /\ Works /\ machine[j].known /\ machine[j].status \in Terminal
        /\ cur' = [job |-> j, status |-> machine[j].status, timed |-> machine[j].timed]
        /\ at' = "mark" /\ UNCHANGED conn
     \/ /\ Works /\ machine[j].status \in Interim \ {row[j]}
        /\ cur' = [job |-> j, status |-> machine[j].status, timed |-> FALSE]
        /\ at' = "tell" /\ UNCHANGED conn
     \/ /\ Works /\ machine[j].status = row[j]
        /\ Commit /\ UNCHANGED <<at, cur>>
  /\ UNCHANGED <<machine, world, left, links, redis, errors>>

Mark_Unguarded ==   \* slip: the result of SADD is not looked at
  /\ at = "mark" /\ Works
  /\ processed' = IF redis THEN processed \cup {Job} ELSE processed
  /\ Goto(IF redis THEN "give" ELSE "timeline")
  /\ UNCHANGED <<machine, initial, row, released, lapses, objects, reports, conn>>

\* SADD jobs:terminal:processed: the release follows when the job is new in it.
\* When Redis raises, the command applied or not, the turn goes on without.
Mark ==
  /\ at = "mark"
  /\ \/ Works /\ ~redis /\ Goto("timeline") /\ UNCHANGED processed
     \/ /\ Works /\ redis
        /\ processed' = processed \cup {Job}
        /\ Goto(IF Job \in processed THEN "timeline" ELSE "give")
     \/ /\ Fails /\ redis
        /\ processed' \in {processed, processed \cup {Job}}
        /\ Goto("timeline")
  /\ UNCHANGED <<machine, initial, row, released, lapses, objects, reports, conn>>

\* decrement_user_counters, which swallows what Redis raises.
Give ==
  /\ at = "give" /\ Works
  /\ released' = [released EXCEPT ![Job] = @ + 1]
  /\ Goto("timeline")
  /\ UNCHANGED <<machine, initial, row, processed, lapses, objects, reports, conn>>

\* upload_timeline, whose failure is swallowed; then, without both timestamps, only
\* a failed job goes on: any other is left for a later cycle, without a commit.
Timeline ==
  /\ at = "timeline"
  /\ \E linked \in SUBSET {"timeline"} :
       /\ \/ Works /\ linked # {} /\ store' = [store EXCEPT ![Job] = @ \cup {"timeline"}]
          \/ Fails /\ linked = {} /\ store' \in {store, [store EXCEPT ![Job] = @ \cup {"timeline"}]}
       /\ \/ /\ ~cur.timed /\ cur.status # "failed"
             /\ NextJob
          \/ /\ cur.timed \/ cur.status = "failed"
             /\ at' = "artifacts" /\ left' = Wanted(cur.status) /\ links' = linked
             /\ UNCHANGED <<cur, todo, redis, errors>>
  /\ UNCHANGED <<machine, initial, row, releases, index, reports, conn>>

\* slip: the link is noted before the response is looked at.
Artifact_LinkedFirst(a) ==
  /\ at = "artifacts" /\ a \in left
  /\ \/ Works /\ store' = [store EXCEPT ![Job] = @ \cup {a}]
     \/ Fails /\ UNCHANGED store
  /\ links' = links \cup {a} /\ left' = left \ {a}
  /\ UNCHANGED <<at, cur, todo, redis, errors>>
  /\ UNCHANGED <<machine, initial, row, releases, index, reports, conn>>

\* One artifact: stored and linked, with what comes along, whose failures are
\* swallowed; skipped, when the machine does not answer 200; or its GET or upload
\* raises and the turn ends.
Artifact(a) ==
  /\ at = "artifacts" /\ a \in left
  /\ \/ /\ Works
        /\ \E extra \in SUBSET Extras :
             /\ store' = [store EXCEPT ![Job] = @ \cup {a} \cup extra]
             /\ links' = links \cup {a} \cup extra
        /\ left' = left \ {a}
        /\ UNCHANGED <<at, cur, todo, redis, errors>>
     \/ /\ Fails
        /\ left' = left \ {a}
        /\ UNCHANGED <<store, links, at, cur, todo, redis, errors>>
     \/ /\ Fails /\ NextJob
        /\ \E stored \in SUBSET ({a} \cup Extras) :
             store' = [store EXCEPT ![Job] = @ \cup stored]
  /\ UNCHANGED <<machine, initial, row, releases, index, reports, conn>>

Index_Early ==   \* slip: the page is made inside the loop over the artifacts
  /\ at = "artifacts"
  /\ \/ Works /\ index' = [index EXCEPT ![Job] = links] /\ Goto("report")
     \/ Fails /\ NextJob /\ index' \in {index, [index EXCEPT ![Job] = links]}
  /\ UNCHANGED <<machine, initial, row, releases, store, reports, conn>>

\* upload_links_html.
Index ==
  /\ at = "artifacts" /\ left = {}
  /\ \/ Works /\ index' = [index EXCEPT ![Job] = links] /\ Goto("report")
     \/ Fails /\ NextJob /\ index' \in {index, [index EXCEPT ![Job] = links]}
  /\ UNCHANGED <<machine, initial, row, releases, store, reports, conn>>

\* The terminal report, and the end of the row once the portal took it.
Report ==
  /\ \/ at = "report" /\ Put("post_report", "delete")
     \/ at = "post_report" /\ Post("delete")
  /\ UNCHANGED <<machine, initial, row, releases, objects>>

Delete ==
  /\ at = "delete" /\ Execute("deleted") /\ NextJob
  /\ UNCHANGED <<machine, initial, releases, objects, reports>>

\* The same for a status on the way.
TellInterim ==
  /\ \/ at = "tell" /\ Put("post_tell", "update")
     \/ at = "post_tell" /\ Post("update")
  /\ UNCHANGED <<machine, initial, row, releases, objects>>

Update ==
  /\ at = "update" /\ Execute(cur.status) /\ NextJob
  /\ UNCHANGED <<machine, initial, releases, objects, reports>>

\* The reporter dies, or is stopped, and is started again.
Crash ==
  /\ at # "down" /\ Fails
  /\ at' = "down" /\ todo' = {} /\ cur' = Nothing /\ left' = {} /\ links' = {}
  /\ redis' = FALSE /\ conn' = "ok" /\ errors' = 0
  /\ UNCHANGED <<machine, world>>

Restart ==
  /\ at = "down"
  /\ at' = "asleep" /\ errors' = 0
  /\ UNCHANGED <<machine, world, todo, cur, left, links, redis, conn, glitches>>

\* No SADD renewed the expiry of jobs:terminal:processed for three days, in which the
\* reporter was down, or the machine or Redis did not answer it.
Lapse ==
  /\ at \in {"asleep", "down"} /\ processed # {} /\ Fails
  /\ processed' = {} /\ lapses' = lapses + 1
  /\ UNCHANGED <<machine, initial, row, released, objects, reports, reporter>>

-----------------------------------------------------------------------------
Turn == \/ Mark \/ Give \/ Timeline \/ (\E a \in Artifacts : Artifact(a)) \/ Index
        \/ Report \/ Delete \/ TellInterim \/ Update
Cycle == StartCycle \/ EndCycle \/ Restart \/ (\E j \in Jobs : Pick(j)) \/ Turn

Others == \E j \in Jobs : \/ MachineRuns(j) \/ MachineEnds(j) \/ MachineStamps(j)
                          \/ MachineForgets(j) \/ LogJob(j) \/ InitialReport(j)

Next == Cycle \/ CycleFails \/ Crash \/ Lapse \/ Others

Spec == Init /\ [][Next]_vars

\* The reporter goes on: its loop runs for ever and the container restarts it.  The
\* machine, the gateway and the failures owe nothing.
FairSpec == Spec /\ WF_vars(Cycle)

-----------------------------------------------------------------------------
\* What MinIO should hold of a job that ended.
Belongings(j) == {"timeline"} \cup Wanted(machine[j].status)

\* Whatever crashes and failed calls come between the steps of a turn, a job's row is
\* gone only when the portal took the job's final status; all that can overwrite it
\* there is the gateway's first report, when the reporter overtook it.
ReportedBeforeDeleted ==
  \A j \in Jobs : row[j] = "deleted" => j \in took /\ portal[j] \in {machine[j].status, "submitted"}

\* What the reporter owes a job and leaves out for good, a link to one of its
\* artifacts or the release of its reservation, costs a failure each: a job whose
\* row is gone lacks no more than the calls that failed.
OmissionsCostFailures ==
  \A j \in Jobs : row[j] = "deleted" =>
    Cardinality(Belongings(j) \ index[j]) + (IF released[j] = 0 THEN 1 ELSE 0) <= glitches

\* The page the portal links to, rewritten in every cycle that comes so far, never
\* links to an object of the job that MinIO does not have.
LinksResolve == \A j \in Jobs : index[j] \subseteq store[j]

\* The reservation of a job is released once, and only when the job ended, although
\* the same job comes back cycle after cycle, with crashes between and around the
\* SADD and the release; each time the set that remembers the releases expires, a job
\* whose row is still there may be released once more.
ReleasedOnce ==
  \A j \in Jobs :
    /\ released[j] <= 1 + lapses
    /\ released[j] > 0 => machine[j].status \in Terminal

\* The reporter, the gateway and the machine together do no more to a job than the
\* life it is promised: it is released and told only between its end and the end of
\* its row, the row goes only after the portal was told, and then nothing follows.
Life == INSTANCE JobLifecycle WITH
  logged    <- {j \in Jobs : row[j] # "none"},
  ended     <- {j \in Jobs : machine[j].status \in Terminal},
  freed     <- released,
  forgotten <- lapses,
  told      <- took,
  dropped   <- {j \in Jobs : row[j] = "deleted"}

LivesAsPromised == Life!LifeSpec

Progress(s) ==
  CASE s = "none" -> 0 [] s = "submitted" -> 1 [] s = "waiting" -> 2 [] s = "running" -> 3
    [] OTHER -> 4

\* The reporter never takes a job back at the portal to a status it was past, although
\* it reports again what was refused or what it could not write down.
PortalForward ==
  [][\A j \in Jobs : \/ Progress(portal[j]) <= Progress(portal'[j])
                     \/ initial[j] = "due" /\ portal'[j] = "submitted"]_vars

\* Once failures cease, every job with a row that the machine ended, with both
\* timestamps or as failed, is reported and its row dropped, whatever becomes of the
\* jobs around it; unless the machine forgets it first.
ReportedInTheEnd ==
  \A j \in Jobs :
    /\ row[j] # "none"
    /\ machine[j].status = "failed" \/ (machine[j].status \in Terminal /\ machine[j].timed)
    ~> row[j] = "deleted" \/ ~machine[j].known

\* job_reporter.py:23, "network/storage errors are logged and do not cause permanent
\* data loss": the row, from which alone the job is done again, outlives every
\* artifact that is not stored yet.
NoResultLost == \A j \in Jobs : row[j] = "deleted" => Belongings(j) \subseteq store[j]

\* job_reporter.py:18, "For terminal jobs: upload artifacts, timeline and payload to
\* MinIO and send job reports": every job that ended, not only one that was executed.
EveryTerminalJobReported ==
  \A j \in Jobs :
    row[j] # "none" /\ machine[j].status \in Terminal
    ~> row[j] = "deleted" \/ ~machine[j].known
=============================================================================

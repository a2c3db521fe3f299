------------------------- MODULE CalibrationPoller -------------------------
(***************************************************************************)
(* The calibration poller: one process that asks the machine for its       *)
(* calibration runs, copies the reports of the finished ones to MinIO,     *)
(* records each in calibration_runs_processed and publishes, from that     *)
(* table, an index as JSON and as a page.  One step per call to another    *)
(* service; the machine and an operator who tidies up move beside it.      *)
(***************************************************************************)
EXTENDS Naturals, FiniteSets

CONSTANTS
  Runs,        \* the calibration runs of the machine
  SetOf,       \* the calibration set of each run, which names its report
  Old,         \* runs whose rows were written before dates were kept
  RetryAfter,  \* RETRY_AFTER
  Interval,    \* CALIBRATION_POLL_INTERVAL
  MaxGlitches  \* bound: how many calls to other services, or processes, fail, and how
               \* many rows and reports an operator deletes by hand

Sets == {SetOf[r] : r \in Runs}

ASSUME RunsFinite    == IsFiniteSet(Runs) /\ DOMAIN SetOf = Runs /\ Old \subseteq Runs
ASSUME PacePositive  == RetryAfter \in Nat \ {0} /\ Interval \in Nat \ {0}
ASSUME BoundNatural  == MaxGlitches \in Nat

VARIABLES
  machine,    \* what the machine says of each run
  table,      \* its row in calibration_runs_processed: "none", "undated" or "dated"
  store,      \* the calibration sets whose report is in MinIO
  json,       \* the entries of index.json
  page,       \* the entries of index.html
  at,         \* what the poller does next
  processed,  \* the rows as the poll found them, until it has a plan
  undated,    \* to_backfill still to do
  new,        \* to_fetch still to do
  hand,       \* the run whose report is being copied, if any
  timed,      \* the runs of the plan whose listing carries a time
  manifest,   \* the index being published
  retry,      \* the wait after the next failure
  wait,       \* the wait decided for now
  last,       \* how the last poll ended, while it waits
  failures,   \* history: failed polls, refused ones apart, since one succeeded
  lost,       \* history: the reports deleted by hand and not stored again
  glitches    \* failures so far

archive  == <<table, store, json, page>>
plan     == <<processed, undated, new, hand, timed, manifest>>
pace     == <<retry, wait, last, failures>>
vars     == <<machine, archive, at, plan, pace, lost, glitches>>

-----------------------------------------------------------------------------
Entries == [run : Runs, approximate : BOOLEAN]

\* What the machine's listing says of a run: nothing once it "left" or before it began;
\* that it is "ready", with success and a set, or "listed" in any other state; and
\* whether with a time.  The machine serves its report or not.
Says == {m \in [status : {"left", "listed", "ready"}, dated : BOOLEAN, served : BOOLEAN] :
           (m.dated => m.status # "left") /\ (m.served => m.status = "ready")}

Rows    == [Runs -> {"none", "undated", "dated"}]
Steps   == {"bucket", "select", "list", "backfill", "fetch", "index", "json", "page",
            "store", "insert", "waiting", "down"}

TypeOK ==
  /\ machine \in [Runs -> Says]
  /\ table \in Rows /\ processed \in Rows
  /\ store \subseteq Sets
  /\ json \subseteq Entries /\ page \subseteq Entries /\ manifest \subseteq Entries
  /\ at \in Steps
  /\ undated \subseteq Runs /\ new \subseteq Runs
  /\ hand \subseteq Runs /\ timed \subseteq Runs
  /\ retry \in Nat \ {0} /\ wait \in 1..Interval /\ failures \in 0..MaxGlitches
  /\ last \in {"ok", "failed", "refused"}
  /\ lost \subseteq Sets
  /\ glitches \in 0..MaxGlitches

Init ==
  /\ machine = [r \in Runs |-> IF r \in Old
                  THEN [status |-> "ready", dated |-> TRUE, served |-> TRUE]
                  ELSE [status |-> "left", dated |-> FALSE, served |-> FALSE]]
  /\ table = [r \in Runs |-> IF r \in Old THEN "undated" ELSE "none"]
  /\ store = {SetOf[r] : r \in Old}
  /\ json = {} /\ page = {}
  /\ at = "bucket"
  /\ processed = [r \in Runs |-> "none"]
  /\ undated = {} /\ new = {} /\ hand = {} /\ timed = {} /\ manifest = {}
  /\ retry = RetryAfter /\ wait = Interval /\ last = "ok" /\ failures = 0
  /\ lost = {}
  /\ glitches = 0

-----------------------------------------------------------------------------
\* Helpers: a call that works or fails, the smaller of two waits.
Works == UNCHANGED glitches
Fails == glitches < MaxGlitches /\ glitches' = glitches + 1
Least(m, n) == IF m <= n THEN m ELSE n
NoPlan == /\ processed' = [r \in Runs |-> "none"]
          /\ undated' = {} /\ new' = {} /\ hand' = {} /\ timed' = {} /\ manifest' = {}

Rest_DoublesFirst(outcome) ==   \* slip: the wait is doubled before it is used
  /\ at' = "waiting" /\ last' = outcome /\ NoPlan
  /\ CASE outcome = "ok" -> retry' = RetryAfter /\ wait' = Interval /\ failures' = 0
       [] outcome = "refused" -> wait' = Interval /\ UNCHANGED <<retry, failures>>
       [] outcome = "failed" ->
            /\ retry' = Least(2 * retry, Interval) /\ wait' = retry'
            /\ failures' = failures + 1

Rest_Uncapped(outcome) ==   \* slip: the wait is not held to the interval
  /\ at' = "waiting" /\ last' = outcome /\ NoPlan
  /\ CASE outcome = "ok" -> retry' = RetryAfter /\ wait' = Interval /\ failures' = 0
       [] outcome = "refused" -> wait' = Interval /\ UNCHANGED <<retry, failures>>
       [] outcome = "failed" ->
            /\ wait' = retry /\ retry' = 2 * retry
            /\ failures' = failures + 1

\* The end of a poll: the wait until the next.  A failure shortens it, and each one
\* more doubles it up to the interval; a refused credential leaves the pace alone.
Rest(outcome) ==
  /\ at' = "waiting" /\ last' = outcome /\ NoPlan
  /\ CASE outcome = "ok" -> retry' = RetryAfter /\ wait' = Interval /\ failures' = 0
       [] outcome = "refused" -> wait' = Interval /\ UNCHANGED <<retry, failures>>
       [] outcome = "failed" ->
            /\ wait' = Least(retry, Interval) /\ retry' = Least(2 * retry, Interval)
            /\ failures' = failures + 1

\* The poll goes on with the next call.
Goto(step) == at' = step /\ UNCHANGED pace

-----------------------------------------------------------------------------
\* The machine: what it says of a run changes between two polls and during one.  And an
\* operator tidies up.
RunChanges(r) ==
  /\ \E m \in Says \ {machine[r]} : machine' = [machine EXCEPT ![r] = m]
  /\ UNCHANGED <<archive, at, plan, pace, lost, glitches>>

DropRow(r) ==
  /\ table[r] # "none" /\ Fails
  /\ table' = [table EXCEPT ![r] = "none"]
  /\ UNCHANGED <<machine, store, json, page, at, plan, pace, lost>>

DropReport(s) ==
  /\ s \in store /\ Fails
  /\ store' = store \ {s}
  /\ lost' = lost \cup {s}
  /\ UNCHANGED <<machine, table, json, page, at, plan, pace>>

-----------------------------------------------------------------------------
\* ensure_bucket, before anything is downloaded; init_db and the SELECT; each ends
\* the poll when it fails.
Wake ==
  /\ at = "waiting"
  /\ at' = "bucket"
  /\ wait' = Interval /\ last' = "ok" /\ UNCHANGED <<retry, failures>>
  /\ UNCHANGED <<machine, archive, plan, lost, glitches>>

Bucket ==
  /\ at = "bucket"
  /\ \/ Works /\ Goto("select") /\ UNCHANGED plan
     \/ Fails /\ Rest("failed")
  /\ UNCHANGED <<machine, archive, lost>>

Select ==
  /\ at = "select"
  /\ \/ /\ Works /\ Goto("list")
        /\ processed' = table /\ UNCHANGED <<undated, new, hand, timed, manifest>>
     \/ Fails /\ Rest("failed")
  /\ UNCHANGED <<machine, archive, lost>>

\* What plan_runs looks at: a run with a row is dated whatever its state, one without
\* is fetched when it is ready.
Listed == {r \in Runs : machine[r].status # "left"}
Ready  == {r \in Runs : machine[r].status = "ready"}

\* slip: the rows without a date are not told from those with one.
List_BackfillsAll ==
  /\ at = "list"
  /\ \/ /\ Works /\ Goto("backfill")
        /\ undated' = {r \in Listed : processed[r] # "none"}
        /\ new' = {r \in Ready : processed[r] = "none"}
        /\ timed' = {r \in undated' \cup new' : machine[r].dated}
        /\ processed' = [r \in Runs |-> "none"] /\ UNCHANGED <<hand, manifest>>
     \/ Fails /\ \E outcome \in {"failed", "refused"} : Rest(outcome)
  /\ UNCHANGED <<machine, archive, lost>>

\* slip: the rows are not looked at.
List_FetchesAll ==
  /\ at = "list"
  /\ \/ /\ Works /\ Goto("backfill")
        /\ undated' = {r \in Listed : processed[r] = "undated"}
        /\ new' = Ready
        /\ timed' = {r \in undated' \cup new' : machine[r].dated}
        /\ processed' = [r \in Runs |-> "none"] /\ UNCHANGED <<hand, manifest>>
     \/ Fails /\ \E outcome \in {"failed", "refused"} : Rest(outcome)
  /\ UNCHANGED <<machine, archive, lost>>

\* slip: the index is left alone when nothing is new.
List_SkipsIdle ==
  /\ at = "list"
  /\ \/ /\ Works
        /\ undated' = {r \in Listed : processed[r] = "undated"}
        /\ new' = {r \in Ready : processed[r] = "none"}
        /\ timed' = {r \in undated' \cup new' : machine[r].dated}
        /\ processed' = [r \in Runs |-> "none"] /\ UNCHANGED <<hand, manifest>>
        /\ IF undated' \cup new' = {}
             THEN /\ at' = "waiting" /\ last' = "ok"
                  /\ retry' = RetryAfter /\ wait' = Interval /\ failures' = 0
             ELSE Goto("backfill")
     \/ Fails /\ \E outcome \in {"failed", "refused"} : Rest(outcome)
  /\ UNCHANGED <<machine, archive, lost>>

\* The machine's listing, and plan_runs; or the machine refuses the credential, or
\* fails otherwise.
List ==
  /\ at = "list"
  /\ \/ /\ Works /\ Goto("backfill")
        /\ undated' = {r \in Listed : processed[r] = "undated"}
        /\ new' = {r \in Ready : processed[r] = "none"}
        /\ timed' = {r \in undated' \cup new' : machine[r].dated}
        /\ processed' = [r \in Runs |-> "none"] /\ UNCHANGED <<hand, manifest>>
     \/ Fails /\ \E outcome \in {"failed", "refused"} : Rest(outcome)
  /\ UNCHANGED <<machine, archive, lost>>

\* A step over one run that is passed over when it fails: the except of _backfill and
\* of _fetch_report, whose rollback ends the poll when it fails as well.
Over(step, undatedLeft, newLeft) ==
  /\ at' = step /\ undated' = undatedLeft /\ new' = newLeft /\ hand' = {}
  /\ UNCHANGED <<processed, timed, manifest, pace>>

PassedOver(step, undatedLeft, newLeft) ==
  Fails /\ (Over(step, undatedLeft, newLeft) \/ Rest("failed"))

\* _backfill: an UPDATE of the row, with the time the listing gives or none.
Placed(r) == IF r \in timed THEN "dated" ELSE "undated"

Backfill(r) ==
  /\ at = "backfill" /\ r \in undated
  /\ LET updated == [table EXCEPT ![r] = IF @ = "none" THEN @ ELSE Placed(r)]
     IN \/ /\ Works /\ table' = updated
           /\ Over("backfill", undated \ {r}, new)
        \/ /\ PassedOver("backfill", undated \ {r}, new)
           /\ table' \in {table, updated}
  /\ UNCHANGED <<machine, store, json, page, lost>>

Backfilled ==
  /\ at = "backfill" /\ undated = {}
  /\ Goto("fetch")
  /\ UNCHANGED <<machine, archive, plan, lost, glitches>>

\* _fetch_report: the report is downloaded, or the machine does not serve it; it is
\* stored; and only then the run is recorded.
Fetch(r) ==
  /\ at = "fetch" /\ r \in new
  /\ \/ /\ Works /\ machine[r].served
        /\ Goto("store") /\ hand' = {r}
        /\ UNCHANGED <<processed, undated, new, timed, manifest>>
     \/ /\ Works /\ ~machine[r].served
        /\ Over("fetch", undated, new \ {r})
     \/ PassedOver("fetch", undated, new \ {r})
  /\ UNCHANGED <<machine, archive, lost>>

Store_Swallows(r) ==   \* slip: a failed upload is logged and the run recorded
  /\ at = "store" /\ r \in hand
  /\ \/ /\ Works
        /\ store' = store \cup {SetOf[r]} /\ lost' = lost \ {SetOf[r]}
     \/ Fails /\ UNCHANGED <<store, lost>>
  /\ Goto("insert")
  /\ UNCHANGED <<machine, table, json, page, plan>>

Store(r) ==
  /\ at = "store" /\ r \in hand
  /\ \/ /\ Works
        /\ store' = store \cup {SetOf[r]}
        /\ lost' = lost \ {SetOf[r]}
        /\ Goto("insert") /\ UNCHANGED plan
     \/ /\ PassedOver("fetch", undated, new \ {r})
        /\ \/ UNCHANGED <<store, lost>>
           \/ /\ store' = store \cup {SetOf[r]}
              /\ lost' = lost \ {SetOf[r]}
  /\ UNCHANGED <<machine, table, json, page>>

Insert(r) ==
  /\ at = "insert" /\ r \in hand
  /\ LET inserted == [table EXCEPT ![r] = IF @ = "none" THEN Placed(r) ELSE @]
     IN \/ /\ Works /\ table' = inserted
           /\ Over("fetch", undated, new \ {r})
        \/ /\ PassedOver("fetch", undated, new \ {r})
           /\ table' \in {table, inserted}
  /\ UNCHANGED <<machine, store, json, page, lost>>

Fetched ==
  /\ at = "fetch" /\ new = {}
  /\ Goto("index")
  /\ UNCHANGED <<machine, archive, plan, lost, glitches>>

\* publish_index: the table is read, index.json written and then index.html.
Manifest == {[run |-> r, approximate |-> table[r] = "undated"] :
               r \in {q \in Runs : table[q] # "none"}}

Index ==
  /\ at = "index"
  /\ \/ /\ Works /\ Goto("json")
        /\ manifest' = Manifest /\ UNCHANGED <<processed, undated, new, hand, timed>>
     \/ Fails /\ Rest("failed")
  /\ UNCHANGED <<machine, archive, lost>>

Json ==
  /\ at = "json"
  /\ \/ Works /\ json' = manifest /\ Goto("page") /\ UNCHANGED plan
     \/ Fails /\ json' \in {json, manifest} /\ Rest("failed")
  /\ UNCHANGED <<machine, table, store, page, lost>>

Page ==
  /\ at = "page"
  /\ \/ Works /\ page' = manifest /\ Rest("ok")
     \/ Fails /\ page' \in {page, manifest} /\ Rest("failed")
  /\ UNCHANGED <<machine, table, store, json, lost>>

\* The container dies, or is stopped, and is started again: it polls at once.
Crash ==
  /\ at # "down" /\ Fails
  /\ at' = "down" /\ NoPlan
  /\ UNCHANGED <<machine, archive, pace, lost>>

Restart ==
  /\ at = "down"
  /\ at' = "bucket"
  /\ retry' = RetryAfter /\ wait' = Interval /\ last' = "ok" /\ failures' = 0
  /\ UNCHANGED <<machine, archive, plan, lost, glitches>>

-----------------------------------------------------------------------------
Poll == \/ Wake \/ Bucket \/ Select \/ List \/ Backfilled \/ Fetched
        \/ (\E r \in Runs : Backfill(r) \/ Fetch(r) \/ Store(r) \/ Insert(r))
        \/ Index \/ Json \/ Page \/ Restart

Others == \/ \E r \in Runs : RunChanges(r) \/ DropRow(r)
          \/ \E s \in Sets : DropReport(s)

Next == Poll \/ Crash \/ Others

Spec == Init /\ [][Next]_vars

\* The loop goes on and the container is restarted; nobody else owes anything.
FairSpec == Spec /\ WF_vars(Poll)

-----------------------------------------------------------------------------
\* A run is recorded, and listed for download, only once its report is in the store:
\* whatever call fails or comes to nothing in between, no link of either index is dead
\* and no report is taken for done that is not there, unless it was deleted by hand:
\* what becomes of that one is DeletedComesBack.
RecordedIsStored ==
  /\ \A r \in Runs : table[r] # "none" => SetOf[r] \in store \cup lost
  /\ \A e \in json \cup page : SetOf[e.run] \in store \cup lost

\* publish_index says of both indexes that they "can never drift from what is actually
\* stored, and a hand-deleted report comes back correct on the next poll": of a run that
\* stays ready, served and dated, a deleted report is stored again, or is listed no more.
DeletedComesBack ==
  \A r \in Runs :
    <>[](machine[r] = [status |-> "ready", dated |-> TRUE, served |-> TRUE])
    => (SetOf[r] \in lost ~> SetOf[r] \in store \/ \A e \in json : e.run # r)

\* A report, several MB, is fetched for a run that has no row and for no other, though
\* its run is listed in every poll, rows are written between the SELECT and the
\* download, and a poll may end anywhere.
FetchedIsNew == \A r \in new \cup hand : table[r] = "none"

\* A date once known stays, even when the machine's listing no longer carries it.
DatesKept ==
  [][\A r \in Runs : table[r] = "dated" => table'[r] # "undated"]_vars

\* The wait that n failures in a row lead to, were there no bound.
Doubled[n \in 0..MaxGlitches] == IF n = 0 THEN RetryAfter ELSE 2 * Doubled[n - 1]

\* calibration_poller.py:74, "first after this many seconds, then doubling up to the
\* interval itself": the wait after a failure, by the failures since a poll succeeded,
\* however refused polls and restarts come between.
Backoff ==
  at = "waiting" =>
    wait = IF last = "failed" THEN Least(Doubled[failures - 1], Interval) ELSE Interval

\* Once failures cease, a run that stays finished, served and dated is for good in both
\* indexes, under its own date; a run recorded without one gets it.
PublishedInTheEnd ==
  \A r \in Runs :
    <>[](machine[r] = [status |-> "ready", dated |-> TRUE, served |-> TRUE])
    => <>[]([run |-> r, approximate |-> FALSE] \in json \cap page)
=============================================================================

---------------------- MODULE CalibrationPollerProofs ----------------------
(***************************************************************************)
(* What the calibration poller keeps, for any runs and any number of       *)
(* failures and deletions: no run is recorded before its report is stored, *)
(* none is fetched again, no date is lost, and the wait between two polls  *)
(* doubles with each failure up to the interval.                           *)
(***************************************************************************)
EXTENDS CalibrationPoller, DataInduction, TLAPS

\* Each failed poll is one of the failures.
Counted == failures <= glitches

\* The plan, made from rows read before the listing, still fits the table: what is to be
\* fetched has no row, and what is to be dated has no date.
PlanInv ==
  /\ FetchedIsNew
  /\ \A r \in undated : table[r] # "dated"
  /\ at = "list" => \A r \in Runs : table[r] \in {"none", processed[r]}
  /\ at \in {"fetch", "store", "insert"} => undated = {}

\* What is about to be recorded, or published, is stored.
StoredInv ==
  /\ RecordedIsStored
  /\ \A e \in manifest : SetOf[e.run] \in store \cup lost
  /\ at \in {"store", "insert"} => \A q, r \in hand : q = r
  /\ at = "insert" => \A r \in hand : SetOf[r] \in store \cup lost

USE DEF archive, plan, pace

-----------------------------------------------------------------------------
\* The steps by which a poll ends, whatever its outcome.
LEMMA RestDoes ==
  ASSUME TypeOK, Counted, NEW o \in {"ok", "failed", "refused"}, Rest(o),
         o = "failed" => Fails
  PROVE  /\ retry' \in Nat \ {0} /\ wait' \in 1..Interval /\ last' = o
         /\ failures' \in 0..MaxGlitches
         /\ failures' = 0 \/ failures' = failures \/ (failures' = failures + 1 /\ o = "failed")
         /\ at' = "waiting" /\ NoPlan
<1> USE PacePositive, BoundNatural DEF TypeOK, Counted
<1>1. CASE o = "ok"
  BY <1>1 DEF Rest
<1>2. CASE o = "refused"
  BY <1>2 DEF Rest
<1>3. CASE o = "failed"
  <2>1. /\ wait' = Least(retry, Interval) /\ retry' = Least(2 * retry, Interval)
        /\ failures' = failures + 1 /\ last' = o /\ at' = "waiting" /\ NoPlan
    BY <1>3 DEF Rest
  <2>2. /\ Least(retry, Interval) \in 1..Interval
        /\ Least(2 * retry, Interval) \in Nat \ {0}
    BY DEF Least
  <2>3. failures + 1 \in 0..MaxGlitches
    BY <1>3 DEF Fails
  <2>4. QED
    BY <1>3, <2>1, <2>2, <2>3
<1>4. QED
  BY <1>1, <1>2, <1>3

\* A poll that ends in a step keeps the types and the count of what it writes.
LEMMA RestTyped ==
  ASSUME TypeOK, Counted, NEW o \in {"ok", "failed", "refused"}, Rest(o),
         o = "failed" => Fails, Works \/ Fails
  PROVE  /\ retry' \in Nat \ {0} /\ wait' \in 1..Interval
         /\ last' \in {"ok", "failed", "refused"}
         /\ failures' \in 0..MaxGlitches /\ glitches' \in 0..MaxGlitches /\ Counted'
         /\ processed' \in Rows /\ at' \in Steps
         /\ undated' = {} /\ new' = {} /\ hand' = {} /\ timed' = {} /\ manifest' = {}
<1>1. /\ retry' \in Nat \ {0} /\ wait' \in 1..Interval /\ last' = o
      /\ failures' \in 0..MaxGlitches
      /\ failures' = 0 \/ failures' = failures \/ (failures' = failures + 1 /\ o = "failed")
      /\ at' = "waiting" /\ NoPlan
  BY RestDoes
<1>2. glitches' \in 0..MaxGlitches /\ glitches <= glitches'
  BY BoundNatural DEF Works, Fails, TypeOK
<1>3. Counted'
  BY <1>1, <1>2, BoundNatural DEF Counted, Fails, TypeOK
<1>4. processed' \in Rows /\ at' \in Steps
  BY <1>1 DEF NoPlan, Rows, Steps
<1>5. QED
  BY <1>1, <1>2, <1>3, <1>4 DEF NoPlan

\* Passing a run over keeps what it writes in order, too.
LEMMA PassedTyped ==
  ASSUME TypeOK, Counted, NEW step \in Steps, NEW u \in SUBSET Runs, NEW n \in SUBSET Runs,
         PassedOver(step, u, n)
  PROVE  /\ retry' \in Nat \ {0} /\ wait' \in 1..Interval
         /\ last' \in {"ok", "failed", "refused"}
         /\ failures' \in 0..MaxGlitches /\ glitches' \in 0..MaxGlitches /\ Counted'
         /\ processed' \in Rows /\ at' \in Steps
         /\ undated' \subseteq u /\ new' \subseteq n /\ hand' = {}
         /\ timed' \subseteq timed /\ manifest' \subseteq manifest
         /\ at' = step \/ at' = "waiting"
<1>1. Fails /\ glitches' \in 0..MaxGlitches
  BY BoundNatural DEF PassedOver, Fails, TypeOK
<1>2. CASE Over(step, u, n)
  BY <1>1, <1>2, BoundNatural DEF Over, Fails, TypeOK, Counted
<1>3. CASE Rest("failed")
  <2>1. at' = "waiting"
    BY <1>3 DEF Rest
  <2>2. QED
    BY <1>1, <1>3, <2>1, RestTyped
<1>4. QED
  BY <1>2, <1>3 DEF PassedOver

-----------------------------------------------------------------------------
\* Type correctness.
LEMMA TypeOthers ==
  ASSUME TypeOK, Counted, Others
  PROVE  TypeOK' /\ Counted'
<1> USE DEF TypeOK, Counted, Rows
<1>1. ASSUME NEW r \in Runs, RunChanges(r)
      PROVE  TypeOK' /\ Counted'
  <2>1. machine' \in [Runs -> Says]
    BY <1>1 DEF RunChanges
  <2>2. UNCHANGED <<archive, at, plan, pace, lost, glitches>>
    BY <1>1 DEF RunChanges
  <2>3. QED
    BY <2>1, <2>2
<1>2. ASSUME NEW r \in Runs, DropRow(r)
      PROVE  TypeOK' /\ Counted'
  BY <1>2, BoundNatural DEF DropRow, Fails
<1>3. ASSUME NEW s \in Sets, DropReport(s)
      PROVE  TypeOK' /\ Counted'
  BY <1>3, BoundNatural DEF DropReport, Fails
<1>4. QED
  BY <1>1, <1>2, <1>3 DEF Others

LEMMA TypeRun ==
  ASSUME TypeOK, Counted, NEW r \in Runs,
         Backfill(r) \/ Fetch(r) \/ Store(r) \/ Insert(r)
  PROVE  TypeOK' /\ Counted'
<1> USE DEF TypeOK, Rows
<1>1. machine' = machine /\ json' = json /\ page' = page
  BY DEF Backfill, Fetch, Store, Insert
<1>2. table' \in Rows
  <2>1. Placed(r) \in {"undated", "dated"}
    BY DEF Placed
  <2>2. CASE Backfill(r)
    BY <2>1, <2>2 DEF Backfill
  <2>3. CASE Insert(r)
    BY <2>1, <2>3 DEF Insert
  <2>4. CASE Fetch(r) \/ Store(r)
    BY <2>4 DEF Fetch, Store
  <2>5. QED
    BY <2>2, <2>3, <2>4
<1>3. store' \subseteq Sets /\ lost' \subseteq Sets
  <2>1. SetOf[r] \in Sets
    BY DEF Sets
  <2>2. store' \subseteq store \cup {SetOf[r]} /\ lost' \subseteq lost
    <3>1. CASE Store(r)
      BY <3>1 DEF Store
    <3>2. CASE Backfill(r) \/ Fetch(r) \/ Insert(r)
      BY <3>2 DEF Backfill, Fetch, Insert
    <3>3. QED
      BY <3>1, <3>2
  <2>3. QED
    BY <2>1, <2>2
<1>4. /\ retry' \in Nat \ {0} /\ wait' \in 1..Interval
      /\ last' \in {"ok", "failed", "refused"}
      /\ failures' \in 0..MaxGlitches /\ glitches' \in 0..MaxGlitches /\ Counted'
      /\ processed' \in Rows /\ at' \in Steps
      /\ undated' \subseteq Runs /\ new' \subseteq Runs /\ hand' \subseteq Runs
      /\ timed' \subseteq Runs /\ manifest' \subseteq Entries
  <2>1. /\ "backfill" \in Steps /\ "fetch" \in Steps /\ "insert" \in Steps /\ "store" \in Steps
        /\ undated \ {r} \in SUBSET Runs /\ new \ {r} \in SUBSET Runs
        /\ undated \in SUBSET Runs /\ new \in SUBSET Runs
    BY DEF Steps
  <2>2. CASE \/ PassedOver("backfill", undated \ {r}, new)
             \/ PassedOver("fetch", undated, new \ {r})
    <3>1. CASE PassedOver("backfill", undated \ {r}, new)
      <4>1. /\ retry' \in Nat \ {0} /\ wait' \in 1..Interval
            /\ last' \in {"ok", "failed", "refused"}
            /\ failures' \in 0..MaxGlitches /\ glitches' \in 0..MaxGlitches /\ Counted'
            /\ processed' \in Rows /\ at' \in Steps
        BY <2>1, <3>1, PassedTyped
      <4>2. /\ undated' \subseteq undated \ {r} /\ new' \subseteq new /\ hand' = {}
            /\ timed' \subseteq timed /\ manifest' \subseteq manifest
        BY <2>1, <3>1, PassedTyped
      <4>3. QED
        BY <4>1, <4>2
    <3>2. CASE PassedOver("fetch", undated, new \ {r})
      <4>1. /\ retry' \in Nat \ {0} /\ wait' \in 1..Interval
            /\ last' \in {"ok", "failed", "refused"}
            /\ failures' \in 0..MaxGlitches /\ glitches' \in 0..MaxGlitches /\ Counted'
            /\ processed' \in Rows /\ at' \in Steps
        BY <2>1, <3>2, PassedTyped
      <4>2. /\ undated' \subseteq undated /\ new' \subseteq new \ {r} /\ hand' = {}
            /\ timed' \subseteq timed /\ manifest' \subseteq manifest
        <5>1. CASE Over("fetch", undated, new \ {r})
          BY <5>1 DEF Over
        <5>2. CASE Rest("failed")
          BY <5>2 DEF Rest, NoPlan
        <5>3. QED
          BY <3>2, <5>1, <5>2 DEF PassedOver
      <4>3. QED
        BY <4>1, <4>2
    <3>3. QED
      BY <2>2, <3>1, <3>2
  <2>3. CASE /\ Works
             /\ \/ Over("backfill", undated \ {r}, new)
                \/ Over("fetch", undated, new \ {r})
    BY <2>1, <2>3 DEF Works, Over, Counted
  <2>4. CASE /\ Works /\ Goto("store") /\ hand' = {r}
             /\ UNCHANGED <<processed, undated, new, timed, manifest>>
    BY <2>1, <2>4 DEF Works, Goto, Counted
  <2>5. CASE Works /\ Goto("insert") /\ UNCHANGED plan
    BY <2>1, <2>5 DEF Works, Goto, Counted
  <2>6. QED
    BY <2>2, <2>3, <2>4, <2>5 DEF Backfill, Fetch, Store, Insert
<1>5. QED
  BY <1>1, <1>2, <1>3, <1>4

LEMMA TypePoll ==
  ASSUME TypeOK, Counted,
         \/ Wake \/ Bucket \/ Select \/ List \/ Backfilled \/ Fetched
         \/ Index \/ Json \/ Page \/ Restart \/ Crash
  PROVE  TypeOK' /\ Counted'
<1> USE BoundNatural, PacePositive DEF TypeOK, Rows, Steps
<1>1. Manifest \subseteq Entries
  <2>1. ASSUME NEW e \in Manifest
        PROVE  e \in Entries
    <3>1. PICK r \in Runs : e = [run |-> r, approximate |-> table[r] = "undated"]
      BY DEF Manifest
    <3>2. (table[r] = "undated") \in BOOLEAN
      OBVIOUS
    <3>3. QED
      BY <3>1, <3>2 DEF Entries
  <2>2. QED
    BY <2>1
<1>2. /\ machine' = machine /\ store' = store /\ lost' = lost /\ table' = table
      /\ json' \subseteq Entries /\ page' \subseteq Entries
  <2>1. CASE Json
    BY <2>1 DEF Json
  <2>2. CASE Page
    BY <2>2 DEF Page
  <2>3. QED
    BY <2>1, <2>2 DEF Wake, Bucket, Select, List, Backfilled, Fetched, Index, Restart, Crash
<1>3. CASE Wake \/ Backfilled \/ Fetched \/ Restart
  BY <1>2, <1>3 DEF Wake, Backfilled, Fetched, Restart, Goto, Counted
<1>4. CASE Crash
  BY <1>2, <1>4 DEF Crash, NoPlan, Fails, Counted
<1>5. CASE /\ Works
           /\ \E step \in Steps : Goto(step)
           /\ processed' \in Rows /\ hand' = hand
           /\ undated' \subseteq Runs /\ new' \subseteq Runs /\ timed' \subseteq Runs
           /\ manifest' \subseteq Entries
  BY <1>2, <1>5 DEF Works, Goto, Counted
<1>6. CASE \/ Fails /\ \E o \in {"failed", "refused"} : Rest(o)
           \/ Works /\ Rest("ok")
  <2>1. /\ retry' \in Nat \ {0} /\ wait' \in 1..Interval
        /\ last' \in {"ok", "failed", "refused"}
        /\ failures' \in 0..MaxGlitches /\ glitches' \in 0..MaxGlitches /\ Counted'
        /\ processed' \in Rows /\ at' \in Steps
        /\ undated' = {} /\ new' = {} /\ hand' = {} /\ timed' = {} /\ manifest' = {}
    BY <1>6, RestTyped
  <2>2. QED
    BY <1>2, <2>1
<1>7. CASE Bucket \/ Select \/ Index \/ Json
  BY <1>1, <1>5, <1>6, <1>7 DEF Bucket, Select, Index, Json
<1>8. CASE List
  <2>1. CASE Fails /\ \E o \in {"failed", "refused"} : Rest(o)
    BY <1>6, <2>1
  <2>2. CASE Works /\ Goto("backfill")
    <3>1. /\ processed' \in Rows /\ hand' = hand /\ manifest' = manifest
          /\ undated' \subseteq Runs /\ new' \subseteq Runs
          /\ timed' \subseteq undated' \cup new'
      BY <1>8, <2>2 DEF List, Ready, Listed, Rest, Goto
    <3>2. QED
      BY <1>5, <2>2, <3>1
  <2>3. QED
    BY <1>8, <2>1, <2>2 DEF List
<1>9. CASE Page
  BY <1>6, <1>9 DEF Page
<1>10. QED
  BY <1>3, <1>4, <1>7, <1>8, <1>9

LEMMA TypeStep == TypeOK /\ Counted /\ [Next]_vars => TypeOK' /\ Counted'
<1> SUFFICES ASSUME TypeOK, Counted, [Next]_vars
             PROVE  TypeOK' /\ Counted'
  OBVIOUS
<1>1. CASE UNCHANGED vars
  BY <1>1 DEF vars, TypeOK, Counted
<1>2. QED
  BY <1>1, TypeOthers, TypeRun, TypePoll DEF Next, Poll

-----------------------------------------------------------------------------
\* How a step leaves the plan: a poll that ends forgets it, and otherwise it only
\* shrinks, but for what the listing puts into it.
LEMMA RestForgets ==
  ASSUME NEW o, Rest(o)
  PROVE  /\ undated' = {} /\ new' = {} /\ hand' = {} /\ manifest' = {}
         /\ at' = "waiting"
BY DEF Rest, NoPlan

LEMMA PassedForgets ==
  ASSUME NEW step, NEW u, NEW n, PassedOver(step, u, n)
  PROVE  /\ hand' = {} /\ (at' = step \/ at' = "waiting")
         /\ (undated' = u /\ new' = n /\ manifest' = manifest)
            \/ (undated' = {} /\ new' = {} /\ manifest' = {})
<1>1. CASE Over(step, u, n)
  BY <1>1 DEF Over
<1>2. CASE Rest("failed")
  BY <1>2, RestForgets
<1>3. QED
  BY <1>1, <1>2 DEF PassedOver

\* What a step over a run leaves of the plan, and what it writes of that run.
LEMMA RunDoes ==
  ASSUME TypeOK, NEW r \in Runs, Backfill(r) \/ Fetch(r) \/ Store(r) \/ Insert(r)
  PROVE  /\ undated' \subseteq undated /\ new' \subseteq new
         /\ hand' \subseteq hand \cup {r}
         /\ manifest' \subseteq manifest
         /\ at' \in {"backfill", "fetch", "store", "insert", "waiting"}
         /\ \A q \in Runs \ {r} : table'[q] = table[q]
         /\ json' = json /\ page' = page
<1>1. CASE Backfill(r)
  <2>1. /\ hand' = {}
        /\ at' \in {"backfill", "waiting"}
        /\ undated' \subseteq undated /\ new' \subseteq new /\ manifest' \subseteq manifest
    <3>1. CASE Over("backfill", undated \ {r}, new)
      BY <3>1 DEF Over
    <3>2. CASE PassedOver("backfill", undated \ {r}, new)
      BY <3>2, PassedForgets
    <3>3. QED
      BY <1>1, <3>1, <3>2 DEF Backfill
  <2>2. QED
    BY <1>1, <2>1 DEF Backfill, TypeOK, Rows
<1>2. CASE Fetch(r) \/ Store(r) \/ Insert(r)
  <2>1. /\ hand' \subseteq hand \cup {r}
        /\ at' \in {"fetch", "store", "insert", "waiting"}
        /\ undated' \subseteq undated /\ new' \subseteq new /\ manifest' \subseteq manifest
    <3>1. CASE Over("fetch", undated, new \ {r})
      BY <3>1 DEF Over
    <3>2. CASE PassedOver("fetch", undated, new \ {r})
      BY <3>2, PassedForgets
    <3>3. CASE Goto("store") /\ hand' = {r} /\ UNCHANGED <<undated, new, manifest>>
      BY <3>3 DEF Goto
    <3>4. CASE Goto("insert") /\ UNCHANGED plan
      BY <3>4 DEF Goto
    <3>5. QED
      BY <1>2, <3>1, <3>2, <3>3, <3>4 DEF Fetch, Store, Insert
  <2>2. /\ json' = json /\ page' = page
        /\ \A q \in Runs \ {r} : table'[q] = table[q]
    <3>1. CASE Insert(r)
      BY <3>1 DEF Insert, TypeOK, Rows
    <3>2. CASE Fetch(r) \/ Store(r)
      BY <3>2 DEF Fetch, Store
    <3>3. QED
      BY <1>2, <3>1, <3>2
  <2>3. QED
    BY <2>1, <2>2
<1>3. QED
  BY <1>1, <1>2

-----------------------------------------------------------------------------
\* The plan keeps fitting the table, which only the poller's own steps and deletions
\* change; and the steps over a run leave no date behind.
DateKept == \A r \in Runs : table[r] = "dated" => table'[r] # "undated"

LEMMA PlanOthers ==
  ASSUME TypeOK, PlanInv, Others
  PROVE  PlanInv' /\ DateKept
<1>1. CASE \E r \in Runs : RunChanges(r)
  <2>1. UNCHANGED <<archive, at, plan>>
    BY <1>1 DEF RunChanges
  <2>2. QED
    BY <2>1 DEF PlanInv, FetchedIsNew, DateKept
<1>2. ASSUME NEW r \in Runs, DropRow(r)
      PROVE  PlanInv' /\ DateKept
  <2>1. /\ UNCHANGED <<at, plan>> /\ table' = [table EXCEPT ![r] = "none"]
    BY <1>2 DEF DropRow
  <2>2. \A q \in Runs : table'[q] = table[q] \/ table'[q] = "none"
    BY <2>1 DEF TypeOK, Rows
  <2>3. QED
    BY <2>1, <2>2 DEF PlanInv, FetchedIsNew, DateKept, TypeOK
<1>3. CASE \E s \in Sets : DropReport(s)
  <2>1. UNCHANGED <<table, at, plan>>
    BY <1>3 DEF DropReport
  <2>2. QED
    BY <2>1 DEF PlanInv, FetchedIsNew, DateKept
<1>4. QED
  BY <1>1, <1>2, <1>3 DEF Others

LEMMA PlanRun ==
  ASSUME TypeOK, PlanInv, NEW r \in Runs,
         Backfill(r) \/ Fetch(r) \/ Store(r) \/ Insert(r)
  PROVE  PlanInv' /\ DateKept
<1>1. /\ undated' \subseteq undated /\ new' \subseteq new
      /\ at' \in {"backfill", "fetch", "store", "insert", "waiting"}
      /\ \A q \in Runs \ {r} : table'[q] = table[q]
  BY RunDoes
<1>2. CASE Backfill(r)
  <2>1. /\ r \in undated /\ table[r] # "dated"
        /\ table[r] = "none" => table'[r] = "none"
        /\ at = "backfill"
    BY <1>2 DEF Backfill, PlanInv, TypeOK, Rows
  <2>2. r \notin undated' /\ hand' = {} /\ at' \in {"backfill", "waiting"}
    <3>1. CASE Over("backfill", undated \ {r}, new)
      BY <3>1 DEF Over
    <3>2. CASE PassedOver("backfill", undated \ {r}, new)
      BY <3>2, PassedForgets
    <3>3. QED
      BY <1>2, <3>1, <3>2 DEF Backfill
  <2>3. \A q \in undated' : q \in Runs \ {r} /\ table[q] # "dated"
    BY <1>1, <2>2 DEF PlanInv, TypeOK
  <2>4. FetchedIsNew' /\ DateKept
    BY <1>1, <2>1, <2>2 DEF PlanInv, FetchedIsNew, DateKept, TypeOK
  <2>5. QED
    BY <1>1, <2>2, <2>3, <2>4 DEF PlanInv
<1>3. CASE Fetch(r) \/ Store(r) \/ Insert(r)
  <2>1. undated' = {}
    BY <1>1, <1>3 DEF Fetch, Store, Insert, PlanInv
  <2>2. FetchedIsNew' /\ DateKept
    <3>1. CASE Fetch(r)
      <4>1. hand' \subseteq hand \cup new
        <5>1. CASE PassedOver("fetch", undated, new \ {r})
          BY <5>1, PassedForgets
        <5>2. QED
          BY <3>1, <5>1 DEF Fetch, Over
      <4>2. table' = table
        BY <3>1 DEF Fetch
      <4>3. QED
        BY <1>1, <4>1, <4>2 DEF PlanInv, FetchedIsNew, DateKept
    <3>2. CASE Store(r)
      <4>1. hand' \subseteq hand
        <5>1. CASE PassedOver("fetch", undated, new \ {r})
          BY <5>1, PassedForgets
        <5>2. QED
          BY <3>2, <5>1 DEF Store
      <4>2. table' = table
        BY <3>2 DEF Store
      <4>3. QED
        BY <1>1, <4>1, <4>2 DEF PlanInv, FetchedIsNew, DateKept
    <3>3. CASE Insert(r)
      <4>1. hand' = {} /\ r \notin new'
        <5>1. CASE PassedOver("fetch", undated, new \ {r})
          BY <5>1, PassedForgets
        <5>2. QED
          BY <3>3, <5>1 DEF Insert, Over
      <4>2. table[r] = "none"
        BY <3>3 DEF Insert, PlanInv, FetchedIsNew
      <4>3. QED
        BY <1>1, <4>1, <4>2 DEF PlanInv, FetchedIsNew, DateKept, TypeOK
    <3>4. QED
      BY <1>3, <3>1, <3>2, <3>3
  <2>3. QED
    BY <1>1, <2>1, <2>2 DEF PlanInv
<1>4. QED
  BY <1>2, <1>3

LEMMA PlanPoll ==
  ASSUME TypeOK, PlanInv,
         \/ Wake \/ Bucket \/ Select \/ List \/ Backfilled \/ Fetched
         \/ Index \/ Json \/ Page \/ Restart \/ Crash
  PROVE  PlanInv' /\ DateKept
<1>1. table' = table /\ DateKept
  BY DEF Wake, Bucket, Select, List, Backfilled, Fetched, Index, Json, Page, Restart, Crash,
         DateKept
<1>2. CASE (\E o : Rest(o)) \/ Crash
  <2>1. undated' = {} /\ new' = {} /\ hand' = {} /\ at' \in {"waiting", "down"}
    <3>1. CASE \E o : Rest(o)
      BY <3>1, RestForgets
    <3>2. CASE Crash
      BY <3>2 DEF Crash, NoPlan
    <3>3. QED
      BY <1>2, <3>1, <3>2
  <2>2. QED
    BY <1>1, <2>1 DEF PlanInv, FetchedIsNew
<1>3. CASE List /\ Goto("backfill")
  <2>1. /\ at = "list" /\ at' = "backfill" /\ hand' = hand
        /\ undated' = {r \in Listed : processed[r] = "undated"}
        /\ new' = {r \in Ready : processed[r] = "none"}
    BY <1>3 DEF List, Goto, Rest
  <2>2. \A r \in Runs : table[r] \in {"none", processed[r]}
    BY <2>1 DEF PlanInv
  <2>3. FetchedIsNew' /\ \A r \in undated' : table'[r] # "dated"
    BY <1>1, <2>1, <2>2 DEF PlanInv, FetchedIsNew, Ready, Listed
  <2>4. QED
    BY <1>1, <2>1, <2>3 DEF PlanInv
<1>4. CASE Select /\ Goto("list")
  <2>1. /\ at' = "list" /\ processed' = table /\ UNCHANGED <<undated, new, hand>>
    BY <1>4 DEF Select, Goto, Rest
  <2>2. QED
    BY <1>1, <2>1 DEF PlanInv, FetchedIsNew
<1>5. CASE Backfilled
  <2>1. at' = "fetch" /\ undated' = {} /\ UNCHANGED <<new, hand>>
    BY <1>5 DEF Backfilled, Goto
  <2>2. QED
    BY <1>1, <2>1 DEF PlanInv, FetchedIsNew
<1>6. CASE /\ UNCHANGED <<undated, new, hand>>
           /\ at' \notin {"list", "fetch", "store", "insert"}
  BY <1>1, <1>6 DEF PlanInv, FetchedIsNew
<1>7. QED
  BY <1>2, <1>3, <1>4, <1>5, <1>6
     DEF Wake, Bucket, Select, List, Fetched, Index, Json, Page, Restart, Goto

LEMMA PlanStep == TypeOK /\ PlanInv /\ [Next]_vars => PlanInv' /\ DateKept
<1> SUFFICES ASSUME TypeOK, PlanInv, [Next]_vars
             PROVE  PlanInv' /\ DateKept
  OBVIOUS
<1>1. CASE UNCHANGED vars
  BY <1>1 DEF vars, PlanInv, FetchedIsNew, DateKept
<1>2. QED
  BY <1>1, PlanOthers, PlanRun, PlanPoll DEF Next, Poll

-----------------------------------------------------------------------------
\* A report once stored is in the store, or was deleted by hand.
LEMMA ArchiveGrows ==
  ASSUME TypeOK, [Next]_vars
  PROVE  store \cup lost \subseteq store' \cup lost'
<1>1. CASE \E r \in Runs : Store(r)
  BY <1>1 DEF Store
<1>2. CASE \E s \in Sets : DropReport(s)
  BY <1>2 DEF DropReport
<1>3. CASE UNCHANGED <<store, lost>>
  BY <1>3
<1>4. QED
  BY <1>1, <1>2, <1>3
     DEF Next, Poll, Others, vars, Wake, Bucket, Select, List, Backfilled, Fetched, Index,
         Json, Page, Restart, Crash, Backfill, Fetch, Insert, RunChanges, DropRow

\* A step that records no run, publishes nothing new and takes nothing in hand.
LEMMA StoredKept ==
  ASSUME TypeOK, StoredInv, [Next]_vars,
         \A r \in Runs : table'[r] # "none" => table[r] # "none",
         json' \cup page' \subseteq json \cup page \cup manifest,
         manifest' \subseteq manifest,
         at' \in {"store", "insert"} => \A q, r \in hand' : q = r,
         at' = "insert" => \A r \in hand' : SetOf[r] \in store' \cup lost'
  PROVE  StoredInv'
<1>1. store \cup lost \subseteq store' \cup lost'
  BY ArchiveGrows
<1>2. \A r \in Runs : table'[r] # "none" => SetOf[r] \in store' \cup lost'
  BY <1>1 DEF StoredInv, RecordedIsStored
<1>3. \A e \in json' \cup page' \cup manifest' : SetOf[e.run] \in store' \cup lost'
  BY <1>1 DEF StoredInv, RecordedIsStored
<1>4. QED
  BY <1>2, <1>3 DEF StoredInv, RecordedIsStored

LEMMA StoredRun ==
  ASSUME TypeOK, StoredInv, [Next]_vars, NEW r \in Runs,
         Backfill(r) \/ Fetch(r) \/ Store(r) \/ Insert(r)
  PROVE  StoredInv'
<1>1. /\ json' = json /\ page' = page /\ manifest' \subseteq manifest
      /\ \A q \in Runs \ {r} : table'[q] = table[q]
  BY RunDoes
<1>2. store \cup lost \subseteq store' \cup lost'
  BY ArchiveGrows
<1>3. CASE Backfill(r)
  <2>1. table'[r] # "none" => table[r] # "none"
    BY <1>3 DEF Backfill, TypeOK, Rows
  <2>2. at' \in {"backfill", "waiting"}
    BY <1>3, PassedForgets DEF Backfill, Over
  <2>3. \A q \in Runs : table'[q] # "none" => table[q] # "none"
    BY <1>1, <2>1
  <2>4. QED
    BY <1>1, <2>2, <2>3, StoredKept
<1>4. CASE Fetch(r)
  <2>1. /\ table' = table
        /\ hand' = {r} \/ hand' = {}
        /\ at' \in {"store", "fetch", "waiting"}
    <3>1. CASE PassedOver("fetch", undated, new \ {r})
      BY <1>4, <3>1, PassedForgets DEF Fetch
    <3>2. QED
      BY <1>4, <3>1 DEF Fetch, Over, Goto
  <2>2. QED
    BY <1>1, <2>1, StoredKept
<1>5. CASE Store(r)
  <2>1. r \in hand /\ at = "store" /\ table' = table
    BY <1>5 DEF Store
  <2>2. \A q \in hand : q = r
    BY <2>1 DEF StoredInv
  <2>3. CASE PassedOver("fetch", undated, new \ {r})
    <3>1. hand' = {} /\ at' \in {"fetch", "waiting"}
      BY <2>3, PassedForgets
    <3>2. QED
      BY <1>1, <2>1, <3>1, StoredKept
  <2>4. CASE ~PassedOver("fetch", undated, new \ {r})
    <3>1. at' = "insert" /\ hand' = hand /\ SetOf[r] \in store'
      BY <1>5, <2>4 DEF Store, Goto
    <3>2. \A q \in hand' : SetOf[q] \in store' \cup lost'
      BY <2>2, <3>1
    <3>3. \A q, s \in hand' : q = s
      BY <2>2, <3>1
    <3>4. QED
      BY <1>1, <2>1, <3>2, <3>3, StoredKept
  <2>5. QED
    BY <2>3, <2>4
<1>6. CASE Insert(r)
  <2>1. SetOf[r] \in store \cup lost
    BY <1>6 DEF Insert, StoredInv
  <2>2. hand' = {} /\ at' \in {"fetch", "waiting"}
    <3>1. CASE PassedOver("fetch", undated, new \ {r})
      BY <3>1, PassedForgets
    <3>2. QED
      BY <1>6, <3>1 DEF Insert, Over
  <2>3. \A q \in Runs : table'[q] # "none" => SetOf[q] \in store' \cup lost'
    BY <1>1, <1>2, <2>1 DEF StoredInv, RecordedIsStored
  <2>4. \A e \in json' \cup page' \cup manifest' : SetOf[e.run] \in store' \cup lost'
    BY <1>1, <1>2 DEF StoredInv, RecordedIsStored
  <2>5. QED
    BY <2>2, <2>3, <2>4 DEF StoredInv, RecordedIsStored
<1>7. QED
  BY <1>3, <1>4, <1>5, <1>6

LEMMA StoredStep == TypeOK /\ StoredInv /\ [Next]_vars => StoredInv'
<1> SUFFICES ASSUME TypeOK, StoredInv, [Next]_vars
             PROVE  StoredInv'
  OBVIOUS
<1>1. store \cup lost \subseteq store' \cup lost'
  BY ArchiveGrows
<1>2. CASE \E r \in Runs : Backfill(r) \/ Fetch(r) \/ Store(r) \/ Insert(r)
  BY <1>2, StoredRun
<1>3. CASE Index /\ Goto("json")
  <2>1. UNCHANGED <<table, json, page>> /\ manifest' = Manifest /\ at' = "json"
    BY <1>3 DEF Index, Goto, Rest
  <2>2. \A e \in Manifest : SetOf[e.run] \in store' \cup lost'
    <3>1. ASSUME NEW e \in Manifest
          PROVE  SetOf[e.run] \in store' \cup lost'
      <4>1. PICK r \in Runs : /\ table[r] # "none"
                              /\ e = [run |-> r, approximate |-> table[r] = "undated"]
        BY DEF Manifest
      <4>2. e.run = r
        BY <4>1
      <4>3. QED
        BY <1>1, <4>1, <4>2 DEF StoredInv, RecordedIsStored
    <3>2. QED
      BY <3>1
  <2>3. QED
    BY <1>1, <2>1, <2>2 DEF StoredInv, RecordedIsStored
<1>4. CASE Json \/ Page
  <2>1. /\ table' = table /\ json' \in {json, manifest} /\ page' \in {page, manifest}
        /\ manifest' \subseteq manifest /\ at' \in {"page", "waiting"}
    <3>1. CASE \E o : Rest(o)
      BY <1>4, <3>1, RestForgets DEF Json, Page
    <3>2. QED
      BY <1>4, <3>1 DEF Json, Page, Goto
  <2>2. QED
    BY <2>1, StoredKept
<1>5. CASE \E r \in Runs : DropRow(r)
  <2>1. /\ UNCHANGED <<json, page, at, manifest, hand>>
        /\ \A r \in Runs : table'[r] # "none" => table[r] # "none"
    BY <1>5 DEF DropRow, TypeOK, Rows
  <2>2. QED
    BY <1>1, <2>1, StoredKept DEF StoredInv
<1>6. CASE UNCHANGED <<archive, at, plan>> \/ \E s \in Sets : DropReport(s)
  <2>1. UNCHANGED <<table, json, page, at, manifest, hand>>
    BY <1>6 DEF DropReport
  <2>2. QED
    BY <1>1, <2>1, StoredKept DEF StoredInv
<1>7. CASE /\ UNCHANGED <<table, json, page>> /\ manifest' \subseteq manifest
           /\ at' \notin {"store", "insert"}
  BY <1>7, StoredKept
<1>8. CASE (\E o : Rest(o)) /\ UNCHANGED <<table, json, page>>
  BY <1>8, RestForgets, StoredKept
<1>9. CASE Wake \/ Bucket \/ Select \/ List \/ Backfilled \/ Fetched \/ Index \/ Restart \/ Crash
  <2>1. UNCHANGED <<table, json, page>>
    BY <1>9 DEF Wake, Bucket, Select, List, Backfilled, Fetched, Index, Restart, Crash
  <2>2. CASE Bucket \/ Select \/ List \/ Index
    BY <1>3, <1>7, <1>8, <2>1, <2>2 DEF Bucket, Select, List, Index, Goto
  <2>3. CASE Wake \/ Backfilled \/ Fetched \/ Restart \/ Crash
    BY <1>7, <2>1, <2>3 DEF Wake, Backfilled, Fetched, Restart, Crash, NoPlan, Goto
  <2>4. QED
    BY <1>9, <2>2, <2>3
<1>10. QED
  BY <1>2, <1>4, <1>5, <1>6, <1>9
     DEF Next, Poll, Others, vars, RunChanges

-----------------------------------------------------------------------------
\* The equation of Doubled: a function of the failures with these values exists.
LEMMA DoubledIs ==
  /\ \A n \in 0..MaxGlitches : Doubled[n] \in Nat
  /\ Doubled[0] = RetryAfter
  /\ \A n \in 1..MaxGlitches : Doubled[n] = 2 * Doubled[n - 1]
<1> DEFINE N == MaxGlitches
           step == [i \in 1..N |-> [v \in Nat |-> 2 * v]]
           Solves(g) == g = [n \in 0..N |-> IF n = 0 THEN RetryAfter ELSE 2 * g[n - 1]]
<1>1. N \in Nat /\ RetryAfter \in Nat
  BY BoundNatural, PacePositive
<1>2. step \in [1..N -> [Nat -> Nat]] /\ \A i \in 1..N, v \in Nat : step[i][v] = 2 * v
  OBVIOUS
<1>3. PICK f \in [0..N -> Nat] : f[0] = RetryAfter /\ \A i \in 1..N : f[i] = 2 * f[i - 1]
  <2> DEFINE V == Nat
             a == RetryAfter
  <2> HIDE DEF N, step
  <2>1. PICK f \in [0..N -> V] : f[0] = a /\ \A i \in 1..N : f[i] = step[i][f[i - 1]]
    <3>1. N \in Nat /\ a \in V /\ step \in [1..N -> [V -> V]]
      BY <1>1, <1>2
    <3> HIDE DEF V, a
    <3>2. QED
      BY <3>1, RecursionExists
  <2>2. \A i \in 1..N : f[i - 1] \in Nat
    BY <1>1, <2>1
  <2>3. \A i \in 1..N : f[i] = 2 * f[i - 1]
    BY <1>2, <2>1, <2>2
  <2>4. QED
    BY <2>1, <2>3
<1>4. Solves(f)
  <2> HIDE DEF N
  <2>1. \A n \in 0..N : f[n] = IF n = 0 THEN RetryAfter ELSE 2 * f[n - 1]
    BY <1>1, <1>3
  <2>2. QED
    BY <2>1, <1>3
<1>5. Doubled = CHOOSE g : Solves(g)
  BY DEF Doubled
<1>6. Solves(Doubled)
  BY <1>4, <1>5, Zenon
<1>7. Doubled = [n \in 0..N |-> IF n = 0 THEN RetryAfter ELSE 2 * Doubled[n - 1]]
  BY <1>6
<1> HIDE DEF N
<1>8. \A n \in 0..N : Doubled[n] = IF n = 0 THEN RetryAfter ELSE 2 * Doubled[n - 1]
  BY <1>7
<1>9. /\ Doubled[0] = RetryAfter
      /\ \A n \in 1..N : Doubled[n] = 2 * Doubled[n - 1]
  BY <1>1, <1>8
<1>10. \A n \in 0..N : Doubled[n] \in Nat
  <2> DEFINE S == {n \in Nat : n <= N => Doubled[n] \in Nat}
  <2>1. 0 \in S
    BY <1>1, <1>9
  <2>2. ASSUME NEW n \in Nat, n \in S
        PROVE  n + 1 \in S
    <3>1. CASE n + 1 <= N
      <4>1. n + 1 \in 1..N /\ (n + 1) - 1 = n /\ Doubled[n] \in Nat
        BY <1>1, <2>2, <3>1
      <4>2. Doubled[n + 1] = 2 * Doubled[n]
        BY <1>9, <4>1
      <4>3. QED
        BY <4>1, <4>2
    <3>2. QED
      BY <3>1
  <2> HIDE DEF S
  <2>3. Nat \subseteq S
    BY <2>1, <2>2, Induction
  <2>4. QED
    BY <1>1, <2>3 DEF S
<1>11. QED
  BY <1>9, <1>10 DEF N

\* The wait after the next failure is the one that the failures so far lead to, both
\* held to the interval (the first one may lie above it); and a poll that failed is
\* among the failures counted.
PaceInv ==
  /\ Least(retry, Interval) = Least(Doubled[failures], Interval)
  /\ at = "waiting" /\ last = "failed" => failures > 0
  /\ Backoff

\* To hold a wait to the interval before it is doubled is to double it first.
LEMMA CapDoubles ==
  ASSUME NEW i \in Nat, NEW m \in Nat, NEW n \in Nat, Least(m, i) = Least(n, i)
  PROVE  Least(Least(2 * m, i), i) = Least(2 * n, i)
BY DEF Least

\* Each step lets the pace be, starts it afresh, or ends a poll.
LEMMA PaceMoves ==
  ASSUME [Next]_vars
  PROVE  \/ UNCHANGED <<at, pace>>
         \/ UNCHANGED <<retry, failures>> /\ at' # "waiting"
         \/ retry' = RetryAfter /\ failures' = 0 /\ at' # "waiting"
         \/ \E o \in {"ok", "failed", "refused"} : Rest(o) /\ (o = "failed" => Fails)
<1> DEFINE Ends == \E o \in {"ok", "failed", "refused"} : Rest(o) /\ (o = "failed" => Fails)
           Goes == UNCHANGED <<retry, failures>> /\ at' # "waiting"
<1>1. ASSUME NEW r \in Runs, Backfill(r) \/ Fetch(r) \/ Store(r) \/ Insert(r)
      PROVE  Goes \/ Ends
  <2>1. ASSUME NEW step \in {"backfill", "fetch"}, NEW u, NEW n, PassedOver(step, u, n)
        PROVE  Goes \/ Ends
    BY <2>1 DEF PassedOver, Over
  <2>2. ASSUME NEW step \in {"backfill", "fetch"}, NEW u, NEW n, Over(step, u, n)
        PROVE  Goes
    BY <2>2 DEF Over
  <2>3. CASE Goto("store") \/ Goto("insert")
    BY <2>3 DEF Goto
  <2> HIDE DEF Goes, Ends
  <2>4. QED
    BY <1>1, <2>1, <2>2, <2>3 DEF Backfill, Fetch, Store, Insert
<1>2. CASE Bucket \/ Select \/ List \/ Index \/ Json \/ Page
  <2>1. CASE \/ Goto("select") \/ Goto("list") \/ Goto("backfill")
             \/ Goto("json") \/ Goto("page")
    BY <2>1 DEF Goto
  <2>2. CASE Rest("ok") \/ (Fails /\ \E o \in {"failed", "refused"} : Rest(o))
    BY <2>2
  <2>3. QED
    BY <1>2, <2>1, <2>2 DEF Bucket, Select, List, Index, Json, Page
<1>3. CASE Wake \/ Backfilled \/ Fetched \/ Crash
  BY <1>3 DEF Wake, Backfilled, Fetched, Crash, Goto
<1>4. CASE Restart
  BY <1>4 DEF Restart
<1>5. CASE Others \/ UNCHANGED vars
  BY <1>5 DEF Others, vars, RunChanges, DropRow, DropReport
<1>6. QED
  BY <1>1, <1>2, <1>3, <1>4, <1>5 DEF Next, Poll

LEMMA PaceStep == TypeOK /\ Counted /\ PaceInv /\ [Next]_vars => PaceInv'
<1> SUFFICES ASSUME TypeOK, Counted, PaceInv, [Next]_vars
             PROVE  PaceInv'
  OBVIOUS
<1>1. /\ Interval \in Nat /\ Interval > 0 /\ MaxGlitches \in Nat /\ retry \in Nat
      /\ failures \in 0..MaxGlitches /\ failures <= glitches /\ glitches \in Nat
  BY PacePositive, BoundNatural DEF TypeOK, Counted
<1>2. CASE UNCHANGED <<at, pace>>
  BY <1>2 DEF PaceInv, Backoff
<1>3. CASE UNCHANGED <<retry, failures>> /\ at' # "waiting"
  BY <1>3 DEF PaceInv, Backoff
<1>4. CASE retry' = RetryAfter /\ failures' = 0 /\ at' # "waiting"
  BY <1>4, DoubledIs DEF PaceInv, Backoff
<1>5. CASE Rest("ok")
  <2>1. retry' = RetryAfter /\ wait' = Interval /\ failures' = 0 /\ last' = "ok"
    BY <1>5 DEF Rest
  <2>2. QED
    BY <2>1, DoubledIs DEF PaceInv, Backoff
<1>6. CASE Rest("refused")
  <2>1. wait' = Interval /\ UNCHANGED <<retry, failures>> /\ last' = "refused"
    BY <1>6 DEF Rest
  <2>2. QED
    BY <2>1 DEF PaceInv, Backoff
<1>7. CASE Rest("failed") /\ Fails
  <2>1. /\ wait' = Least(retry, Interval) /\ retry' = Least(2 * retry, Interval)
        /\ failures' = failures + 1
    BY <1>7 DEF Rest
  <2>2. failures + 1 \in 1..MaxGlitches /\ (failures + 1) - 1 = failures
    BY <1>1, <1>7, BoundNatural DEF Fails, TypeOK
  <2>3. Doubled[failures] \in Nat /\ Doubled[failures + 1] = 2 * Doubled[failures]
    BY <1>1, <2>2, DoubledIs
  <2>4. Least(retry, Interval) = Least(Doubled[failures], Interval)
    BY DEF PaceInv
  <2>5. Least(Least(2 * retry, Interval), Interval) = Least(2 * Doubled[failures], Interval)
    BY <1>1, <2>3, <2>4, CapDoubles
  <2>6. Least(retry', Interval) = Least(Doubled[failures'], Interval)
    BY <2>1, <2>3, <2>5
  <2>7. wait' = Least(Doubled[failures' - 1], Interval) /\ failures' > 0
    BY <1>1, <2>1, <2>2, <2>4
  <2>8. last' = "failed"
    BY <1>7 DEF Rest
  <2>9. QED
    BY <2>6, <2>7, <2>8 DEF PaceInv, Backoff
<1>8. QED
  BY <1>2, <1>3, <1>4, <1>5, <1>6, <1>7, PaceMoves

-----------------------------------------------------------------------------
\* What holds in every reachable state.
Kept == TypeOK /\ Counted /\ PlanInv /\ StoredInv /\ PaceInv

LEMMA AlwaysKept == Spec => []Kept
<1>1. Init => TypeOK /\ Counted
  <2>1. ASSUME Init
        PROVE  TypeOK /\ Counted
    <3>1. machine \in [Runs -> Says]
      BY <2>1 DEF Init, Says
    <3>2. store \subseteq Sets
      BY <2>1, RunsFinite DEF Init, Sets
    <3>3. QED
      BY <2>1, <3>1, <3>2, PacePositive, BoundNatural DEF Init, TypeOK, Counted, Rows, Steps
  <2>2. QED
    BY <2>1
<1>2. Init => PlanInv
  BY DEF Init, PlanInv, FetchedIsNew
<1>3. Init => StoredInv
  BY DEF Init, StoredInv, RecordedIsStored
<1>4. Init => PaceInv
  BY DoubledIs DEF Init, PaceInv, Backoff
<1>5. Kept /\ [Next]_vars => Kept'
  BY TypeStep, PlanStep, StoredStep, PaceStep DEF Kept
<1>6. QED
  BY <1>1, <1>2, <1>3, <1>4, <1>5, PTL DEF Spec, Kept

\* Every variable keeps its type: the wait stays within the interval, whatever the
\* sequence of failed, refused and successful polls, crashes and restarts.
THEOREM TypeCorrect == Spec => []TypeOK
BY AlwaysKept, PTL DEF Kept

\* A run is recorded, and listed in an index, only once its report is in the store
\* (_fetch_report, publish_index), unless it was deleted by hand.
THEOREM RecordedOnlyWhenStored == Spec => []RecordedIsStored
<1>1. Kept => RecordedIsStored
  BY DEF Kept, StoredInv
<1>2. QED
  BY <1>1, AlwaysKept, PTL

\* No report is fetched for a run that has a row (plan_runs, _fetch_report).
THEOREM FetchedOnlyWhenNew == Spec => []FetchedIsNew
<1>1. Kept => FetchedIsNew
  BY DEF Kept, PlanInv
<1>2. QED
  BY <1>1, AlwaysKept, PTL

\* A date once known is never taken back (_backfill), whatever the listing says later.
THEOREM DatesNeverLost == Spec => DatesKept
<1>1. Kept /\ [Next]_vars => [\A r \in Runs : table[r] = "dated" => table'[r] # "undated"]_vars
  BY PlanStep DEF Kept, DateKept
<1>2. QED
  BY <1>1, AlwaysKept, PTL DEF Spec, DatesKept

\* The wait after a poll is the one the failures in a row lead to (the loop in main):
\* the first after RETRY_AFTER, then doubling up to the interval and never past it,
\* whatever refused polls, crashes and restarts come between.
THEOREM WaitsDouble == Spec => []Backoff
<1>1. Kept => Backoff
  BY DEF Kept, PaceInv
<1>2. QED
  BY <1>1, AlwaysKept, PTL
=============================================================================

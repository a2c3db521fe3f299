------------------------- MODULE JobReporterProofs -------------------------
(***************************************************************************)
(* What the reporter keeps whatever fails, for any number of jobs and any  *)
(* number of failures.                                                     *)
(***************************************************************************)
EXTENDS JobReporter, FiniteSetTheorems, TLAPS

\* The steps of a turn over a job that ended, and over one on its way.
EndSteps  == {"mark", "give", "timeline", "artifacts", "report", "post_report", "delete"}
TellSteps == {"tell", "post_tell", "update"}

USE DEF releases, objects, reports

\* The job in hand: its row is there, this cycle will not pick it again, and what was
\* fetched of it still holds, as statuses only move forward.  A reporter that waits
\* has errors left, and so has one in a cycle.
InHand ==
  /\ at \in EndSteps \cup TellSteps =>
       /\ cur \in Snapshots
       /\ Job \notin todo
       /\ row[Job] \notin {"none", "deleted"}
  /\ at \in EndSteps => cur.status \in Terminal /\ machine[Job].status = cur.status
  /\ at \in TellSteps => cur.status \in Interim
  /\ \A j \in todo : row[j] \notin {"none", "deleted"}
  /\ at # "down" => errors < MaxErrors

-----------------------------------------------------------------------------
\* What the PUT and the POST of a report amount to.
LEMMA ReportsDo ==
  ASSUME Report \/ TellInterim
  PROVE  /\ UNCHANGED <<machine, initial, row, releases, objects, todo, redis, errors>>
         /\ Taken \/ Refused
         /\ \/ at' = "pick" /\ cur' = Nothing /\ left' = {} /\ links' = {}
            \/ /\ UNCHANGED <<cur, left, links>>
               /\ \/ at = "report" /\ at' = "post_report"
                  \/ at \in {"report", "post_report"} /\ at' = "delete" /\ Taken
                  \/ at = "tell" /\ at' = "post_tell"
                  \/ at \in {"tell", "post_tell"} /\ at' = "update"
         /\ conn' \in {conn, "ok"}
         /\ Works \/ Fails
         /\ at \in {"report", "post_report", "tell", "post_tell"}
<1> USE DEF Goto, NextJob, Unreported, Commit
<1>1. CASE Report
  <2>1. CASE at = "report" /\ Put("post_report", "delete")
    BY <1>1, <2>1 DEF Report, Put
  <2>2. CASE at = "post_report" /\ Post("delete")
    BY <1>1, <2>2 DEF Report, Post
  <2>3. QED
    BY <1>1, <2>1, <2>2 DEF Report
<1>2. CASE TellInterim
  <2>1. CASE at = "tell" /\ Put("post_tell", "update")
    BY <1>2, <2>1 DEF TellInterim, Put
  <2>2. CASE at = "post_tell" /\ Post("update")
    BY <1>2, <2>2 DEF TellInterim, Post
  <2>3. QED
    BY <1>2, <2>1, <2>2 DEF TellInterim
<1>3. QED
  BY <1>1, <1>2

\* Type correctness; the steps of a turn rely on the job in hand.
LEMMA TypeOthers ==
  ASSUME TypeOK, NEW j \in Jobs,
         \/ MachineRuns(j) \/ MachineEnds(j) \/ MachineStamps(j)
         \/ MachineForgets(j) \/ LogJob(j) \/ InitialReport(j)
  PROVE  TypeOK'
<1> USE DEF TypeOK, Interim, RowStatuses, world, reporter
<1>1. CASE MachineRuns(j)
  BY <1>1 DEF MachineRuns
<1>2. CASE MachineEnds(j)
  BY <1>2 DEF MachineEnds
<1>3. CASE MachineStamps(j)
  BY <1>3 DEF MachineStamps
<1>4. CASE MachineForgets(j)
  BY <1>4 DEF MachineForgets
<1>5. CASE LogJob(j)
  BY <1>5 DEF LogJob
<1>6. CASE InitialReport(j)
  BY <1>6, BoundsAreNatural DEF InitialReport, Works, Fails
<1>7. QED
  BY <1>1, <1>2, <1>3, <1>4, <1>5, <1>6

LEMMA SnapshotTyped ==
  ASSUME NEW j \in Jobs, NEW s \in Interim \cup Terminal, NEW b \in BOOLEAN
  PROVE  [job |-> j, status |-> s, timed |-> b] \in Snapshots
BY DEF Snapshots

LEMMA TypeCycle ==
  ASSUME TypeOK, InHand,
         \/ StartCycle \/ CycleFails \/ EndCycle \/ Crash \/ Lapse \/ Restart
         \/ \E j \in Jobs : Pick(j)
  PROVE  TypeOK'
<1>1. glitches' \in 0..MaxGlitches
  BY BoundsAreNatural
     DEF TypeOK, Works, Fails, StartCycle, CycleFails, EndCycle, Crash, Lapse, Restart, Pick
<1>2. errors' \in 0..MaxErrors
  <2>1. CASE CycleFails
    BY <2>1, BoundsAreNatural DEF TypeOK, CycleFails, InHand
  <2>2. CASE ~CycleFails
    <3>1. errors' = errors \/ errors' = 0
      BY <2>2 DEF StartCycle, EndCycle, Crash, Lapse, Restart, Pick, reporter
    <3>2. QED
      BY <3>1, BoundsAreNatural DEF TypeOK
  <2>3. QED
    BY <2>1, <2>2
<1> USE <1>1, <1>2 DEF TypeOK, Steps, world
<1>3. CASE StartCycle
  BY <1>3 DEF StartCycle
<1>4. CASE CycleFails
  BY <1>4 DEF CycleFails
<1>5. CASE EndCycle \/ Crash \/ Restart
  BY <1>5 DEF EndCycle, Crash, Lapse, Restart
<1>6. ASSUME NEW j \in Jobs, Pick(j)
      PROVE  TypeOK'
  <2>1. machine[j].status \in Interim \cup Terminal /\ machine[j].timed \in BOOLEAN
    OBVIOUS
  <2>2. \/ cur' = cur
        \/ cur' = [job |-> j, status |-> machine[j].status, timed |-> machine[j].timed]
        \/ cur' = [job |-> j, status |-> machine[j].status, timed |-> FALSE]
    BY <1>6 DEF Pick
  <2>3. cur' \in Snapshots \cup {Nothing}
    <3>1. /\ [job |-> j, status |-> machine[j].status, timed |-> FALSE] \in Snapshots
          /\ [job |-> j, status |-> machine[j].status, timed |-> machine[j].timed] \in Snapshots
      BY <2>1, SnapshotTyped
    <3>2. QED
      BY <2>2, <3>1
  <2>4. QED
    BY <1>6, <2>3 DEF Pick, Commit
<1>7. CASE Lapse
  BY <1>7 DEF Lapse, reporter
<1>8. QED
  BY <1>3, <1>4, <1>5, <1>6, <1>7

LEMMA TypeTurn ==
  ASSUME TypeOK, InHand, Turn
  PROVE  TypeOK'
<1> USE BoundsAreNatural DEF TypeOK, Steps, Job, Goto, NextJob, Works, Fails
<1>1. at \in EndSteps \cup TellSteps => cur \in Snapshots /\ cur.job \in Jobs
  BY DEF InHand, Snapshots
<1>2. CASE Mark
  BY <1>1, <1>2 DEF Mark, EndSteps
<1>3. CASE Give
  BY <1>1, <1>3 DEF Give, EndSteps
<1>4. CASE Timeline
  <2>1. cur \in Snapshots /\ cur.job \in Jobs
    BY <1>1, <1>4 DEF Timeline, EndSteps
  <2>2. Wanted(cur.status) \subseteq Artifacts
    BY DEF Wanted, Artifacts
  <2>3. store' \in {store, [store EXCEPT ![cur.job] = @ \cup {"timeline"}]}
    BY <1>4 DEF Timeline
  <2>4. store' \in [Jobs -> SUBSET Objects]
    BY <2>1, <2>3 DEF Objects
  <2>5. links' \subseteq Objects /\ left' \subseteq Artifacts
    BY <1>4, <2>2 DEF Timeline, Objects
  <2>6. glitches' \in 0..MaxGlitches
    BY <1>4 DEF Timeline
  <2>7. QED
    BY <1>4, <2>1, <2>4, <2>5, <2>6 DEF Timeline
<1>5. ASSUME NEW a \in Artifacts, Artifact(a)
      PROVE  TypeOK'
  <2>1. \E stored \in SUBSET ({a} \cup Extras) : store' = [store EXCEPT ![cur.job] = @ \cup stored]
    <3>1. CASE \E extra \in SUBSET Extras :
                 store' = [store EXCEPT ![cur.job] = @ \cup {a} \cup extra]
      <4>1. PICK extra \in SUBSET Extras :
              store' = [store EXCEPT ![cur.job] = @ \cup {a} \cup extra]
        BY <3>1
      <4>2. \A S : S \cup {a} \cup extra = S \cup ({a} \cup extra)
        OBVIOUS
      <4>3. store' = [store EXCEPT ![cur.job] = @ \cup ({a} \cup extra)]
        BY <4>1, <4>2
      <4>4. {a} \cup extra \in SUBSET ({a} \cup Extras)
        OBVIOUS
      <4>5. QED
        BY <4>3, <4>4
    <3>2. CASE store' = store
      <4>1. store' = [store EXCEPT ![cur.job] = @ \cup {}]
        BY <3>2
      <4>2. QED
        BY <4>1
    <3>3. QED
      BY <1>5, <3>1, <3>2 DEF Artifact
  <2>2. store' \in [Jobs -> SUBSET Objects]
    <3>1. PICK stored \in SUBSET ({a} \cup Extras) :
            store' = [store EXCEPT ![cur.job] = @ \cup stored]
      BY <2>1
    <3>2. stored \subseteq Objects
      BY DEF Objects
    <3>3. QED
      BY <3>1, <3>2
  <2>3. links' \subseteq Objects /\ left' \subseteq Artifacts
    <3>1. left' \subseteq left \cup {}
      BY <1>5 DEF Artifact
    <3>2. \/ links' = {} \/ links' = links
          \/ \E extra \in SUBSET Extras : links' = links \cup {a} \cup extra
      BY <1>5 DEF Artifact
    <3>3. QED
      BY <3>1, <3>2 DEF Objects
  <2>4. glitches' \in 0..MaxGlitches /\ at' \in Steps
    BY <1>5 DEF Artifact
  <2>5. /\ UNCHANGED <<machine, initial, row, releases, index, reports, conn, todo, redis, errors>>
        /\ cur' \in {cur, Nothing}
    BY <1>5 DEF Artifact
  <2>6. QED
    BY <2>2, <2>3, <2>4, <2>5
<1>6. CASE Index
  BY <1>6 DEF Index
<1>7. CASE Report \/ TellInterim
  <2>1. /\ UNCHANGED <<machine, initial, row, releases, objects, todo, redis, errors>>
        /\ Taken \/ Refused
        /\ \/ at' = "pick" /\ cur' = Nothing /\ left' = {} /\ links' = {}
           \/ /\ UNCHANGED <<cur, left, links>>
              /\ at' \in {"post_report", "delete", "post_tell", "update"}
        /\ conn' \in {conn, "ok"}
        /\ Works \/ Fails
        /\ at \in EndSteps \cup TellSteps
    BY <1>7, ReportsDo DEF EndSteps, TellSteps
  <2>2. cur \in Snapshots /\ cur.job \in Jobs /\ cur.status \in Interim \cup Terminal
    BY <2>1 DEF InHand, Snapshots
  <2>3. portal' \in [Jobs -> {"none"} \cup RowStatuses \cup Terminal] /\ took' \subseteq Jobs
    BY <2>1, <2>2 DEF Taken, Refused, RowStatuses
  <2>4. QED
    BY <2>1, <2>3
<1>8. CASE Delete
  BY <1>8 DEF Delete, Execute
<1>10. CASE Update
  <2>1. cur.status \in Interim
    BY <1>10 DEF Update, InHand, TellSteps
  <2>2. QED
    BY <1>10, <2>1 DEF Update, Execute, RowStatuses
<1>11. QED
  BY <1>2, <1>3, <1>4, <1>5, <1>6, <1>7, <1>8, <1>10 DEF Turn

-----------------------------------------------------------------------------
\* A job that ended keeps its status.
LEMMA TerminalStays ==
  ASSUME TypeOK, [Next]_vars
  PROVE  \A j \in Jobs : machine[j].status \in Terminal => machine'[j].status = machine[j].status
<1>1. \A s \in Terminal : s \notin Interim
  BY TerminalKnown DEF TerminalStatuses, Interim
<1>2. ASSUME NEW i \in Jobs,
             MachineRuns(i) \/ MachineEnds(i) \/ MachineStamps(i) \/ MachineForgets(i)
      PROVE  \A j \in Jobs :
               machine[j].status \in Terminal => machine'[j].status = machine[j].status
  <2>1. CASE MachineRuns(i)
    BY <1>1, <2>1 DEF TypeOK, Interim, MachineRuns
  <2>2. CASE MachineEnds(i)
    BY <1>1, <2>2 DEF TypeOK, MachineEnds
  <2>3. CASE MachineStamps(i) \/ MachineForgets(i)
    BY <2>3 DEF TypeOK, MachineStamps, MachineForgets
  <2>4. QED
    BY <1>2, <2>1, <2>2, <2>3
<1>3. \/ UNCHANGED machine
      \/ \E i \in Jobs :
           MachineRuns(i) \/ MachineEnds(i) \/ MachineStamps(i) \/ MachineForgets(i)
  BY DEF Next, Cycle, Turn, Others, vars, StartCycle, CycleFails, EndCycle, Crash, Lapse, Restart,
         Pick, Mark, Give, Timeline, Artifact, Index, Report, Delete, TellInterim, Update,
         LogJob, InitialReport
<1>4. QED
  BY <1>2, <1>3

\* A step that leaves the job in hand where it is, or puts it down.
LEMMA HandKept ==
  ASSUME TypeOK, InHand, [Next]_vars, UNCHANGED <<row, todo, errors>>, at # "down",
         \/ at' \notin EndSteps \cup TellSteps
         \/ UNCHANGED cur /\ at \in EndSteps /\ at' \in EndSteps
         \/ UNCHANGED cur /\ at \in TellSteps /\ at' \in TellSteps
  PROVE  InHand'
<1>1. CASE at' \notin EndSteps \cup TellSteps
  BY <1>1 DEF InHand
<1>2. CASE UNCHANGED cur /\ at \in EndSteps /\ at' \in EndSteps
  <2>1. /\ cur \in Snapshots /\ cur.job \in Jobs /\ cur.status \in Terminal
        /\ machine[cur.job].status = cur.status
    BY <1>2 DEF InHand, Job, Snapshots
  <2>2. machine'[cur.job].status = cur.status
    BY <2>1, TerminalStays
  <2>3. at' \notin TellSteps
    BY <1>2 DEF EndSteps, TellSteps
  <2>4. QED
    BY <1>2, <2>1, <2>2, <2>3 DEF InHand, Job
<1>3. CASE UNCHANGED cur /\ at \in TellSteps /\ at' \in TellSteps
  <2>1. at' \notin EndSteps
    BY <1>3 DEF EndSteps, TellSteps
  <2>2. QED
    BY <1>3, <2>1 DEF InHand, Job
<1>4. QED
  BY <1>1, <1>2, <1>3

LEMMA HandStep == TypeOK /\ InHand /\ [Next]_vars => InHand'
<1> SUFFICES ASSUME TypeOK, InHand, [Next]_vars
             PROVE  InHand'
  OBVIOUS
<1>1. CASE UNCHANGED <<at, cur, todo, row, errors>>
  <2>1. CASE at \notin EndSteps \cup TellSteps
    BY <1>1, <2>1 DEF InHand
  <2>2. CASE at \in EndSteps \cup TellSteps
    <3>1. at # "down"
      BY <2>2 DEF EndSteps, TellSteps
    <3>2. QED
      BY <1>1, <2>2, <3>1, HandKept
  <2>3. QED
    BY <2>1, <2>2
<1>2. CASE StartCycle
  <2>1. /\ at' = "pick" /\ row' = row /\ errors' = 0
        /\ \A j \in todo' : row[j] \notin {"none", "deleted"}
    BY <1>2 DEF StartCycle, world
  <2>2. 0 < MaxErrors
    BY BoundsAreNatural
  <2>3. QED
    BY <2>1, <2>2 DEF InHand, EndSteps, TellSteps
<1>3. CASE CycleFails \/ EndCycle \/ Crash \/ Restart
  <2>1. at' \in {"asleep", "down"} /\ row' = row /\ (todo' = todo \/ todo' = {})
    BY <1>3 DEF CycleFails, EndCycle, Crash, Lapse, Restart, world
  <2>2. CASE CycleFails
    <3>1. at' = "asleep" => errors' < MaxErrors
      BY <2>2, BoundsAreNatural DEF CycleFails, TypeOK
    <3>2. QED
      BY <2>1, <3>1 DEF InHand, EndSteps, TellSteps
  <2>3. CASE EndCycle
    BY <2>1, <2>3 DEF EndCycle, InHand, EndSteps, TellSteps
  <2>4. CASE Crash \/ Restart
    <3>1. errors' = 0 /\ 0 < MaxErrors
      BY <2>4, BoundsAreNatural DEF Crash, Lapse, Restart
    <3>2. QED
      BY <2>1, <3>1 DEF InHand, EndSteps, TellSteps
  <2>5. QED
    BY <1>3, <2>2, <2>3, <2>4
<1>4. ASSUME NEW j \in Jobs, Pick(j)
      PROVE  InHand'
  <2>1. j \in todo /\ todo' = todo \ {j} /\ row' = row /\ machine' = machine
    BY <1>4 DEF Pick, world
  <2>2. CASE at' = at
    BY <1>4, <2>1, <2>2 DEF Pick, InHand, EndSteps, TellSteps
  <2>3. CASE at' # at
    <3>1. /\ machine[j].status \in Interim \cup Terminal
          /\ machine[j].timed \in BOOLEAN
      BY DEF TypeOK
    <3>2. \/ /\ at' = "mark" /\ machine[j].status \in Terminal
             /\ cur' = [job |-> j, status |-> machine[j].status, timed |-> machine[j].timed]
          \/ /\ at' = "tell" /\ machine[j].status \in Interim
             /\ cur' = [job |-> j, status |-> machine[j].status, timed |-> FALSE]
      BY <1>4, <2>3 DEF Pick
    <3>3. /\ cur'.job = j /\ cur'.status = machine[j].status
          /\ cur' \in Snapshots
      <4>1. /\ [job |-> j, status |-> machine[j].status, timed |-> FALSE] \in Snapshots
            /\ [job |-> j, status |-> machine[j].status, timed |-> machine[j].timed] \in Snapshots
        BY <3>1, SnapshotTyped
      <4>2. CASE cur' = [job |-> j, status |-> machine[j].status, timed |-> machine[j].timed]
        <5>1. cur'.job = j /\ cur'.status = machine[j].status
          BY <4>2
        <5>2. QED
          BY <4>1, <4>2, <5>1
      <4>3. CASE cur' = [job |-> j, status |-> machine[j].status, timed |-> FALSE]
        <5>1. cur'.job = j /\ cur'.status = machine[j].status
          BY <4>3
        <5>2. QED
          BY <4>1, <4>3, <5>1
      <4>4. QED
        BY <3>2, <4>2, <4>3
    <3>4. row[j] \notin {"none", "deleted"} /\ \A i \in todo' : row[i] \notin {"none", "deleted"}
      BY <2>1 DEF InHand
    <3>5. errors' = errors /\ errors < MaxErrors
      BY <1>4 DEF Pick, InHand
    <3>6. /\ cur'.job \notin todo' /\ row'[cur'.job] \notin {"none", "deleted"}
          /\ machine'[cur'.job].status = cur'.status
      BY <2>1, <3>3, <3>4
    <3>7. /\ at' \in EndSteps => cur'.status \in Terminal
          /\ at' \in TellSteps => cur'.status \in Interim
      BY <3>2, <3>3 DEF EndSteps, TellSteps
    <3>8. QED
      BY <2>1, <3>3, <3>4, <3>5, <3>6, <3>7 DEF InHand, Job
  <2>4. QED
    BY <2>2, <2>3
<1>5. CASE Mark \/ Give \/ Timeline \/ (\E a \in Artifacts : Artifact(a)) \/ Index
  BY <1>5, HandKept DEF Mark, Give, Timeline, Artifact, Index, Goto, NextJob, EndSteps, TellSteps
<1>6. CASE Report \/ TellInterim
  <2>1. /\ UNCHANGED <<row, todo, errors>> /\ at # "down"
        /\ \/ at' \notin EndSteps \cup TellSteps
           \/ UNCHANGED cur /\ at \in EndSteps /\ at' \in EndSteps
           \/ UNCHANGED cur /\ at \in TellSteps /\ at' \in TellSteps
    BY <1>6, ReportsDo DEF EndSteps, TellSteps
  <2>2. QED
    BY <2>1, HandKept
<1>7. CASE Delete \/ Update
  <2>1. at' = "pick" /\ todo' = todo /\ cur.job \notin todo
    BY <1>7 DEF Delete, Update, NextJob, InHand, Job, EndSteps, TellSteps
  <2>2. \A j \in todo : row'[j] = row[j]
    BY <1>7, <2>1 DEF Delete, Update, Execute, Job, TypeOK
  <2>3. errors' = errors /\ errors < MaxErrors
    BY <1>7 DEF Delete, Update, NextJob, InHand
  <2>4. \A j \in todo' : row'[j] \notin {"none", "deleted"}
    BY <2>1, <2>2 DEF InHand
  <2>5. QED
    BY <2>1, <2>3, <2>4 DEF InHand, EndSteps, TellSteps
<1>8. CASE \E j \in Jobs : LogJob(j)
  BY <1>8, TerminalStays DEF LogJob, reporter, InHand, Job, TypeOK, Snapshots
<1>9. CASE Lapse
  BY <1>1, <1>9 DEF Lapse, reporter
<1>10. QED
  BY <1>1, <1>2, <1>3, <1>4, <1>5, <1>6, <1>7, <1>8, <1>9
     DEF Next, Cycle, Turn, Others, vars, world, reporter, MachineRuns, MachineEnds,
         MachineStamps, MachineForgets, InitialReport

LEMMA TypeStep == TypeOK /\ InHand /\ [Next]_vars => TypeOK'
<1> SUFFICES ASSUME TypeOK, InHand, [Next]_vars
             PROVE  TypeOK'
  OBVIOUS
<1>1. CASE UNCHANGED vars
  BY <1>1 DEF vars, world, reporter, TypeOK
<1>2. QED
  BY <1>1, TypeOthers, TypeCycle, TypeTurn DEF Next, Cycle, Others

LEMMA HandInit == Init => TypeOK /\ InHand
<1>1. ASSUME Init
      PROVE  TypeOK
  <2>1. /\ machine \in [Jobs -> [status : Interim \cup Terminal, timed : BOOLEAN, known : BOOLEAN]]
        /\ row \in [Jobs -> {"none", "deleted"} \cup RowStatuses]
        /\ portal \in [Jobs -> {"none"} \cup RowStatuses \cup Terminal]
    BY <1>1 DEF Init, Interim
  <2>2. errors \in 0..MaxErrors /\ glitches \in 0..MaxGlitches
    BY <1>1, BoundsAreNatural DEF Init
  <2>3. QED
    BY <1>1, <2>1, <2>2 DEF Init, TypeOK, Steps
<1>2. Init => InHand
  BY BoundsAreNatural DEF Init, InHand, EndSteps, TellSteps
<1>3. QED
  BY <1>1, <1>2

-----------------------------------------------------------------------------
\* The reservation: SADD is what a release waits for, so a job that is not in
\* jobs:terminal:processed was not released, and the one whose release is due neither,
\* since that set last expired.
ReleaseInv ==
  /\ ReleasedOnce
  /\ \A j \in Jobs \ processed : released[j] <= lapses
  /\ at = "give" => Job \in processed /\ released[Job] <= lapses

LEMMA ReleaseKept ==
  ASSUME TypeOK, InHand, ReleaseInv, [Next]_vars, UNCHANGED <<processed, released, lapses>>,
         at' = "give" => at = "give" /\ UNCHANGED cur
  PROVE  ReleaseInv'
<1>1. ReleasedOnce'
  BY TerminalStays DEF ReleaseInv, ReleasedOnce
<1>2. QED
  BY <1>1 DEF ReleaseInv, Job

LEMMA ReleaseStep == TypeOK /\ InHand /\ ReleaseInv /\ [Next]_vars => ReleaseInv'
<1> SUFFICES ASSUME TypeOK, InHand, ReleaseInv, [Next]_vars
             PROVE  ReleaseInv'
  OBVIOUS
<1>1. CASE Mark
  <2>1. /\ cur.job \in Jobs /\ released' = released /\ lapses' = lapses
        /\ machine' = machine /\ cur' = cur
    BY <1>1 DEF Mark, Goto, InHand, EndSteps, Snapshots
  <2>2. processed' \in {processed, processed \cup {cur.job}}
    BY <1>1 DEF Mark, Job
  <2>3. at' = "give" => cur.job \in processed' /\ cur.job \notin processed
    BY <1>1 DEF Mark, Goto, Job
  <2>4. ReleasedOnce'
    BY <2>1, <2>2 DEF ReleaseInv, ReleasedOnce
  <2>5. QED
    BY <2>1, <2>2, <2>3, <2>4 DEF ReleaseInv, Job
<1>2. CASE Give
  <2>1. /\ cur.job \in Jobs /\ cur.job \in processed /\ released[cur.job] <= lapses
        /\ machine[cur.job].status \in Terminal
    BY <1>2 DEF Give, InHand, EndSteps, Snapshots, ReleaseInv, Job
  <2>2. /\ released' = [released EXCEPT ![cur.job] = @ + 1] /\ lapses' = lapses
        /\ processed' = processed /\ machine' = machine /\ at' = "timeline"
    BY <1>2, <2>1 DEF Give, Goto, Job, TypeOK
  <2>3. ReleasedOnce'
    BY <2>1, <2>2 DEF ReleaseInv, ReleasedOnce, TypeOK
  <2>4. QED
    BY <2>1, <2>2, <2>3 DEF ReleaseInv, TypeOK
<1>3. CASE Lapse
  <2>1. /\ lapses' = lapses + 1 /\ released' = released /\ machine' = machine
        /\ at' # "give" /\ lapses \in Nat /\ \A j \in Jobs : released[j] \in Nat
    BY <1>3 DEF Lapse, reporter, TypeOK
  <2>2. \A j \in Jobs : released'[j] <= lapses'
    BY <2>1 DEF ReleaseInv, ReleasedOnce
  <2>3. QED
    BY <2>1, <2>2 DEF ReleaseInv, ReleasedOnce
<1>4. CASE ~Mark /\ ~Give /\ ~Lapse
  <2>1. UNCHANGED <<processed, released, lapses>>
    BY <1>4, ReportsDo DEF Next, Cycle, Turn, Others, vars, world, StartCycle, CycleFails, EndCycle,
                Crash, Lapse, Restart, Pick, Timeline, Artifact, Index, Report, Delete, TellInterim,
                Update, MachineRuns, MachineEnds, MachineStamps, MachineForgets, LogJob,
                InitialReport
  <2>2. at' = "give" => at = "give" /\ UNCHANGED cur
    BY <1>4, ReportsDo DEF Next, Cycle, Turn, Others, vars, reporter, StartCycle,
       CycleFails, EndCycle,
                Crash, Lapse, Restart, Pick, Timeline, Artifact, Index, Report, Delete, TellInterim,
                Update, MachineRuns, MachineEnds, MachineStamps, MachineForgets, LogJob,
                InitialReport, Put, Post, Taken, Refused, Unreported, Goto, NextJob
  <2>3. QED
    BY <2>1, <2>2, ReleaseKept
<1>5. QED
  BY <1>1, <1>2, <1>3, <1>4

-----------------------------------------------------------------------------
\* The page: what is noted of the job in hand is in the store.
LinkInv ==
  /\ LinksResolve
  /\ at = "artifacts" => links \subseteq store[Job]

LEMMA LinkStep == TypeOK /\ InHand /\ LinkInv /\ [Next]_vars => LinkInv'
<1> SUFFICES ASSUME TypeOK, InHand, LinkInv, [Next]_vars
             PROVE  LinkInv'
  OBVIOUS
<1>1. at \in EndSteps => cur.job \in Jobs
  BY DEF InHand, Snapshots
<1>2. CASE Timeline
  <2>1. PICK linked \in SUBSET {"timeline"} :
          /\ store' \in {store, [store EXCEPT ![cur.job] = @ \cup {"timeline"}]}
          /\ linked # {} => store' = [store EXCEPT ![cur.job] = @ \cup {"timeline"}]
          /\ at' = "artifacts" => links' = linked /\ cur' = cur
    BY <1>2 DEF Timeline, NextJob, Job
  <2>2. cur.job \in Jobs /\ index' = index
    BY <1>1, <1>2 DEF Timeline, EndSteps
  <2>3. linked \subseteq store'[cur.job] /\ \A j \in Jobs : store[j] \subseteq store'[j]
    BY <2>1, <2>2 DEF TypeOK
  <2>4. QED
    BY <2>1, <2>2, <2>3 DEF LinkInv, LinksResolve, Job
<1>3. ASSUME NEW a \in Artifacts, Artifact(a)
      PROVE  LinkInv'
  <2>1. cur.job \in Jobs /\ index' = index /\ links \subseteq store[cur.job]
    BY <1>1, <1>3 DEF Artifact, EndSteps, LinkInv, Job
  <2>2. \/ /\ \E extra : /\ store' = [store EXCEPT ![cur.job] = @ \cup {a} \cup extra]
                         /\ links' = links \cup {a} \cup extra
           /\ cur' = cur
        \/ store' = store /\ links' = links /\ cur' = cur
        \/ /\ \E stored : store' = [store EXCEPT ![cur.job] = @ \cup stored]
           /\ at' = "pick"
    BY <1>3 DEF Artifact, NextJob, Job
  <2>3. /\ \A j \in Jobs : store[j] \subseteq store'[j]
        /\ at' = "artifacts" => links' \subseteq store'[cur.job] /\ cur' = cur
    BY <2>1, <2>2 DEF TypeOK
  <2>4. QED
    BY <2>1, <2>3 DEF LinkInv, LinksResolve, Job
<1>4. CASE Index
  <2>1. cur.job \in Jobs /\ store' = store /\ at' # "artifacts"
    BY <1>1, <1>4 DEF Index, Goto, NextJob, EndSteps
  <2>2. index' \in {index, [index EXCEPT ![cur.job] = links]} /\ links \subseteq store[cur.job]
    BY <1>4 DEF Index, Job, LinkInv
  <2>3. QED
    BY <2>1, <2>2 DEF LinkInv, LinksResolve, TypeOK
<1>5. CASE ~Timeline /\ (\A a \in Artifacts : ~Artifact(a)) /\ ~Index
  <2>1. UNCHANGED <<store, index>>
    BY <1>5, ReportsDo DEF Next, Cycle, Turn, Others, vars, world, StartCycle, CycleFails, EndCycle,
                Crash, Lapse, Restart, Pick, Mark, Give, Report, Delete, TellInterim,
                Update, MachineRuns, MachineEnds, MachineStamps, MachineForgets, LogJob,
                InitialReport
  <2>2. at' = "artifacts" => at = "artifacts" /\ UNCHANGED <<cur, links>>
    BY <1>5, ReportsDo DEF Next, Cycle, Turn, Others, vars, reporter, StartCycle,
       CycleFails, EndCycle,
                Crash, Lapse, Restart, Pick, Mark, Give, Report, Delete, TellInterim,
                Update, MachineRuns, MachineEnds, MachineStamps, MachineForgets, LogJob,
                InitialReport, Put, Post, Taken, Refused, Unreported, Goto, NextJob
  <2>3. QED
    BY <2>1, <2>2 DEF LinkInv, LinksResolve, Job
<1>6. QED
  BY <1>2, <1>3, <1>4, <1>5

-----------------------------------------------------------------------------
\* The row is dropped after the portal took the report, and nothing but a late first
\* report changes what the portal has of a job without a row.
ReportInv ==
  /\ ReportedBeforeDeleted
  /\ \A j \in Jobs : row[j] = "deleted" => machine[j].status \in Terminal
  /\ at = "delete" => Job \in took /\ portal[Job] \in {cur.status, "submitted"}

\* A step that drops no row and reports no job without one.
LEMMA ReportKept ==
  ASSUME TypeOK, InHand, ReportInv, [Next]_vars,
         \A j \in Jobs : row'[j] = "deleted" =>
           row[j] = "deleted" /\ portal'[j] \in {portal[j], "submitted"},
         took \subseteq took',
         at' = "delete" =>
           cur'.job \in took' /\ portal'[cur'.job] \in {cur'.status, "submitted"}
  PROVE  ReportInv'
<1>1. \A j \in Jobs : row'[j] = "deleted" =>
        /\ machine[j].status \in Terminal /\ machine'[j].status = machine[j].status
        /\ j \in took'
        /\ portal'[j] \in {machine[j].status, "submitted"}
  BY TerminalStays DEF ReportInv, ReportedBeforeDeleted
<1>2. QED
  BY <1>1 DEF ReportInv, ReportedBeforeDeleted, Job

LEMMA ReportStep == TypeOK /\ InHand /\ ReportInv /\ [Next]_vars => ReportInv'
<1> SUFFICES ASSUME TypeOK, InHand, ReportInv, [Next]_vars
             PROVE  ReportInv'
  OBVIOUS
<1>1. CASE Report \/ TellInterim
  <2>1. /\ row' = row
        /\ Taken \/ Refused
        /\ at' = "delete" => cur' = cur /\ Taken /\ at \in EndSteps
        /\ at \in EndSteps \cup TellSteps
    BY <1>1, ReportsDo DEF EndSteps, TellSteps
  <2>2. /\ cur.job \in Jobs /\ row[cur.job] # "deleted"
        /\ at \in EndSteps => cur.status \in Terminal
    BY <2>1 DEF InHand, Snapshots, Job
  <2>3. portal' \in {portal, [portal EXCEPT ![cur.job] = cur.status]} /\ took \subseteq took'
    BY <2>1 DEF Taken, Refused, Job
  <2>4. ASSUME NEW j \in Jobs, row'[j] = "deleted"
        PROVE  row[j] = "deleted" /\ portal'[j] \in {portal[j], "submitted"}
    <3>1. row[j] = "deleted" /\ j # cur.job
      BY <2>1, <2>2, <2>4
    <3>2. portal'[j] = portal[j]
      BY <2>3, <3>1 DEF TypeOK
    <3>3. QED
      BY <3>1, <3>2
  <2>5. at' = "delete" =>
          cur'.job \in took' /\ portal'[cur'.job] \in {cur'.status, "submitted"}
    BY <2>1, <2>2 DEF Taken, Job, TypeOK
  <2>6. QED
    BY <2>3, <2>4, <2>5, ReportKept
<1>2. CASE Delete
  <2>1. /\ cur.job \in Jobs /\ portal[cur.job] \in {machine[cur.job].status, "submitted"}
        /\ cur.job \in took
        /\ machine[cur.job].status \in Terminal
    BY <1>2 DEF Delete, InHand, EndSteps, Snapshots, ReportInv, Job
  <2>2. /\ row' \in {row, [row EXCEPT ![cur.job] = "deleted"]}
        /\ at' = "pick" /\ portal' = portal /\ took' = took /\ machine' = machine
    BY <1>2 DEF Delete, Execute, NextJob, Job
  <2>3. \A j \in Jobs : row'[j] = "deleted" => row[j] = "deleted" \/ j = cur.job
    BY <2>2 DEF TypeOK
  <2>4. QED
    BY <2>1, <2>2, <2>3 DEF ReportInv, ReportedBeforeDeleted
<1>3. CASE Update
  <2>1. /\ cur.job \in Jobs /\ cur.status # "deleted" /\ at' = "pick"
        /\ portal' = portal /\ took' = took
    <3>1. cur.status \in Interim
      BY <1>3 DEF Update, InHand, TellSteps
    <3>2. QED
      BY <1>3, <3>1 DEF Update, NextJob, InHand, TellSteps, Snapshots, Interim
  <2>2. row' \in {row, [row EXCEPT ![cur.job] = cur.status]}
    BY <1>3 DEF Update, Execute, Job
  <2>3. \A j \in Jobs : row'[j] = "deleted" => row[j] = "deleted"
    BY <2>1, <2>2 DEF TypeOK
  <2>4. QED
    BY <2>1, <2>3, ReportKept
<1>4. ASSUME NEW i \in Jobs, LogJob(i)
      PROVE  ReportInv'
  <2>1. /\ row' = [row EXCEPT ![i] = "submitted"] /\ portal' = portal /\ took' = took
        /\ at' = at /\ cur' = cur
    BY <1>4 DEF LogJob, reporter
  <2>2. \A j \in Jobs : row'[j] = "deleted" => row[j] = "deleted"
    BY <2>1 DEF TypeOK
  <2>3. QED
    BY <2>1, <2>2, ReportKept DEF ReportInv, Job
<1>5. ASSUME NEW i \in Jobs, InitialReport(i)
      PROVE  ReportInv'
  <2>1. /\ portal' \in {portal, [portal EXCEPT ![i] = "submitted"]} /\ row' = row
        /\ at' = at /\ cur' = cur /\ took' = took
    BY <1>5 DEF InitialReport, reporter
  <2>2. \A j \in Jobs : portal'[j] \in {portal[j], "submitted"}
    BY <2>1 DEF TypeOK
  <2>3. at' = "delete" => cur.job \in Jobs
    BY <2>1 DEF InHand, EndSteps, Snapshots
  <2>4. QED
    BY <2>1, <2>2, <2>3, ReportKept DEF ReportInv, Job
<1>6. CASE UNCHANGED <<row, portal, took>> /\ (at' = "delete" => at = "delete" /\ UNCHANGED cur)
  BY <1>6, ReportKept DEF ReportInv, Job
<1>7. QED
  BY <1>1, <1>2, <1>3, <1>4, <1>5, <1>6
     DEF Next, Cycle, Turn, Others, vars, world, reporter, StartCycle, CycleFails, EndCycle,
         Crash, Lapse, Restart, Pick, Mark, Give, Timeline, Artifact, Index, MachineRuns,
         MachineEnds, MachineStamps, MachineForgets, Goto, NextJob

-----------------------------------------------------------------------------
\* The portal is never ahead of the machine, nor of the snapshot of a job in hand.
AheadInv ==
  /\ \A j \in Jobs : Progress(portal[j]) <= Progress(machine[j].status)
  /\ at \in EndSteps \cup TellSteps => Progress(portal[Job]) <= Progress(cur.status)
  /\ at \in EndSteps \cup TellSteps => Progress(cur.status) <= Progress(machine[Job].status)

LEMMA ProgressOf ==
  /\ \A s \in Interim \cup Terminal : Progress(s) \in 2..4
  /\ \A s \in Terminal : Progress(s) = 4
  /\ Progress("none") = 0 /\ Progress("submitted") = 1
  /\ Progress("waiting") = 2 /\ Progress("running") = 3
  /\ \A s \in {"none"} \cup RowStatuses \cup Terminal : Progress(s) \in 0..4
<1>1. \A s \in Terminal : s \notin {"none", "submitted", "waiting", "running"}
  BY TerminalKnown DEF TerminalStatuses
<1>2. QED
  BY <1>1 DEF Progress, Interim, RowStatuses

\* Statuses on the machine move forward.
LEMMA MachineForward ==
  ASSUME TypeOK, [Next]_vars
  PROVE  \A j \in Jobs : Progress(machine[j].status) <= Progress(machine'[j].status)
<1>1. \A j \in Jobs : machine[j].status \in Interim \cup Terminal
  BY DEF TypeOK
<1>2. ASSUME NEW i \in Jobs, MachineRuns(i)
      PROVE  \A j \in Jobs : Progress(machine[j].status) <= Progress(machine'[j].status)
  <2>1. \A j \in Jobs : IF j = i
                          THEN machine[j].status = "waiting" /\ machine'[j].status = "running"
                          ELSE machine'[j].status = machine[j].status
    BY <1>2 DEF MachineRuns, TypeOK
  <2>2. QED
    BY <1>1, <2>1, ProgressOf
<1>3. ASSUME NEW i \in Jobs, MachineEnds(i)
      PROVE  \A j \in Jobs : Progress(machine[j].status) <= Progress(machine'[j].status)
  <2>1. \A j \in Jobs : IF j = i THEN machine'[j].status \in Terminal
                                 ELSE machine'[j].status = machine[j].status
    BY <1>3 DEF MachineEnds, TypeOK
  <2>2. QED
    BY <1>1, <2>1, ProgressOf
<1>4. ASSUME NEW i \in Jobs, MachineStamps(i) \/ MachineForgets(i)
      PROVE  \A j \in Jobs : Progress(machine[j].status) <= Progress(machine'[j].status)
  <2>1. \A j \in Jobs : machine'[j].status = machine[j].status
    BY <1>4 DEF MachineStamps, MachineForgets, TypeOK
  <2>2. QED
    BY <1>1, <2>1, ProgressOf
<1>5. CASE UNCHANGED machine
  BY <1>1, <1>5, ProgressOf
<1>6. QED
  BY <1>2, <1>3, <1>4, <1>5
     DEF Next, Cycle, Turn, Others, vars, StartCycle, CycleFails, EndCycle, Crash, Lapse, Restart,
         Pick, Mark, Give, Timeline, Artifact, Index, Report, Delete, TellInterim, Update,
         LogJob, InitialReport

-----------------------------------------------------------------------------

LEMMA AheadKept ==
  ASSUME TypeOK, AheadInv, [Next]_vars,
         \A j \in Jobs : Progress(portal'[j]) <= Progress(machine[j].status),
         at' \in EndSteps \cup TellSteps =>
           /\ cur' \in Snapshots
           /\ Progress(portal'[cur'.job]) <= Progress(cur'.status)
           /\ Progress(cur'.status) <= Progress(machine[cur'.job].status),
         \A j \in Jobs : Progress(portal'[j]) \in 0..4
  PROVE  AheadInv'
<1>1. \A j \in Jobs : machine[j].status \in Interim \cup Terminal
  BY DEF TypeOK
<1>2. \A j \in Jobs : /\ Progress(machine[j].status) <= Progress(machine'[j].status)
                      /\ Progress(machine[j].status) \in 2..4
  BY <1>1, MachineForward, ProgressOf
<1>3. \A j \in Jobs : Progress(machine'[j].status) \in 0..4
  BY DEF Progress
<1>4. \A j \in Jobs : Progress(portal'[j]) <= Progress(machine'[j].status)
  BY <1>2, <1>3
<1>5. at' \in EndSteps \cup TellSteps =>
        /\ cur'.job \in Jobs
        /\ Progress(cur'.status) \in 0..4
  BY DEF Snapshots, Progress
<1>6. QED
  BY <1>2, <1>3, <1>4, <1>5 DEF AheadInv, Job

\* Every step keeps AheadInv, and takes no job back at the portal.
LEMMA AheadStep ==
  ASSUME TypeOK, InHand, AheadInv, [Next]_vars
  PROVE  /\ AheadInv'
         /\ \A j \in Jobs : \/ Progress(portal[j]) <= Progress(portal'[j])
                            \/ initial[j] = "due" /\ portal'[j] = "submitted"
<1>1. \A s : Progress(s) \in 0..4
  BY DEF Progress
<1>2. \A j \in Jobs : Progress(machine[j].status) \in 2..4
  BY ProgressOf DEF TypeOK
<1>3. at \in EndSteps \cup TellSteps =>
        cur \in Snapshots /\ cur.job \in Jobs /\ Progress(cur.status) \in 2..4
  BY ProgressOf DEF InHand, Snapshots
<1>4. CASE Report \/ TellInterim
  <2>1. /\ at \in EndSteps \cup TellSteps
        /\ portal' \in {portal, [portal EXCEPT ![cur.job] = cur.status]}
        /\ at' \in EndSteps \cup TellSteps => cur' = cur
    BY <1>4, ReportsDo DEF Taken, Refused, EndSteps, TellSteps, Job
  <2>2. /\ Progress(portal[cur.job]) <= Progress(cur.status)
        /\ Progress(cur.status) <= Progress(machine[cur.job].status)
    BY <2>1 DEF AheadInv, Job
  <2>3. \A j \in Jobs : portal'[j] = portal[j] \/ (j = cur.job /\ portal'[j] = cur.status)
    BY <2>1 DEF TypeOK
  <2>4. \A j \in Jobs : /\ Progress(portal[j]) <= Progress(portal'[j])
                        /\ Progress(portal'[j]) <= Progress(machine[j].status)
    BY <1>1, <2>2, <2>3 DEF AheadInv
  <2>5. Progress(portal'[cur.job]) <= Progress(cur.status)
    BY <1>1, <1>3, <2>1, <2>2, <2>3
  <2>6. QED
    BY <1>1, <1>3, <2>1, <2>2, <2>4, <2>5, AheadKept
<1>5. ASSUME NEW i \in Jobs, InitialReport(i)
      PROVE  /\ AheadInv'
             /\ \A j \in Jobs : \/ Progress(portal[j]) <= Progress(portal'[j])
                                \/ initial[j] = "due" /\ portal'[j] = "submitted"
  <2>1. /\ initial[i] = "due" /\ at' = at /\ cur' = cur
        /\ portal' \in {portal, [portal EXCEPT ![i] = "submitted"]}
    BY <1>5 DEF InitialReport, reporter
  <2>2. \A j \in Jobs : portal'[j] = portal[j] \/ (j = i /\ portal'[j] = "submitted")
    BY <2>1 DEF TypeOK
  <2>3. \A j \in Jobs : Progress(portal'[j]) <= Progress(machine[j].status)
    BY <1>2, <2>2, ProgressOf DEF AheadInv
  <2>4. at' \in EndSteps \cup TellSteps =>
          /\ Progress(portal'[cur.job]) <= Progress(cur.status)
          /\ Progress(cur.status) <= Progress(machine[cur.job].status)
    <3>1. SUFFICES ASSUME at \in EndSteps \cup TellSteps
                   PROVE  /\ Progress(portal'[cur.job]) <= Progress(cur.status)
                          /\ Progress(cur.status) <= Progress(machine[cur.job].status)
      BY <2>1
    <3>2. /\ Progress(portal[cur.job]) <= Progress(cur.status)
          /\ Progress(cur.status) <= Progress(machine[cur.job].status)
      BY <3>1 DEF AheadInv, Job
    <3>3. QED
      BY <1>3, <2>2, <3>1, <3>2, ProgressOf
  <2>5. AheadInv'
    BY <1>1, <1>3, <2>1, <2>3, <2>4, AheadKept
  <2>6. QED
    BY <1>1, <2>1, <2>2, <2>5
<1>6. ASSUME NEW i \in Jobs, Pick(i)
      PROVE  AheadInv' /\ UNCHANGED portal
  <2>1. portal' = portal /\ machine[i].status \in Interim \cup Terminal
    BY <1>6 DEF Pick, world, TypeOK
  <2>2. at' \in EndSteps \cup TellSteps => cur'.job = i /\ cur'.status = machine[i].status
    BY <1>6 DEF Pick, EndSteps, TellSteps
  <2>3. at' \in EndSteps \cup TellSteps => cur' \in Snapshots
    BY HandStep DEF InHand
  <2>4. QED
    BY <1>1, <1>2, <2>1, <2>2, <2>3, AheadKept DEF AheadInv
<1>7. CASE /\ UNCHANGED portal
           /\ at' \in EndSteps \cup TellSteps => at \in EndSteps \cup TellSteps /\ UNCHANGED cur
  BY <1>1, <1>3, <1>7, AheadKept DEF AheadInv, Job
<1>8. QED
  BY <1>1, <1>4, <1>5, <1>6, <1>7
     DEF Next, Cycle, Turn, Others, vars, world, reporter, StartCycle, CycleFails, EndCycle,
         Crash, Lapse, Restart, Mark, Give, Timeline, Artifact, Index, Delete, Update, MachineRuns,
         MachineEnds, MachineStamps, MachineForgets, LogJob, Goto, NextJob, EndSteps, TellSteps

-----------------------------------------------------------------------------

-----------------------------------------------------------------------------
\* What is left out is paid for when it is left out: a job in jobs:terminal:processed
\* whose release did not come, a cycle without Redis, an artifact that was skipped.
\* From there it is carried to the end of the turn, where the row is dropped.
Kit(status)        == {"timeline"} \cup Wanted(status)
Lacks(status, got) == Cardinality(Kit(status) \ got)
Due(times)         == IF times = 0 THEN 1 ELSE 0

OmissionInv ==
  /\ \A j \in Jobs : row[j] = "deleted" =>
       Lacks(machine[j].status, index[j]) + Due(released[j]) <= glitches
  /\ at \notin {"asleep", "down"} /\ ~redis => glitches > 0
  /\ \A j \in processed : released[j] = 0 => glitches > 0 \/ (at = "give" /\ j = cur.job)
  /\ at = "timeline" /\ released[cur.job] = 0 => glitches > 0
  /\ at = "artifacts" =>
       Lacks(cur.status, links \cup left) + Due(released[cur.job]) <= glitches
  /\ at \in {"report", "post_report", "delete"} =>
       Lacks(cur.status, index[cur.job]) + Due(released[cur.job]) <= glitches

LEMMA KitFinite == \A s : IsFiniteSet(Kit(s))
<1>1. IsFiniteSet(Results \cup {"payload"})
  BY JobsFinite, ResultsKnown, FS_AddElement
<1>2. IsFiniteSet(Results \cup {"payload"} \cup {"error_log"})
  BY <1>1, FS_AddElement
<1>3. IsFiniteSet(Results \cup {"payload"} \cup {"error_log"} \cup {"timeline"})
  BY <1>2, FS_AddElement
<1>4. \A s : Kit(s) \in SUBSET (Results \cup {"payload"} \cup {"error_log"} \cup {"timeline"})
  BY DEF Kit, Wanted
<1>5. QED
  BY <1>3, <1>4, FS_Subset

LEMMA LacksNatural == \A s, G : Lacks(s, G) \in Nat
<1> TAKE s, G
<1>1. IsFiniteSet(Kit(s) \ G)
  BY KitFinite, FS_Subset
<1>2. QED
  BY <1>1, FS_CardinalityType DEF Lacks

\* One thing fewer that was got adds one at most to what is lacking.
LEMMA LacksOneMore ==
  ASSUME NEW s, NEW G, NEW H, NEW x, Kit(s) \ H \subseteq (Kit(s) \ G) \cup {x}
  PROVE  Lacks(s, H) <= Lacks(s, G) + 1
<1> DEFINE S == Kit(s) \ G
           T == Kit(s) \ H
<1>1. IsFiniteSet(S) /\ IsFiniteSet(T)
  BY KitFinite, FS_Subset
<1>2. T \subseteq S \cup {x}
  OBVIOUS
<1>3. Lacks(s, G) = Cardinality(S) /\ Lacks(s, H) = Cardinality(T)
  BY DEF Lacks
<1> HIDE DEF S, T
<1>4. Cardinality(S) \in Nat /\ Cardinality(T) \in Nat
  BY <1>1, FS_CardinalityType
<1>5. /\ IsFiniteSet(S \cup {x})
      /\ Cardinality(S \cup {x}) = IF x \in S THEN Cardinality(S) ELSE Cardinality(S) + 1
  BY <1>1, FS_AddElement
<1>6. Cardinality(T) <= Cardinality(S \cup {x})
  BY <1>2, <1>5, FS_Subset
<1>7. QED
  BY <1>3, <1>4, <1>5, <1>6

\* Failures are not forgotten, nor releases.
LEMMA Monotone ==
  ASSUME TypeOK, [Next]_vars
  PROVE  /\ glitches \in Nat /\ glitches' \in Nat /\ glitches <= glitches'
         /\ \A j \in Jobs : released'[j] = 0 => released[j] = 0
         /\ released' = released \/ Give
<1>1. glitches \in Nat
  BY BoundsAreNatural DEF TypeOK
<1>2. glitches' = glitches \/ glitches' = glitches + 1
  BY DEF Next, Cycle, Turn, Others, vars, StartCycle, CycleFails, EndCycle, Crash, Lapse, Restart,
         Pick, Mark, Give, Timeline, Artifact, Index, Report, Delete, TellInterim, Update,
         Put, Post, Taken, Refused, Unreported, Execute, Works, Fails, MachineRuns,
         MachineEnds, MachineStamps,
         MachineForgets, LogJob, InitialReport
<1>3. released' = released \/ Give
  BY DEF Next, Cycle, Turn, Others, vars, world, StartCycle, CycleFails, EndCycle, Crash, Lapse,
         Restart, Pick, Mark, Timeline, Artifact, Index, Report, Delete, TellInterim, Update,
         MachineRuns, MachineEnds, MachineStamps, MachineForgets, LogJob, InitialReport
<1>4. CASE Give
  BY <1>1, <1>2, <1>4 DEF Give, TypeOK
<1>5. QED
  BY <1>1, <1>2, <1>3, <1>4

\* No row goes, and the page of a job without a row stays.
LEMMA PaidStay ==
  ASSUME TypeOK, ReportInv, OmissionInv, [Next]_vars,
         \A j \in Jobs : row'[j] = "deleted" => row[j] = "deleted" /\ index'[j] = index[j]
  PROVE  \A j \in Jobs : row'[j] = "deleted" =>
           Lacks(machine'[j].status, index'[j]) + Due(released'[j]) <= glitches'
<1> SUFFICES ASSUME NEW j \in Jobs, row'[j] = "deleted"
             PROVE  Lacks(machine'[j].status, index'[j]) + Due(released'[j]) <= glitches'
  OBVIOUS
<1>1. Lacks(machine[j].status, index[j]) + Due(released[j]) <= glitches
  BY DEF OmissionInv
<1>2. machine'[j].status = machine[j].status /\ index'[j] = index[j]
  BY TerminalStays DEF ReportInv
<1>3. Due(released'[j]) <= Due(released[j]) /\ Due(released'[j]) \in Nat /\ Due(released[j]) \in Nat
  BY Monotone DEF Due
<1>4. Lacks(machine[j].status, index[j]) \in Nat
  BY LacksNatural
<1>5. QED
  BY <1>1, <1>2, <1>3, <1>4, Monotone

\* A step that settles nothing of the job in hand, or puts it down.
LEMMA OmissionKept ==
  ASSUME TypeOK, ReportInv, OmissionInv, [Next]_vars,
         UNCHANGED <<index, released>>, processed' \subseteq processed,
         \A j \in Jobs : row'[j] = "deleted" => row[j] = "deleted",
         at' \notin {"asleep", "down"} => at \notin {"asleep", "down"} /\ UNCHANGED redis,
         at' = "timeline" => at = "timeline" /\ UNCHANGED cur,
         at' = "artifacts" => at = "artifacts" /\ UNCHANGED <<cur, links, left>>,
         at' \in {"report", "post_report", "delete"} =>
           at \in {"report", "post_report", "delete"} /\ UNCHANGED cur,
         at = "give" => glitches' > 0 \/ (at' = "give" /\ UNCHANGED cur)
  PROVE  OmissionInv'
<1>1. \A j \in Jobs : row'[j] = "deleted" =>
        Lacks(machine'[j].status, index'[j]) + Due(released'[j]) <= glitches'
  BY PaidStay
<1>2. glitches \in Nat /\ glitches' \in Nat /\ glitches <= glitches'
  BY Monotone
<1>3. \A n : Due(n) \in Nat
  BY DEF Due
<1>4. at' \notin {"asleep", "down"} /\ ~redis' => glitches' > 0
  BY <1>2 DEF OmissionInv
<1>5. \A j \in processed' : released'[j] = 0 => glitches' > 0 \/ (at' = "give" /\ j = cur'.job)
  BY <1>2 DEF OmissionInv
<1>6. at' = "timeline" /\ released'[cur'.job] = 0 => glitches' > 0
  BY <1>2 DEF OmissionInv
<1>7. at' = "artifacts" =>
        Lacks(cur'.status, links' \cup left') + Due(released'[cur'.job]) <= glitches'
  BY <1>2, <1>3, LacksNatural DEF OmissionInv
<1>8. at' \in {"report", "post_report", "delete"} =>
        Lacks(cur'.status, index'[cur'.job]) + Due(released'[cur'.job]) <= glitches'
  BY <1>2, <1>3, LacksNatural DEF OmissionInv
<1>9. QED
  BY <1>1, <1>4, <1>5, <1>6, <1>7, <1>8 DEF OmissionInv

LEMMA OmissionTurn ==
  ASSUME TypeOK, InHand, ReportInv, OmissionInv, [Next]_vars,
         \/ Mark \/ Give \/ Timeline \/ (\E a \in Artifacts : Artifact(a)) \/ Index \/ Delete
  PROVE  OmissionInv'
<1>1. /\ cur \in Snapshots /\ cur.job \in Jobs /\ cur.status \in Terminal
      /\ machine[cur.job].status = cur.status /\ row[cur.job] # "deleted"
      /\ at \in EndSteps
  BY DEF InHand, EndSteps, Snapshots, Job, Mark, Give, Timeline, Artifact, Index, Delete
<1>2. glitches \in Nat /\ glitches' \in Nat /\ glitches <= glitches'
  BY Monotone
<1>3. \A n : Due(n) \in {0, 1}
  BY DEF Due
<1>4. at' \notin {"asleep", "down"} /\ redis' = redis
  BY DEF Mark, Give, Timeline, Artifact, Index, Delete, Goto, NextJob
<1>5. at' \notin {"asleep", "down"} /\ ~redis' => glitches' > 0
  BY <1>1, <1>2, <1>4 DEF OmissionInv, EndSteps
<1>6. CASE Mark
  <2>1. /\ \A j \in Jobs : row'[j] = "deleted" =>
             Lacks(machine'[j].status, index'[j]) + Due(released'[j]) <= glitches'
        /\ cur' = cur /\ released' = released /\ at' \in {"give", "timeline"}
    BY <1>6, PaidStay DEF Mark, Goto
  <2>2. at' = "timeline" => glitches' > 0 \/ released[cur.job] # 0
    BY <1>1, <1>2, <1>6 DEF Mark, Goto, Job, Works, Fails, OmissionInv, EndSteps
  <2>3. processed' \subseteq processed \cup {cur.job}
    BY <1>6 DEF Mark, Job
  <2>4. at = "mark"
    BY <1>6 DEF Mark
  <2>5. \A j \in processed' : released'[j] = 0 => glitches' > 0 \/ (at' = "give" /\ j = cur'.job)
    BY <1>2, <2>1, <2>2, <2>3, <2>4 DEF OmissionInv
  <2>6. QED
    BY <1>5, <2>1, <2>2, <2>5 DEF OmissionInv
<1>7. CASE Give
  <2>1. /\ \A j \in Jobs : row'[j] = "deleted" =>
             Lacks(machine'[j].status, index'[j]) + Due(released'[j]) <= glitches'
        /\ cur' = cur /\ at' = "timeline" /\ processed' = processed
    BY <1>7, PaidStay DEF Give, Goto
  <2>2. released' = [released EXCEPT ![cur.job] = @ + 1] /\ released'[cur.job] # 0
    BY <1>1, <1>7 DEF Give, Job, TypeOK
  <2>3. \A j \in processed' : released'[j] = 0 => glitches' > 0
    BY <1>2, <2>1, <2>2 DEF OmissionInv, TypeOK
  <2>4. QED
    BY <1>5, <2>1, <2>2, <2>3 DEF OmissionInv
<1>8. CASE ~Mark /\ ~Give
  <2>1. released' = released /\ processed' = processed /\ at' # "timeline" /\ at # "give"
    BY <1>8 DEF Timeline, Artifact, Index, Delete, Goto, NextJob
  <2>2. \A j \in processed' : released'[j] = 0 => glitches' > 0
    BY <1>2, <2>1 DEF OmissionInv
  <2>3. SUFFICES
          /\ \A j \in Jobs : row'[j] = "deleted" =>
               Lacks(machine'[j].status, index'[j]) + Due(released'[j]) <= glitches'
          /\ at' = "artifacts" =>
               Lacks(cur'.status, links' \cup left') + Due(released'[cur'.job]) <= glitches'
          /\ at' \in {"report", "post_report", "delete"} =>
               Lacks(cur'.status, index'[cur'.job]) + Due(released'[cur'.job]) <= glitches'
    BY <1>5, <2>1, <2>2 DEF OmissionInv
  <2>4. CASE Timeline
    <3>1. /\ \A j \in Jobs : row'[j] = "deleted" =>
               Lacks(machine'[j].status, index'[j]) + Due(released'[j]) <= glitches'
          /\ at' \in {"pick", "artifacts"}
      BY <2>4, PaidStay DEF Timeline, NextJob
    <3>2. PICK linked \in SUBSET {"timeline"} :
            /\ linked = {} => glitches' = glitches + 1
            /\ at' = "artifacts" =>
                 left' = Wanted(cur.status) /\ links' = linked /\ cur' = cur
      BY <2>4 DEF Timeline, NextJob, Fails
    <3>3. Due(released[cur.job]) <= glitches
      BY <1>2, <2>4 DEF Timeline, OmissionInv, Due
    <3>4. CASE linked = {}
      <4>1. Lacks(cur.status, {} \cup Wanted(cur.status)) <= Lacks(cur.status, Kit(cur.status)) + 1
        BY LacksOneMore DEF Kit
      <4>2. Lacks(cur.status, Kit(cur.status)) = 0
        BY FS_EmptySet DEF Lacks
      <4>3. at' = "artifacts" =>
              /\ Lacks(cur'.status, links' \cup left') <= 1
              /\ Due(released'[cur'.job]) = Due(released[cur.job])
        <5>1. Lacks(cur.status, {} \cup Wanted(cur.status)) <= 1
          BY <4>1, <4>2
        <5>2. at' = "artifacts" => links' \cup left' = {} \cup Wanted(cur.status) /\ cur' = cur
          BY <3>2, <3>4
        <5>3. QED
          BY <2>1, <5>1, <5>2
      <4>4. glitches' = glitches + 1
        BY <3>2, <3>4
      <4>5. QED
        BY <1>2, <1>3, <3>1, <3>3, <4>3, <4>4, LacksNatural
    <3>5. CASE linked = {"timeline"}
      <4>1. Lacks(cur.status, {"timeline"} \cup Wanted(cur.status)) = 0
        BY FS_EmptySet DEF Lacks, Kit
      <4>2. QED
        BY <1>2, <1>3, <2>1, <3>1, <3>2, <3>3, <3>5, <4>1
    <3>6. QED
      BY <3>2, <3>4, <3>5
  <2>5. CASE \E a \in Artifacts : Artifact(a)
    <3> PICK a \in Artifacts : Artifact(a)
      BY <2>5
    <3>1. /\ \A j \in Jobs : row'[j] = "deleted" =>
               Lacks(machine'[j].status, index'[j]) + Due(released'[j]) <= glitches'
          /\ at = "artifacts" /\ at' \in {"artifacts", "pick"}
      BY PaidStay DEF Artifact, NextJob
    <3>2. Lacks(cur.status, links \cup left) + Due(released[cur.job]) <= glitches
      BY <3>1 DEF OmissionInv
    <3>3. CASE /\ left' = left \ {a} /\ cur' = cur
               /\ \E extra \in SUBSET Extras : links' = links \cup {a} \cup extra
      <4>1. Kit(cur.status) \ (links' \cup left') = Kit(cur.status) \ (links \cup left)
        <5>1. PICK extra \in SUBSET Extras : links' = links \cup {a} \cup extra
          BY <3>3
        <5>2. Kit(cur.status) \subseteq Artifacts \cup {"timeline"}
          BY DEF Kit, Wanted, Artifacts
        <5>3. Kit(cur.status) \cap extra = {}
          BY <5>1, <5>2, ExtrasApart
        <5>4. a \in left
          BY DEF Artifact
        <5>5. QED
          BY <3>3, <5>1, <5>3, <5>4
      <4>2. /\ Lacks(cur.status, links' \cup left') \in Nat
            /\ Due(released[cur.job]) \in Nat
        BY <1>3, LacksNatural
      <4>3. Lacks(cur.status, links' \cup left') + Due(released[cur.job]) <= glitches'
        <5>1. Lacks(cur.status, links' \cup left') = Lacks(cur.status, links \cup left)
          BY <4>1 DEF Lacks
        <5>2. QED
          BY <1>2, <3>2, <4>2, <5>1
      <4>4. QED
        BY <2>1, <3>1, <3>3, <4>3
    <3>4. CASE links' = links /\ left' = left \ {a} /\ cur' = cur /\ glitches' = glitches + 1
      <4>1. Lacks(cur.status, links' \cup left') <= Lacks(cur.status, links \cup left) + 1
        BY <3>4, LacksOneMore
      <4>2. /\ Lacks(cur.status, links \cup left) \in Nat
            /\ Lacks(cur.status, links' \cup left') \in Nat
            /\ Due(released[cur.job]) \in Nat
        BY <1>3, LacksNatural
      <4>3. Lacks(cur.status, links' \cup left') + Due(released[cur.job]) <= glitches'
        BY <1>2, <3>2, <3>4, <4>1, <4>2
      <4>4. QED
        BY <2>1, <3>1, <3>4, <4>3
    <3>5. CASE at' = "pick"
      BY <3>1, <3>5
    <3>6. QED
      BY <3>3, <3>4, <3>5 DEF Artifact, NextJob, Fails
  <2>6. CASE Index
    <3>1. /\ at = "artifacts" /\ left = {} /\ row' = row /\ machine' = machine
          /\ \/ at' = "report" /\ cur' = cur /\ index' = [index EXCEPT ![cur.job] = links]
             \/ at' = "pick" /\ index' \in {index, [index EXCEPT ![cur.job] = links]}
      BY <2>6 DEF Index, Goto, NextJob, Job
    <3>2. \A j \in Jobs : row'[j] = "deleted" => index'[j] = index[j]
      BY <1>1, <3>1 DEF TypeOK
    <3>3. \A j \in Jobs : row'[j] = "deleted" =>
            Lacks(machine'[j].status, index'[j]) + Due(released'[j]) <= glitches'
      BY <3>1, <3>2, PaidStay
    <3>4. at' = "report" => index'[cur.job] = links \cup left
      BY <1>1, <3>1 DEF TypeOK
    <3>5. Lacks(cur.status, links \cup left) + Due(released[cur.job]) <= glitches
      BY <3>1 DEF OmissionInv
    <3>6. QED
      BY <1>2, <1>3, <2>1, <3>1, <3>3, <3>4, <3>5, LacksNatural
  <2>7. CASE Delete
    <3>1. /\ at = "delete" /\ at' = "pick" /\ index' = index /\ machine' = machine
          /\ row' \in {row, [row EXCEPT ![cur.job] = "deleted"]}
      BY <2>7 DEF Delete, Execute, NextJob, Job
    <3>2. Lacks(cur.status, index[cur.job]) + Due(released[cur.job]) <= glitches
      BY <3>1 DEF OmissionInv
    <3>3. ASSUME NEW j \in Jobs, row'[j] = "deleted"
          PROVE  Lacks(machine'[j].status, index'[j]) + Due(released'[j]) <= glitches'
      <4>1. row[j] = "deleted" \/ j = cur.job
        BY <3>1, <3>3 DEF TypeOK
      <4>2. Lacks(machine[j].status, index[j]) + Due(released[j]) <= glitches
        BY <1>1, <3>2, <4>1 DEF OmissionInv
      <4>3. QED
        BY <1>2, <1>3, <2>1, <3>1, <4>2, LacksNatural
    <3>4. QED
      BY <3>1, <3>3
  <2>8. QED
    BY <1>8, <2>4, <2>5, <2>6, <2>7
<1>9. QED
  BY <1>6, <1>7, <1>8

LEMMA OmissionStep == TypeOK /\ InHand /\ ReportInv /\ OmissionInv /\ [Next]_vars => OmissionInv'
<1> SUFFICES ASSUME TypeOK, InHand, ReportInv, OmissionInv, [Next]_vars
             PROVE  OmissionInv'
  OBVIOUS
<1>1. CASE Mark \/ Give \/ Timeline \/ (\E a \in Artifacts : Artifact(a)) \/ Index \/ Delete
  BY <1>1, OmissionTurn
<1>2. CASE StartCycle
  <2>1. /\ at = "asleep" /\ at' = "pick" /\ index' = index /\ processed' = processed
        /\ released' = released /\ row' = row
        /\ ~redis' => glitches' = glitches + 1
    BY <1>2 DEF StartCycle, world, Fails
  <2>2. \A j \in Jobs : row'[j] = "deleted" =>
          Lacks(machine'[j].status, index'[j]) + Due(released'[j]) <= glitches'
    BY <2>1, PaidStay
  <2>3. \A j \in processed' : released'[j] = 0 => glitches' > 0
    BY <2>1, Monotone DEF OmissionInv
  <2>4. QED
    BY <2>1, <2>2, <2>3, Monotone DEF OmissionInv
<1>3. CASE Update
  <2>1. row' \in {row, [row EXCEPT ![cur.job] = cur.status]}
    BY <1>3 DEF Update, Execute, Job
  <2>2. cur.status # "deleted"
    BY <1>3 DEF Update, InHand, TellSteps, Interim
  <2>3. \A j \in Jobs : row'[j] = "deleted" => row[j] = "deleted"
    BY <2>1, <2>2 DEF TypeOK
  <2>4. QED
    BY <1>3, <2>3, OmissionKept DEF Update, NextJob
<1>4. ASSUME NEW i \in Jobs, LogJob(i)
      PROVE  OmissionInv'
  <2>1. \A j \in Jobs : row'[j] = "deleted" => row[j] = "deleted"
    BY <1>4 DEF LogJob, TypeOK
  <2>2. QED
    BY <1>4, <2>1, OmissionKept DEF LogJob, reporter
<1>5. CASE EndCycle \/ CycleFails \/ Restart \/ Crash \/ Lapse
  <2>1. /\ UNCHANGED <<index, released, row>> /\ processed' \subseteq processed
        /\ at' \in {"asleep", "down"}
        /\ at # "give" \/ glitches' = glitches + 1
    BY <1>5 DEF EndCycle, CycleFails, Restart, Crash, Lapse, world, reporter, Fails
  <2>2. QED
    BY <2>1, OmissionKept, Monotone
<1>6. CASE \E j \in Jobs : Pick(j)
  BY <1>6, OmissionKept DEF Pick, world
<1>7. CASE Report \/ TellInterim
  <2>1. /\ UNCHANGED <<row, processed, released, index, redis>>
        /\ at \notin {"asleep", "down", "give"}
        /\ at' \in {"pick", "post_report", "delete", "post_tell", "update"}
        /\ at' \in {"report", "post_report", "delete"} =>
             at \in {"report", "post_report", "delete"} /\ UNCHANGED cur
    BY <1>7, ReportsDo
  <2>2. QED
    BY <2>1, OmissionKept
<1>8. CASE UNCHANGED <<row, processed, released, index, reporter>>
  BY <1>8, OmissionKept DEF reporter
<1>9. QED
  BY <1>1, <1>2, <1>3, <1>4, <1>5, <1>6, <1>7, <1>8
     DEF Next, Cycle, Turn, Others, vars, world, MachineRuns, MachineEnds, MachineStamps,
         MachineForgets, InitialReport

-----------------------------------------------------------------------------
\* What holds in every reachable state, and makes the theorems below hold.
Kept ==
  TypeOK /\ InHand /\ ReleaseInv /\ LinkInv /\ ReportInv /\ AheadInv /\ OmissionInv

LEMMA AlwaysKept == Spec => []Kept
<1>1. Init => ReleaseInv
  BY DEF Init, ReleaseInv, ReleasedOnce
<1>2. Init => LinkInv
  BY DEF Init, LinkInv, LinksResolve
<1>3. Init => ReportInv
  BY DEF Init, ReportInv, ReportedBeforeDeleted
<1>4. Init => AheadInv
  BY ProgressOf DEF Init, AheadInv, EndSteps, TellSteps
<1>5. Init => OmissionInv
  BY DEF Init, OmissionInv
<1>6. Init => Kept
  BY HandInit, <1>1, <1>2, <1>3, <1>4, <1>5 DEF Kept
<1>7. Kept /\ [Next]_vars => Kept'
  BY TypeStep, HandStep, ReleaseStep, LinkStep, ReportStep, AheadStep,
     OmissionStep DEF Kept
<1>8. QED
  BY <1>6, <1>7, PTL DEF Spec

\* Every variable keeps its type, whatever fails.
THEOREM TypeCorrect == Spec => []TypeOK
BY AlwaysKept, PTL DEF Kept

\* The reservation of a job is released at most once, and only when the job ended
\* (process_once, the SADD and decrement_user_counters), for any number of jobs,
\* crashes and failed calls; each expiry of the set that remembers it allows one more.
THEOREM ReservationReleasedOnce == Spec => []ReleasedOnce
<1>1. Kept => ReleasedOnce
  BY DEF Kept, ReleaseInv
<1>2. QED
  BY <1>1, AlwaysKept, PTL

\* The page of a job (upload_links_html) never links to an object that is not there.
THEOREM LinksAlwaysResolve == Spec => []LinksResolve
<1>1. Kept => LinksResolve
  BY DEF Kept, LinkInv
<1>2. QED
  BY <1>1, AlwaysKept, PTL

\* A row is deleted only after the portal took the job's final status, and it still
\* has it, or the gateway's late first report in its place.
THEOREM ReportedFirst == Spec => []ReportedBeforeDeleted
<1>1. Kept => ReportedBeforeDeleted
  BY DEF Kept, ReportInv
<1>2. QED
  BY <1>1, AlwaysKept, PTL

\* A job whose row is gone lacks no more links and releases than calls failed: with
\* no failure, none, and a shortfall of n takes n failures, whatever the jobs around it.
THEOREM OmissionsArePaid == Spec => []OmissionsCostFailures
<1>1. Kept => OmissionsCostFailures
  BY DEF Kept, OmissionInv, OmissionsCostFailures, Belongings, Lacks, Kit, Due
<1>2. QED
  BY <1>1, AlwaysKept, PTL

\* The reporter never takes a job back at the portal.
THEOREM PortalNeverBack == Spec => PortalForward
<1>1. Kept /\ [Next]_vars =>
        [\A j \in Jobs : \/ Progress(portal[j]) <= Progress(portal'[j])
                         \/ initial[j] = "due" /\ portal'[j] = "submitted"]_vars
  BY AheadStep DEF Kept
<1>2. QED
  BY <1>1, AlwaysKept, PTL DEF Spec, PortalForward

-----------------------------------------------------------------------------
\* The life of a job: every step of the reporter, the gateway and the machine is one
\* of the life's, or none.
Logged  == {j \in Jobs : row[j] # "none"}
Ended   == {j \in Jobs : machine[j].status \in Terminal}
Dropped == {j \in Jobs : row[j] = "deleted"}

\* A step that changes none of what the life is about.
LEMMA LifeStutters ==
  ASSUME UNCHANGED <<released, lapses, took>>,
         Logged' = Logged, Ended' = Ended, Dropped' = Dropped
  PROVE  UNCHANGED Life!life
BY DEF Life!life, Logged, Ended, Dropped

\* The job in hand of a turn over its end is logged, ended and not dropped.
LEMMA EndIsOver ==
  ASSUME TypeOK, InHand, at \in EndSteps
  PROVE  cur.job \in Jobs /\ Life!Over(cur.job) /\ cur.status \in Terminal
BY DEF InHand, Snapshots, Job, Life!Over

LEMMA LifeMachine ==
  ASSUME TypeOK, NEW i \in Jobs,
         MachineRuns(i) \/ MachineEnds(i) \/ MachineStamps(i) \/ MachineForgets(i)
  PROVE  [Life!Live]_Life!life
<1>1. /\ UNCHANGED <<released, lapses, took>>
      /\ Logged' = Logged /\ Dropped' = Dropped
  BY DEF MachineRuns, MachineEnds, MachineStamps, MachineForgets, world, Logged, Dropped
<1>2. \A s \in Terminal : s \notin Interim
  BY TerminalKnown DEF TerminalStatuses, Interim
<1>3. CASE MachineEnds(i)
  <2>1. /\ machine[i].status \notin Terminal /\ machine'[i].status \in Terminal
        /\ \A j \in Jobs : j # i => machine'[j] = machine[j]
    BY <1>2, <1>3 DEF MachineEnds, TypeOK
  <2>2. i \notin Ended /\ Ended' = Ended \cup {i}
    BY <2>1 DEF Ended
  <2>3. Life!End(i)
    BY <1>1, <2>2 DEF Life!End, Logged, Ended, Dropped
  <2>4. QED
    BY <2>3 DEF Life!Live
<1>4. CASE MachineRuns(i)
  <2>1. /\ machine[i].status \notin Terminal /\ machine'[i].status \notin Terminal
        /\ \A j \in Jobs : j # i => machine'[j] = machine[j]
    BY <1>2, <1>4 DEF MachineRuns, Interim, TypeOK
  <2>2. Ended' = Ended
    BY <2>1 DEF Ended
  <2>3. QED
    BY <1>1, <2>2, LifeStutters
<1>5. CASE MachineStamps(i) \/ MachineForgets(i)
  <2>1. \A j \in Jobs : machine'[j].status = machine[j].status
    <3>1. CASE MachineStamps(i)
      BY <3>1 DEF MachineStamps, TypeOK
    <3>2. CASE MachineForgets(i)
      BY <3>2 DEF MachineForgets, TypeOK
    <3>3. QED
      BY <1>5, <3>1, <3>2
  <2>2. Ended' = Ended
    BY <2>1 DEF Ended
  <2>3. QED
    BY <1>1, <2>2, LifeStutters
<1>6. QED
  BY <1>3, <1>4, <1>5

LEMMA LifeStep ==
  ASSUME TypeOK, InHand, ReleaseInv, ReportInv, [Next]_vars
  PROVE  [Life!Live]_Life!life
<1>1. ASSUME NEW i \in Jobs, LogJob(i)
      PROVE  [Life!Live]_Life!life
  <2>1. /\ i \notin Logged /\ Logged' = Logged \cup {i} /\ Dropped' = Dropped /\ Ended' = Ended
        /\ UNCHANGED <<released, lapses, took>>
    BY <1>1 DEF LogJob, Logged, Dropped, Ended, TypeOK
  <2>2. Life!Log(i)
    BY <2>1 DEF Life!Log, Logged, Dropped, Ended
  <2>3. QED
    BY <2>2 DEF Life!Live
<1>2. CASE Give
  <2>1. at \in EndSteps /\ released[cur.job] <= lapses
    BY <1>2 DEF Give, EndSteps, ReleaseInv, Job
  <2>2. cur.job \in Jobs /\ Life!Over(cur.job)
    BY <2>1, EndIsOver
  <2>3. /\ released' = [released EXCEPT ![cur.job] = @ + 1]
        /\ UNCHANGED <<row, machine, lapses, took>>
    BY <1>2 DEF Give, Job
  <2>4. Life!Free(cur.job)
    BY <2>1, <2>2, <2>3 DEF Life!Free
  <2>5. QED
    BY <2>2, <2>4 DEF Life!Live
<1>3. CASE Lapse
  BY <1>3 DEF Lapse, Life!Live, Life!Forget
<1>4. CASE Report \/ TellInterim
  <2>1. /\ UNCHANGED <<row, machine, released, lapses>>
        /\ Taken \/ Refused
        /\ at \in EndSteps \cup TellSteps
    BY <1>4, ReportsDo DEF EndSteps, TellSteps
  <2>2. CASE took' = took
    BY <2>1, <2>2, LifeStutters DEF Logged, Ended, Dropped
  <2>3. CASE took' # took
    <3>1. cur.status \in Terminal /\ took' = took \cup {cur.job}
      BY <2>1, <2>3 DEF Taken, Refused, Job
    <3>2. \A s \in Terminal : s \notin Interim
      BY TerminalKnown DEF TerminalStatuses, Interim
    <3>3. at \in EndSteps
      BY <2>1, <3>1, <3>2 DEF InHand
    <3>4. cur.job \in Jobs /\ Life!Over(cur.job)
      BY <3>3, EndIsOver
    <3>5. Life!TellEnd(cur.job)
      BY <2>1, <3>1, <3>4 DEF Life!TellEnd
    <3>6. QED
      BY <3>4, <3>5 DEF Life!Live
  <2>4. QED
    BY <2>2, <2>3
<1>5. CASE Delete
  <2>1. at \in EndSteps /\ cur.job \in took
    BY <1>5 DEF Delete, EndSteps, ReportInv, Job
  <2>2. cur.job \in Jobs /\ Life!Over(cur.job)
    BY <2>1, EndIsOver
  <2>3. /\ row' \in {row, [row EXCEPT ![cur.job] = "deleted"]}
        /\ UNCHANGED <<machine, released, lapses, took>>
    BY <1>5 DEF Delete, Execute, Job
  <2>4. CASE row' = row
    BY <2>3, <2>4, LifeStutters DEF Logged, Ended, Dropped
  <2>5. CASE row' = [row EXCEPT ![cur.job] = "deleted"]
    <3>1. cur.job \in Logged
      BY <2>2 DEF Life!Over, Logged
    <3>2. Logged' = Logged /\ Ended' = Ended /\ Dropped' = Dropped \cup {cur.job}
      BY <2>2, <2>3, <2>5, <3>1 DEF Logged, Ended, Dropped, TypeOK
    <3>3. PICK j \in Jobs : cur.job = j
      BY <2>2
    <3>4. /\ Life!Over(j) /\ j \in took
          /\ Dropped' = Dropped \cup {j} /\ Logged' = Logged /\ Ended' = Ended
          /\ UNCHANGED <<released, lapses, took>>
      BY <2>1, <2>2, <2>3, <3>2, <3>3
    <3>5. Life!Drop(j)
      BY <3>4 DEF Life!Drop, Logged, Ended, Dropped
    <3>6. QED
      BY <3>5 DEF Life!Live
  <2>6. QED
    BY <2>3, <2>4, <2>5
<1>6. CASE Update
  <2>1. /\ cur.job \in Jobs /\ row[cur.job] \notin {"none", "deleted"}
        /\ cur.status \notin {"none", "deleted"}
    BY <1>6 DEF Update, InHand, TellSteps, Snapshots, Job, Interim
  <2>2. /\ row' \in {row, [row EXCEPT ![cur.job] = cur.status]}
        /\ UNCHANGED <<machine, released, lapses, took>>
    BY <1>6 DEF Update, Execute, Job
  <2>3. Logged' = Logged /\ Ended' = Ended /\ Dropped' = Dropped
    BY <2>1, <2>2 DEF Logged, Ended, Dropped, TypeOK
  <2>4. QED
    BY <2>2, <2>3, LifeStutters
<1>7. CASE UNCHANGED <<row, machine, released, lapses, took>>
  BY <1>7, LifeStutters DEF Logged, Ended, Dropped
<1>8. QED
  BY <1>1, <1>2, <1>3, <1>4, <1>5, <1>6, <1>7, LifeMachine
     DEF Next, Cycle, Turn, Others, vars, world, reporter, StartCycle, CycleFails, EndCycle,
         Crash, Restart, Pick, Mark, Timeline, Artifact, Index, InitialReport

\* The reporter, with the gateway and the machine, implements JobLifecycle: whatever
\* fails, a job is released and told only between its end and the end of its row, and
\* its row goes only after the portal was told.
THEOREM ReporterKeepsThePromise == Spec => LivesAsPromised
<1>1. Init => Life!Born
  <2>1. ASSUME Init
        PROVE  Logged = {} /\ Ended = {} /\ Dropped = {}
    <3>1. \A s \in Terminal : s # "waiting"
      BY TerminalKnown DEF TerminalStatuses
    <3>2. QED
      BY <2>1, <3>1 DEF Init, Logged, Ended, Dropped
  <2>2. QED
    BY <2>1 DEF Init, Life!Born, Logged, Ended, Dropped
<1>2. Kept /\ [Next]_vars => [Life!Live]_Life!life
  BY LifeStep DEF Kept
<1>3. QED
  BY <1>1, <1>2, AlwaysKept, PTL DEF Spec, LivesAsPromised, Life!LifeSpec

=============================================================================

------------------------- MODULE SweepParserProofs -------------------------
(***************************************************************************)
(* What the sweep parser keeps, for any artifact and any limits: what it   *)
(* draws of traces, fields, envelopes and schedules, what the probe finds, *)
(* and when a view is lost.                                                *)
(***************************************************************************)
EXTENDS SweepParser, DecimationProofs

-----------------------------------------------------------------------------
\* The types.
LEMMA NoProbeTyped ==
  \A i \in Int : [idx |-> i, depth |-> 0, wf |-> "none"]
                  \in [idx : Int, depth : 0..(MaxDepth + 1), wf : Names \cup {"none"}]
<1>1. 0 \in 0..(MaxDepth + 1)
  BY ScheduleLimits
<1> QED BY <1>1

\* The artifact as it arrives.
LEMMA InitTyped == Init => TypeOK
<1> SUFFICES ASSUME Init PROVE TypeOK
  OBVIOUS
<1>1. Bare \in Sweeps
  BY DEF Bare, Sweeps
<1>2. run \in RunDefinitions
  BY <1>1 DEF Init, RunInit, NoRun, RunDefinitions
<1>3. /\ results = {} /\ key = NoKey /\ spots \in Seq(Arrays) /\ view = "reading"
      /\ entry = NoEntry /\ entry.drawn = "nothing"
  BY DEF Init, ResultsInit, NoEntry
<1>4. shown \in [source : {"none", "inline", "packed"}, axes : BOOLEAN, metadata : BOOLEAN,
                playlist : BOOLEAN, schedules : Seq(Nat), total : Nat]
  BY DEF Init, RunInit
<1>5. table \in Seq(Instructions) /\ trigger \in Int /\ step = "bytes"
  BY DEF Init, RunInit
<1>6. probe \in [idx : Int, depth : 0..(MaxDepth + 1), wf : Names \cup {"none"}]
  BY NoProbeTyped DEF Init, RunInit, NoProbe
<1> QED BY <1>2, <1>3, <1>4, <1>5, <1>6 DEF TypeOK

\* The steps of parse_sweep_results.
LEMMA ResultsTyped ==
  ASSUME TypeOK, ResultsNext, UNCHANGED runVars
  PROVE  TypeOK'
<1> USE DEF TypeOK, runVars, inHand
<1>0. InHand => key \in Labels /\ entry = NoEntry
  BY DEF InHand
<1>1. CASE Undecodable
  BY <1>1 DEF Undecodable
<1>2. CASE NoSpots
  BY <1>0, <1>2 DEF NoSpots, Draw
<1>3. CASE DrawField
  BY <1>0, <1>3 DEF DrawField, Draw
<1>4. CASE DrawTrace
  BY <1>0, <1>4 DEF DrawTrace, Draw
<1>5. CASE KeepComplex
  BY <1>0, <1>5 DEF KeepComplex, Draw
<1>6. CASE Truncate
  BY <1>0, <1>6 DEF Truncate, Draw
<1>7. CASE Raise
  BY <1>0, <1>7 DEF Raise
<1>8. CASE Store
  BY <1>8 DEF Store, NoEntry
<1>9. CASE Show
  BY <1>9 DEF Show
<1>10. ASSUME NEW l \in Labels, NextKey(l)
       PROVE  TypeOK'
  <2>1. spots' \in Seq(Arrays)
    BY <1>10, ReadoutsSent DEF NextKey
  <2> QED BY <1>10, <2>1 DEF NextKey
<1> QED BY <1>1, <1>2, <1>3, <1>4, <1>5, <1>6, <1>7, <1>8, <1>9, <1>10 DEF ResultsNext

\* A probe that is in the table is at one of its instructions.
LEMMA InstructionInTable ==
  ASSUME TypeOK, ~OutOfTable
  PROVE  /\ probe.idx \in 0..(Len(table) - 1) /\ probe.depth \in 0..MaxDepth
         /\ probe.idx + 1 \in DOMAIN table
         /\ Instruction \in Instructions
<1>1. probe.idx \in Int /\ probe.depth \in 0..(MaxDepth + 1) /\ table \in Seq(Instructions)
  BY DEF TypeOK
<1>2. probe.idx \in 0..(Len(table) - 1) /\ probe.depth \in 0..MaxDepth
  BY <1>1, ScheduleLimits DEF OutOfTable
<1>3. probe.idx + 1 \in DOMAIN table
  BY <1>1, <1>2
<1>4. Instruction \in Instructions
  BY <1>1, <1>3 DEF Instruction
<1> QED BY <1>2, <1>3, <1>4

\* The steps of parse_run_definition.
LEMMA RunTyped ==
  ASSUME TypeOK, RunNext, UNCHANGED resultVars
  PROVE  TypeOK'
<1> USE ScheduleLimits DEF TypeOK, resultVars, inHand
<1>1. CASE Decode
  BY <1>1 DEF Decode
<1>2. CASE NoRunDefinition
  BY <1>2 DEF NoRunDefinition
<1>3. CASE Choose
  BY <1>3 DEF Choose
<1>4. CASE ReadAxes
  <2>1. Definition(shown.source).axes \in BOOLEAN
    BY DEF Definition, RunDefinitions, Sweeps
  <2> QED BY <1>4, <2>1 DEF ReadAxes
<1>5. CASE ReadMetadata
  <2>1. run.metadata \in BOOLEAN
    BY DEF RunDefinitions
  <2> QED BY <1>5, <2>1 DEF ReadMetadata
<1>6. CASE NoPlaylist
  BY <1>6 DEF NoPlaylist
<1>7. CASE OpenPlaylist
  BY <1>7 DEF OpenPlaylist
<1>8. CASE Envelope
  BY <1>8 DEF Envelope
<1>9. CASE MeetTrigger
  <2>1. table' \in Seq(Instructions) /\ trigger' \in Int
    BY <1>9, PlaylistsSent DEF MeetTrigger
  <2>2. probe' \in [idx : Int, depth : 0..(MaxDepth + 1), wf : Names \cup {"none"}]
    BY <1>9, <2>1, NoProbeTyped DEF MeetTrigger, NoProbe
  <2> QED BY <1>9, <2>1, <2>2 DEF MeetTrigger
<1>10. CASE LeaveTable
  BY <1>10 DEF LeaveTable
<1>11. CASE EndNowhere
  BY <1>11 DEF EndNowhere
<1>12. CASE NameWaveform
  <2>1. Instruction \in Instructions
    BY <1>12, InstructionInTable DEF NameWaveform
  <2>2. Instruction.wf \in Names \cup {"none"}
    BY <2>1 DEF Instructions
  <2>3. probe' \in [idx : Int, depth : 0..(MaxDepth + 1), wf : Names \cup {"none"}]
    BY <1>12, <2>2 DEF NameWaveform
  <2> QED BY <1>12, <2>3 DEF NameWaveform
<1>13. CASE Follow
  <2>1. Instruction \in Instructions /\ Instruction.refs # <<>>
    BY <1>13, InstructionInTable DEF Follow
  <2>2. Instruction.refs[1] \in Int
    BY <2>1 DEF Instructions
  <2>3. probe.depth + 1 \in 0..(MaxDepth + 1)
    BY <1>13 DEF Follow, OutOfTable
  <2>4. probe' \in [idx : Int, depth : 0..(MaxDepth + 1), wf : Names \cup {"none"}]
    BY <1>13, <2>2, <2>3 DEF Follow
  <2> QED BY <1>13, <2>4 DEF Follow
<1>14. CASE NextInTable
  <2>1. /\ table' \in Seq(Instructions) /\ trigger' \in Int
        /\ probe' \in [idx : Int, depth : 0..(MaxDepth + 1), wf : Names \cup {"none"}]
    BY <1>14, NoProbeTyped DEF NextInTable, EmptyBox, NoProbe
  <2> QED BY <1>14, <2>1 DEF NextInTable
<1>15. CASE KeepSchedules
  <2>1. PICK total \in Totals :
          shown' = [shown EXCEPT !.playlist = TRUE, !.total = total,
                                 !.schedules = Kept(total, MaxSchedules)]
    BY <1>15 DEF KeepSchedules
  <2>2. total \in Nat /\ Kept(total, MaxSchedules) \in Seq(Nat)
    BY PlaylistsSent, KeptSpreads
  <2> QED BY <1>15, <2>1, <2>2 DEF KeepSchedules
<1> QED BY <1>1, <1>2, <1>3, <1>4, <1>5, <1>6, <1>7, <1>8, <1>9, <1>10, <1>11, <1>12,
           <1>13, <1>14, <1>15 DEF RunNext

\* Every variable keeps its type, whatever the machine sends: in particular no
\* chain of references takes the probe deeper than one past its bound.
THEOREM TypeCorrect == Spec => []TypeOK
<1>1. TypeOK /\ [Next]_vars => TypeOK'
  <2> SUFFICES ASSUME TypeOK, [Next]_vars PROVE TypeOK'
    OBVIOUS
  <2>1. CASE ParseResults
    BY <2>1, ResultsTyped DEF ParseResults
  <2>2. CASE ParseRun
    BY <2>2, RunTyped DEF ParseRun
  <2>3. CASE UNCHANGED vars
    BY <2>3 DEF vars, resultVars, runVars, inHand, TypeOK
  <2> QED BY <2>1, <2>2, <2>3 DEF Next
<1> QED BY <1>1, InitTyped, PTL DEF Spec

-----------------------------------------------------------------------------
\* A step of the parser leaves the definition alone, or is one of its actions.
LEMMA RunSteps ==
  ASSUME [Next]_vars
  PROVE  RunNext \/ UNCHANGED runVars
BY DEF Next, vars, ParseResults, ParseRun

\* For any number of schedules and any limit: the schedules kept of a run fit the limit,
\* start with the first and go on in even steps to the end (_parse_playlist).
THEOREM SchedulesAreSpread == Spec => []SchedulesSpread
<1>1. Init => SchedulesSpread
  BY DEF Init, RunInit, SchedulesSpread
<1>2. TypeOK /\ SchedulesSpread /\ [Next]_vars => SchedulesSpread'
  <2> SUFFICES ASSUME TypeOK, SchedulesSpread, [Next]_vars PROVE SchedulesSpread'
    OBVIOUS
  <2>1. CASE KeepSchedules
    <3>1. PICK total \in Totals :
            shown' = [shown EXCEPT !.playlist = TRUE, !.total = total,
                                   !.schedules = Kept(total, MaxSchedules)]
      BY <2>1 DEF KeepSchedules
    <3>2. Spread(Kept(total, MaxSchedules), total, MaxSchedules)
      BY PlaylistsSent, ScheduleLimits, KeptSpreads
    <3>3. shown'.schedules = Kept(total, MaxSchedules) /\ shown'.total = total
      BY <2>1, <3>1 DEF TypeOK
    <3> QED BY <3>2, <3>3 DEF SchedulesSpread
  <2>2. CASE UNCHANGED <<shown.playlist, shown.schedules, shown.total>>
    BY <2>2 DEF SchedulesSpread
  <2>3. RunNext => KeepSchedules \/ UNCHANGED <<shown.playlist, shown.schedules, shown.total>>
    BY DEF RunNext, Decode, NoRunDefinition, Choose, ReadAxes, ReadMetadata, NoPlaylist,
       OpenPlaylist, Envelope, MeetTrigger, LeaveTable, EndNowhere, NameWaveform, Follow,
       NextInTable, TypeOK
  <2> QED BY <2>1, <2>2, <2>3, RunSteps DEF runVars
<1> QED BY <1>1, <1>2, TypeCorrect, PTL DEF Spec

-----------------------------------------------------------------------------
\* Which definition the view comes from at each step, and what is in it so far.
SourceOf == IF ~run.inline.channels /\ run.readable THEN "packed" ELSE "inline"
Opened  == {"channel", "waveform", "probe", "resolved"}

DefinitionInv ==
  /\ step \in {"bytes", "definition", "none"} => shown.source = "none"
  /\ step \notin {"bytes", "definition", "none"} => shown.source = SourceOf
  /\ step \in Opened \cup {"metadata", "playlist", "done"}
       => shown.axes = Definition(shown.source).axes
  /\ step \in Opened => Definition(shown.source).channels
  /\ step # "done" => ~shown.playlist
  /\ step = "done" => (shown.playlist <=> Definition(shown.source).channels)

\* The invariant is kept: the definition is opened in one step and drawn in a later one.
LEMMA DefinitionStep ==
  ASSUME TypeOK, DefinitionInv, [Next]_vars
  PROVE  DefinitionInv'
<1> USE DEF DefinitionInv, Opened, SourceOf, Definition
<1>1. CASE Decode
  BY <1>1 DEF Decode
<1>2. CASE NoRunDefinition
  BY <1>2 DEF NoRunDefinition
<1>3. CASE Choose
  BY <1>3 DEF Choose, TypeOK
<1>4. CASE ReadAxes
  BY <1>4 DEF ReadAxes, TypeOK
<1>5. CASE ReadMetadata
  BY <1>5 DEF ReadMetadata, TypeOK
<1>6. CASE NoPlaylist
  BY <1>6 DEF NoPlaylist
<1>7. CASE OpenPlaylist
  BY <1>7 DEF OpenPlaylist
<1>8. CASE KeepSchedules
  <2>1. PICK total \in Totals :
          shown' = [shown EXCEPT !.playlist = TRUE, !.total = total,
                                 !.schedules = Kept(total, MaxSchedules)]
    BY <1>8 DEF KeepSchedules
  <2>2. shown'.playlist /\ shown'.source = shown.source /\ shown'.axes = shown.axes
    BY <2>1 DEF TypeOK
  <2> QED BY <1>8, <2>2 DEF KeepSchedules
<1>9. CASE step \in Opened /\ step' \in Opened /\ UNCHANGED <<run, shown>>
  BY <1>9
<1>10. Envelope \/ MeetTrigger \/ LeaveTable \/ EndNowhere \/ NameWaveform \/ Follow \/ NextInTable
       => step \in Opened /\ step' \in Opened /\ UNCHANGED <<run, shown>>
  BY DEF Envelope, MeetTrigger, LeaveTable, EndNowhere, NameWaveform, Follow, NextInTable, inHand
<1>11. CASE UNCHANGED runVars
  BY <1>11 DEF runVars
<1> QED BY <1>1, <1>2, <1>3, <1>4, <1>5, <1>6, <1>7, <1>8, <1>9, <1>10, <1>11, RunSteps
        DEF RunNext

\* A schedule in either of its two places is drawn, with the axes of the definition it
\* was found in (parse_run_definition), whatever else cannot be read.
THEOREM ScheduleIsShown == Spec => []ScheduleShown
<1>1. Init => DefinitionInv
  BY DEF Init, RunInit, DefinitionInv, Opened
<1>2. TypeOK /\ DefinitionInv => ScheduleShown
  BY DEF DefinitionInv, ScheduleShown, Definition, Drawn, SourceOf, TypeOK, RunDefinitions, Sweeps
<1> QED BY <1>1, <1>2, DefinitionStep, TypeCorrect, PTL DEF Spec

-----------------------------------------------------------------------------
\* While the references are followed: the instructions passed lead, by first
\* entries, from the trigger to the one in hand; and every path to a pulse goes
\* the same way and further.
Passed(p) ==
  /\ p[0] = trigger /\ p[probe.depth] = probe.idx
  /\ \A i \in 0..(probe.depth - 1) :
       /\ p[i] \in 0..(Len(table) - 1)
       /\ table[p[i] + 1].refs # <<>>
       /\ table[p[i] + 1].refs[1] = p[i + 1]

Ahead ==
  \A d \in 0..MaxDepth : \A p \in [0..d -> 0..(Len(table) - 1)] :
    IsPath(p, d) => probe.depth <= d /\ p[probe.depth] = probe.idx

ProbeInv ==
  /\ step = "probe" =>
       /\ table \in Tables /\ probe.wf = "none"
       /\ \E p \in [0..probe.depth -> Int] : Passed(p)
       /\ Ahead
  /\ ProbeFaithful

\* A path to a pulse that lies ahead has not been left: the probe is on it, in the table,
\* and follows it with its next step.
LEMMA NoPathLeft ==
  ASSUME TypeOK, Ahead, NEW d \in 0..MaxDepth, NEW p \in [0..d -> 0..(Len(table) - 1)],
         IsPath(p, d)
  PROVE  /\ ~OutOfTable /\ probe.depth <= d /\ p[probe.depth] = probe.idx
         /\ probe.depth = d => Instruction.op = "pulse"
         /\ probe.depth < d => /\ Instruction.refs # <<>>
                               /\ Instruction.refs[1] = p[probe.depth + 1]
<1>1. probe.depth \in 0..d /\ p[probe.depth] = probe.idx /\ d <= MaxDepth
  <2>1. probe.depth <= d /\ p[probe.depth] = probe.idx
    BY DEF Ahead
  <2>2. probe.depth \in Nat /\ d \in Nat /\ d <= MaxDepth
    BY ScheduleLimits DEF TypeOK
  <2> QED BY <2>1, <2>2
<1>2. probe.idx \in 0..(Len(table) - 1) /\ Len(table) \in Nat
  BY <1>1 DEF TypeOK
<1>3. ~OutOfTable
  BY <1>1, <1>2, ScheduleLimits DEF OutOfTable
<1>4. probe.depth = d => Instruction.op = "pulse"
  BY <1>1 DEF IsPath, Instruction
<1>5. ASSUME probe.depth < d
      PROVE  Instruction.refs # <<>> /\ Instruction.refs[1] = p[probe.depth + 1]
  <2>1. probe.depth \in 0..(d - 1)
    BY <1>1, <1>5
  <2> QED BY <2>1, <1>1 DEF IsPath, Instruction
<1> QED BY <1>1, <1>3, <1>4, <1>5

\* The instruction in hand is a pulse that names a waveform, or refers to others.
LEMMA InstructionSent ==
  ASSUME TypeOK, table \in Tables, ~OutOfTable
  PROVE  /\ Instruction.op = "pulse" => Instruction.wf # "none" /\ Instruction.refs = <<>>
         /\ Instruction.op # "multiplexed" => Instruction.refs = <<>>
<1>1. probe.idx + 1 \in DOMAIN table
  BY InstructionInTable
<1>2. WellFormed(table)
  BY PlaylistsSent
<1>3. /\ Instruction.op = "pulse" => Instruction.wf # "none"
      /\ Instruction.op # "multiplexed" => Instruction.refs = <<>>
  BY <1>1, <1>2, PlaylistsSent DEF Instruction, WellFormed
<1> QED BY <1>3

\* A trigger is met: nothing is passed yet, and every path starts here.
LEMMA ProbeMet ==
  ASSUME TypeOK, MeetTrigger
  PROVE  ProbeInv'
<1>1. /\ step' = "probe" /\ table' \in Tables /\ trigger' \in Int
      /\ probe' = [idx |-> trigger', depth |-> 0, wf |-> "none"]
  BY PlaylistsSent DEF MeetTrigger, NoProbe
<1>2. probe'.idx = trigger' /\ probe'.depth = 0 /\ probe'.wf = "none"
  BY <1>1
<1>3. \E p \in [0..probe'.depth -> Int] : Passed(p)'
  <2>1. [i \in 0..0 |-> trigger'] \in [0..probe'.depth -> Int]
    BY <1>1, <1>2
  <2> DEFINE q == [i \in 0..0 |-> trigger']
  <2>2. q[0] = trigger' /\ 0..(0 - 1) = {}
    OBVIOUS
  <2> HIDE DEF q
  <2>3. \E p \in [0..probe'.depth -> Int] :
          /\ p[0] = trigger' /\ p[probe'.depth] = probe'.idx
          /\ \A i \in 0..(probe'.depth - 1) :
               /\ p[i] \in 0..(Len(table') - 1)
               /\ table'[p[i] + 1].refs # <<>>
               /\ table'[p[i] + 1].refs[1] = p[i + 1]
    BY <2>1, <2>2, <1>2 DEF q
  <2> QED BY <2>3 DEF Passed
<1>4. Ahead'
  BY <1>2, ScheduleLimits DEF Ahead, IsPath
<1>5. ProbeFaithful'
  BY <1>1 DEF ProbeFaithful
<1> QED BY <1>1, <1>2, <1>3, <1>4, <1>5 DEF ProbeInv

\* A first entry is followed: it is passed, and every path goes through it.
LEMMA ProbeFollows ==
  ASSUME TypeOK, ProbeInv, Follow
  PROVE  ProbeInv'
<1> DEFINE next == Instruction.refs[1]
           k    == probe.depth
<1>1. /\ step = "probe" /\ step' = "probe" /\ ~OutOfTable
      /\ Instruction.op = "multiplexed" /\ Instruction.refs # <<>>
      /\ probe' = [probe EXCEPT !.idx = next, !.depth = @ + 1]
      /\ table' = table /\ trigger' = trigger
  BY DEF Follow
<1>2. /\ k \in 0..MaxDepth /\ k \in Nat
      /\ probe.idx \in 0..(Len(table) - 1)
      /\ Instruction \in Instructions
  BY <1>1, InstructionInTable, ScheduleLimits
<1>3. next \in Int
  BY <1>1, <1>2 DEF Instructions
<1>4. probe'.idx = next /\ probe'.depth = k + 1 /\ probe'.wf = "none"
  BY <1>1 DEF TypeOK, ProbeInv
<1>5. \E p \in [0..probe'.depth -> Int] : Passed(p)'
  <2>1. PICK p \in [0..k -> Int] : Passed(p)
    BY <1>1 DEF ProbeInv
  <2> DEFINE q == [i \in 0..(k + 1) |-> IF i = k + 1 THEN next ELSE p[i]]
  <2>2. q \in [0..probe'.depth -> Int]
    BY <1>2, <1>3, <1>4
  <2>3. q[0] = trigger /\ q[k] = probe.idx /\ q[k + 1] = next
    BY <1>2, <2>1 DEF Passed
  <2>4. ASSUME NEW i \in 0..k
        PROVE  /\ q[i] \in 0..(Len(table) - 1)
               /\ table[q[i] + 1].refs # <<>>
               /\ table[q[i] + 1].refs[1] = q[i + 1]
    <3>1. CASE i = k
      BY <1>1, <1>2, <2>3, <3>1 DEF Instruction
    <3>2. CASE i # k
      <4>1. i \in 0..(k - 1) /\ q[i] = p[i] /\ q[i + 1] = p[i + 1]
        BY <1>2, <2>4, <3>2
      <4> QED BY <4>1, <2>1 DEF Passed
    <3> QED BY <3>1, <3>2
  <2>5. (k + 1) - 1 = k
    BY <1>2
  <2> HIDE DEF q
  <2>6. /\ q[0] = trigger' /\ q[probe'.depth] = probe'.idx
        /\ \A i \in 0..(probe'.depth - 1) :
             /\ q[i] \in 0..(Len(table') - 1)
             /\ table'[q[i] + 1].refs # <<>>
             /\ table'[q[i] + 1].refs[1] = q[i + 1]
    BY <1>1, <1>4, <2>3, <2>4, <2>5
  <2> QED BY <2>2, <2>6 DEF Passed
<1>6. Ahead'
  <2> SUFFICES ASSUME NEW d \in 0..MaxDepth, NEW p \in [0..d -> 0..(Len(table) - 1)],
                      IsPath(p, d)
               PROVE  k + 1 <= d /\ p[k + 1] = next
    BY <1>1, <1>4 DEF Ahead, IsPath
  <2>1. Ahead
    BY <1>1 DEF ProbeInv
  <2>2. k <= d /\ (k = d => Instruction.op = "pulse") /\ (k < d => next = p[k + 1])
    BY <2>1, NoPathLeft
  <2> QED BY <2>2, <1>1, <1>2
<1>7. ProbeFaithful'
  BY <1>1 DEF ProbeFaithful
<1> QED BY <1>1, <1>4, <1>5, <1>6, <1>7 DEF ProbeInv

\* A pulse is met: what was passed is a path to it.
LEMMA ProbeNames ==
  ASSUME TypeOK, ProbeInv, NameWaveform
  PROVE  ProbeInv'
<1>1. /\ step = "probe" /\ step' = "resolved" /\ ~OutOfTable
      /\ Instruction.op = "pulse"
      /\ probe' = [probe EXCEPT !.wf = Instruction.wf]
      /\ table' = table /\ trigger' = trigger
  BY DEF NameWaveform
<1>2. probe'.wf = Instruction.wf
  BY <1>1 DEF TypeOK
<1>3. probe.depth \in 0..MaxDepth /\ probe.depth \in Nat /\ probe.idx \in 0..(Len(table) - 1)
  BY <1>1, InstructionInTable, ScheduleLimits
<1>4. PICK p \in [0..probe.depth -> Int] : Passed(p)
  BY <1>1 DEF ProbeInv
<1>5. p \in [0..probe.depth -> 0..(Len(table) - 1)]
  <2>1. ASSUME NEW i \in 0..probe.depth
        PROVE  p[i] \in 0..(Len(table) - 1)
    <3>1. CASE i = probe.depth
      BY <1>3, <1>4, <3>1 DEF Passed
    <3>2. CASE i # probe.depth
      BY <1>3, <1>4, <2>1, <3>2, i \in 0..(probe.depth - 1) DEF Passed
    <3> QED BY <3>1, <3>2
  <2> QED BY <2>1
<1>6. IsPath(p, probe.depth) /\ table[p[probe.depth] + 1].wf = Instruction.wf
  BY <1>1, <1>3, <1>4 DEF Passed, IsPath, Instruction
<1>7. PathTo(Instruction.wf)
  BY <1>3, <1>5, <1>6 DEF PathTo
<1>8. Instruction.wf # "none"
  BY <1>1, InstructionSent DEF ProbeInv
<1>9. ProbeFaithful'
  <2>1. (probe.wf)' = Instruction.wf /\ (probe.wf)' # "none"
    BY <1>2, <1>8
  <2>2. \E d \in 0..MaxDepth : \E q \in [0..d -> 0..(Len(table') - 1)] :
          /\ q[0] = trigger'
          /\ \A i \in 0..(d - 1) :
               LET refs == table'[q[i] + 1].refs IN refs # <<>> /\ refs[1] = q[i + 1]
          /\ table'[q[d] + 1].op = "pulse"
          /\ table'[q[d] + 1].wf = probe'.wf
    BY <1>1, <1>2, <1>7 DEF PathTo, IsPath
  <2> QED BY <2>1, <2>2 DEF ProbeFaithful, PathTo, IsPath
<1> QED BY <1>1, <1>9 DEF ProbeInv

\* The references lead out of the table, too deep or nowhere: no path is left.
LEMMA ProbeEnds ==
  ASSUME TypeOK, ProbeInv, LeaveTable \/ EndNowhere
  PROVE  ProbeInv'
<1>1. /\ step = "probe" /\ step' = "resolved"
      /\ probe' = probe /\ table' = table /\ trigger' = trigger
      /\ OutOfTable \/ (Instruction.op # "pulse" /\ Instruction.refs = <<>>)
  BY DEF LeaveTable, EndNowhere, inHand
<1>2. ASSUME NEW d \in 0..MaxDepth, NEW p \in [0..d -> 0..(Len(table) - 1)], IsPath(p, d)
      PROVE  FALSE
  <2>1. Ahead
    BY <1>1 DEF ProbeInv
  <2>2. /\ ~OutOfTable /\ probe.depth <= d
        /\ probe.depth = d => Instruction.op = "pulse"
        /\ probe.depth < d => Instruction.refs # <<>>
    BY <1>2, <2>1, NoPathLeft
  <2>3. probe.depth \in Nat /\ d \in Nat
    BY ScheduleLimits DEF TypeOK
  <2> QED BY <1>1, <2>2, <2>3
<1>3. \A w : ~PathTo(w)
  BY <1>2 DEF PathTo
<1>4. probe.wf = "none"
  BY <1>1 DEF ProbeInv
<1>5. ProbeFaithful'
  BY <1>1, <1>3, <1>4 DEF ProbeFaithful, PathTo, IsPath
<1> QED BY <1>1, <1>5 DEF ProbeInv

\* The invariant is kept by every step of the probe.
LEMMA ProbeStep ==
  ASSUME TypeOK, ProbeInv, [Next]_vars
  PROVE  ProbeInv'
<1>1. CASE step' \notin {"probe", "resolved"}
  BY <1>1 DEF ProbeInv, ProbeFaithful
<1>2. CASE UNCHANGED runVars
  BY <1>2 DEF runVars, inHand, ProbeInv, ProbeFaithful, PathTo, IsPath, Passed, Ahead
<1>3. RunNext => \/ MeetTrigger \/ Follow \/ NameWaveform \/ LeaveTable \/ EndNowhere
                 \/ step' \notin {"probe", "resolved"}
  BY DEF RunNext, Decode, NoRunDefinition, Choose, ReadAxes, ReadMetadata, NoPlaylist,
     OpenPlaylist, Envelope, NextInTable, KeepSchedules
<1> QED BY <1>1, <1>2, <1>3, RunSteps, ProbeMet, ProbeFollows, ProbeNames, ProbeEnds

\* ProbeFaithful: for any instruction table, circular ones included, and any
\* depth, the waveform drawn for a readout is the one its trigger plays.
THEOREM ProbesAreFaithful == Spec => []ProbeFaithful
<1>1. Init => ProbeInv
  BY DEF Init, RunInit, ProbeInv, ProbeFaithful
<1>2. ProbeInv => ProbeFaithful
  BY DEF ProbeInv
<1> QED BY <1>1, <1>2, ProbeStep, TypeCorrect, PTL DEF Spec

-----------------------------------------------------------------------------
\* The envelope of a waveform.
LEMMA EnvelopeDrawn ==
  ASSUME TypeOK, Envelope
  PROVE  EnvelopeScaled'
<1>1. EnvelopePoints \in Nat /\ EnvelopePoints > 1
  BY ScheduleLimits
<1>2. PICK s \in Waveforms :
        wave' = IF s = <<>> THEN [samples |-> s, env |-> [i \in 1..EnvelopePoints |-> 0], peak |-> 1]
                ELSE LET red == MinMaxDecimate(s, EnvelopePoints)
                     IN [samples |-> s, env |-> red, peak |-> PeakOf(red)]
  BY DEF Envelope
<1>3. s \in Seq(Int)
  BY PlaylistsSent
<1>4. CASE s = <<>>
  <2> DEFINE env == [i \in 1..EnvelopePoints |-> 0]
  <2>1. wave'.samples = <<>> /\ wave'.env = env /\ wave'.peak = 1
    BY <1>2, <1>4
  <2>2. Len(env) = EnvelopePoints /\ \A i \in DOMAIN env : AbsOf(env[i]) <= 1
    BY <1>1 DEF AbsOf
  <2> HIDE DEF env
  <2>3. Range(wave'.samples) \subseteq {0}
    BY <2>1 DEF Range
  <2> QED BY <1>1, <2>1, <2>2, <2>3 DEF EnvelopeScaled
<1>5. CASE s # <<>>
  <2> DEFINE red == MinMaxDecimate(s, EnvelopePoints)
  <2>1. wave'.samples = s /\ wave'.env = red /\ wave'.peak = PeakOf(red)
    BY <1>2, <1>5
  <2>2. red \in Seq(Int) /\ red # <<>> /\ Len(red) <= EnvelopePoints
    BY <1>1, <1>3, <1>5, MinMaxBounded
  <2>3. Peak(red) = Peak(s)
    BY <1>1, <1>3, <1>5, PeakKept
  <2>4. \A i \in 1..Len(s) : AbsOf(s[i]) <= Peak(s)
    BY <1>3, <1>5, PeakFacts
  <2> HIDE DEF red
  <2>5. /\ Peak(red) \in Nat
        /\ \E i \in 1..Len(red) : Peak(red) = AbsOf(red[i])
        /\ \A i \in 1..Len(red) : AbsOf(red[i]) <= Peak(red)
    BY <2>2, PeakFacts
  <2>6. DOMAIN red = 1..Len(red)
    BY <2>2
  <2>7. CASE Peak(red) = 0
    <3>1. PeakOf(red) = 1
      BY <2>7 DEF PeakOf
    <3>2. ASSUME NEW i \in 1..Len(s) PROVE s[i] = 0
      <4>1. s[i] \in Int /\ AbsOf(s[i]) <= 0
        BY <1>3, <2>3, <2>4, <2>7
      <4> QED BY <4>1 DEF AbsOf
    <3>3. Range(s) \subseteq {0}
      BY <1>3, <3>2 DEF Range
    <3>4. \A i \in DOMAIN red : AbsOf(red[i]) <= 1
      <4> TAKE i \in DOMAIN red
      <4>1. red[i] \in Int /\ AbsOf(red[i]) <= 0
        BY <2>2, <2>5, <2>6, <2>7
      <4> QED BY <4>1 DEF AbsOf
    <3> QED BY <2>1, <2>2, <3>1, <3>3, <3>4 DEF EnvelopeScaled
  <2>8. CASE Peak(red) # 0
    <3>1. PeakOf(red) = Peak(red) /\ Peak(red) > 0
      BY <2>5, <2>8 DEF PeakOf
    <3>2. /\ \A i \in DOMAIN red : AbsOf(red[i]) <= Peak(red)
          /\ \E i \in DOMAIN red : AbsOf(red[i]) = Peak(red)
      BY <2>5, <2>6
    <3> QED BY <2>1, <2>2, <2>3, <3>1, <3>2 DEF EnvelopeScaled
  <2> QED BY <2>7, <2>8
<1> QED BY <1>4, <1>5

\* EnvelopeScaled: whatever its samples, a waveform that is reduced keeps its
\* greatest one, and fills the unit interval after the division.
THEOREM EnvelopesAreScaled == Spec => []EnvelopeScaled
<1>1. Init => EnvelopeScaled
  BY DEF Init, RunInit, EnvelopeScaled
<1>2. TypeOK /\ EnvelopeScaled /\ [Next]_vars => EnvelopeScaled'
  <2> SUFFICES ASSUME TypeOK, EnvelopeScaled, [Next]_vars PROVE EnvelopeScaled'
    OBVIOUS
  <2>1. CASE step' # "waveform"
    BY <2>1 DEF EnvelopeScaled
  <2>2. CASE UNCHANGED runVars
    BY <2>2 DEF runVars, inHand, EnvelopeScaled
  <2>3. RunNext => Envelope \/ step' # "waveform"
    BY DEF RunNext, Decode, NoRunDefinition, Choose, ReadAxes, ReadMetadata, NoPlaylist,
       OpenPlaylist, MeetTrigger, LeaveTable, EndNowhere, NameWaveform, Follow, NextInTable,
       KeepSchedules
  <2> QED BY <2>1, <2>2, <2>3, EnvelopeDrawn, RunSteps
<1> QED BY <1>1, <1>2, TypeCorrect, PTL DEF Spec

-----------------------------------------------------------------------------
\* The view of a readout.
LEMMA ReadoutTyped ==
  ASSUME NEW sp \in Seq(Arrays)
  PROVE  /\ \A i \in 1..Len(sp) : sp[i].items \in Seq(Int) /\ sp[i].shape \in Seq(Nat)
         /\ ValuesOf(sp) \in Seq(Int)
         /\ sp # <<>> => ShapeOf(sp) \in Seq(Nat)
<1>1. \A i \in 1..Len(sp) : sp[i].items \in Seq(Int) /\ sp[i].shape \in Seq(Nat)
  <2> TAKE i \in 1..Len(sp)
  <2> DEFINE a == sp[i]
  <2>1. a \in Arrays
    OBVIOUS
  <2> HIDE DEF a
  <2>2. a.items \in Seq(Int) /\ a.shape \in Seq(Nat)
    BY <2>1 DEF Arrays
  <2> QED BY <2>2 DEF a
<1>2. ValuesOf(sp) \in Seq(Int)
  <2> DEFINE T == Seq(Int)
             parts == [i \in DOMAIN sp |-> sp[i].items]
  <2>1. Len(sp) \in Nat /\ parts \in [1..Len(sp) -> T]
    BY <1>1
  <2>2. ValuesOf(sp) = FlattenSeq(parts)
    BY DEF ValuesOf
  <2> HIDE DEF T, parts
  <2>3. parts \in Seq(T)
    BY <2>1, FunctionIsSeq
  <2>4. parts \in Seq(Seq(Int))
    BY <2>3 DEF T
  <2> QED BY <2>2, <2>4, FlattenTyped
<1>3. ASSUME sp # <<>> PROVE ShapeOf(sp) \in Seq(Nat)
  <2>1. 1 \in 1..Len(sp) /\ Len(sp) \in Nat
    BY <1>3
  <2> DEFINE t == sp[1].shape
             h == <<Len(sp)>>
  <2>2. h \in Seq(Nat) /\ t \in Seq(Nat)
    BY <1>1, <2>1
  <2> HIDE DEF t, h
  <2>3. h \o t \in Seq(Nat)
    BY <2>2
  <2> QED BY <2>2, <2>3 DEF ShapeOf, h, t
<1> QED BY <1>1, <1>2, <1>3

\* A slice of samples: its type, its length and what it holds.
LEMMA SliceTyped ==
  ASSUME NEW s \in Seq(Int), NEW lo \in Nat, NEW hi \in Nat
  PROVE  /\ Slice(s, lo, hi) \in Seq(Int)
         /\ lo = 0 => Len(Slice(s, lo, hi)) <= hi
         /\ lo <= hi /\ hi <= Len(s) =>
              /\ Len(Slice(s, lo, hi)) = hi - lo
              /\ \A i \in 1..(hi - lo) : Slice(s, lo, hi)[i] = s[lo + i]
<1> DEFINE e == IF hi < Len(s) THEN hi ELSE Len(s)
<1>1. e \in Nat /\ e <= Len(s) /\ e <= hi /\ (hi <= Len(s) => e = hi) /\ Len(s) \in Nat
  OBVIOUS
<1>2. Slice(s, lo, hi) = SubSeq(s, lo + 1, e)
  BY DEF Slice
<1> HIDE DEF e
<1>3. CASE e < lo
  <2>1. SubSeq(s, lo + 1, e) = <<>>
    BY <1>1, <1>3
  <2> QED BY <2>1, <1>1, <1>2, <1>3
<1>4. CASE lo <= e
  <2> DEFINE t == [i \in 1..(e - lo) |-> s[lo + i]]
  <2>1. SubSeq(s, lo + 1, e) = t
    BY <1>1, <1>4
  <2>2. e - lo \in Nat /\ t \in [1..(e - lo) -> Int] /\ \A i \in 1..(e - lo) : t[i] = s[lo + i]
    BY <1>1, <1>4
  <2> HIDE DEF t
  <2>3. t \in Seq(Int) /\ Len(t) = e - lo
    BY <2>2, FunctionIsSeq
  <2> DEFINE u == Slice(s, lo, hi)
  <2>4. u = t
    BY <1>2, <2>1
  <2> HIDE DEF u
  <2>5. lo = 0 => Len(u) <= hi
    BY <1>1, <2>3, <2>4
  <2>6. hi <= Len(s) => /\ Len(u) = hi - lo
                        /\ \A i \in 1..(hi - lo) : u[i] = s[lo + i]
    BY <1>1, <2>2, <2>3, <2>4
  <2> QED BY <2>3, <2>4, <2>5, <2>6 DEF u
<1> QED BY <1>1, <1>3, <1>4

\* A shape of two dimensions is its two numbers.
LEMMA TwoDimensions ==
  ASSUME NEW shape \in Seq(Nat), Len(shape) = 2
  PROVE  /\ shape[1] \in Nat /\ shape[2] \in Nat
         /\ DOMAIN shape = {1, 2} /\ shape = <<shape[1], shape[2]>>
<1>1. DOMAIN shape = 1..2 /\ shape = [i \in 1..2 |-> shape[i]]
  OBVIOUS
<1>2. 1..2 = {1, 2}
  OBVIOUS
<1>3. shape[1] \in Nat /\ shape[2] \in Nat
  BY <1>1
<1> QED BY <1>1, <1>2, <1>3

\* The rows of a field that are kept, whatever its arrays hold.
LEMMA FieldRows ==
  ASSUME NEW sp \in Seq(Arrays), sp # <<>>, IsField(sp)
  PROVE  LET rows == ShapeOf(sp)[1]
             cols == ShapeOf(sp)[2]
         IN /\ rows \in Nat /\ cols \in Nat /\ rows > 0 /\ cols > 0
            /\ KeptRows(sp) \in Seq(Nat) /\ Spread(KeptRows(sp), rows, MaxRows)
            /\ \A j \in DOMAIN KeptRows(sp) :
                 KeptRows(sp)[j] \in 0..(rows - 1) /\ Row(sp, KeptRows(sp)[j]) \in Seq(Int)
<1> DEFINE rows == ShapeOf(sp)[1]
           cols == ShapeOf(sp)[2]
           kept == KeptRows(sp)
<1>1. ShapeOf(sp) \in Seq(Nat) /\ Len(ShapeOf(sp)) = 2 /\ 0 \notin Range(ShapeOf(sp))
  BY ReadoutTyped DEF IsField
<1>2. rows \in Nat /\ cols \in Nat /\ rows \in Range(ShapeOf(sp)) /\ cols \in Range(ShapeOf(sp))
  <2> DEFINE shape == ShapeOf(sp)
  <2> HIDE DEF shape
  <2>1. shape \in Seq(Nat) /\ Len(shape) = 2
    BY <1>1 DEF shape
  <2>2. shape[1] \in Nat /\ shape[2] \in Nat /\ 1 \in DOMAIN shape /\ 2 \in DOMAIN shape
    BY <2>1, TwoDimensions
  <2>3. shape[1] \in Range(shape) /\ shape[2] \in Range(shape)
    BY <2>2 DEF Range
  <2> QED BY <2>2, <2>3 DEF shape
<1>3. rows > 0 /\ cols > 0
  BY <1>1, <1>2
<1>4. kept \in Seq(Nat) /\ Spread(kept, rows, MaxRows)
  <2>1. MaxRows \in Nat /\ MaxRows > 0
    BY LimitsPositive
  <2> HIDE DEF rows
  <2>2. kept = Kept(rows, MaxRows)
    BY DEF KeptRows, rows
  <2> QED BY <1>2, <2>1, <2>2, KeptSpreads
<1>5. ASSUME NEW j \in DOMAIN kept
      PROVE  kept[j] \in 0..(rows - 1) /\ Row(sp, kept[j]) \in Seq(Int)
  <2>1. kept[j] \in 0..(rows - 1)
    BY <1>4 DEF Spread, Range
  <2> DEFINE r == kept[j]
             lo == r * cols
             hi == (r + 1) * cols
  <2>2. r \in Nat
    BY <1>2, <2>1
  <2> HIDE DEF r
  <2>3. lo \in Nat /\ hi \in Nat
    BY <1>2, <2>2
  <2>4. Row(sp, r) = Slice(ValuesOf(sp), lo, hi)
    BY DEF Row
  <2> HIDE DEF lo, hi
  <2>5. Row(sp, r) \in Seq(Int)
    BY <2>3, <2>4, ReadoutTyped, SliceTyped
  <2> QED BY <2>1, <2>5 DEF r
<1> QED BY <1>2, <1>3, <1>4, <1>5

-----------------------------------------------------------------------------
\* How many samples a shape of one or of two dimensions announces: the fold over
\* its dimensions is the value of the function that solves its equation, and the
\* equation has a solution.
AnyOf(S) == CHOOSE x \in S : TRUE
Product(shape, f, S) == IF S = {} THEN 1 ELSE shape[AnyOf(S)] * f[S \ {AnyOf(S)}]

\* The fold over the dimensions is such a function's value.
LEMMA CellsFolded ==
  ASSUME NEW shape, NEW D, DOMAIN shape = D, NEW h,
         h = [S \in SUBSET D |-> Product(shape, h, S)]
  PROVE  \E f : Cells(shape) = f[D] /\ \A S \in SUBSET D : f[S] = Product(shape, f, S)
<1> DEFINE Solves(g) == g = [S \in SUBSET D |-> Product(shape, g, S)]
           F == CHOOSE g : Solves(g)
<1>1. Cells(shape) = F[D]
  BY DEF Cells, FoldFunction, FoldFunctionOnSet, MapThenFoldSet, Product, AnyOf
<1>2. Solves(h)
  OBVIOUS
<1> HIDE DEF Solves
<1>3. Solves(F)
  BY <1>2, Zenon
<1> HIDE DEF F
<1>4. F = [S \in SUBSET D |-> Product(shape, F, S)]
  BY <1>3 DEF Solves
<1>5. \A S \in SUBSET D : F[S] = Product(shape, F, S)
  BY <1>4, Zenon
<1> QED BY <1>1, <1>5, Zenon

\* A shape of one dimension announces as many samples as it says.
LEMMA CellsOfRow ==
  ASSUME NEW m \in Nat
  PROVE  Cells(<<m>>) = m
<1> DEFINE D == {1}
           h == [S \in SUBSET D |-> IF S = {} THEN 1 ELSE m]
           shape == <<m>>
<1>1. DOMAIN shape = D /\ shape[1] = m /\ m * 1 = m
  OBVIOUS
<1>2. \A S \in SUBSET D : S = {} \/ S = {1}
  OBVIOUS
<1>3. AnyOf({1}) = 1 /\ {1} \ {1} = {} /\ {} # {1}
  BY DEF AnyOf
<1>4. {} \in SUBSET D /\ {1} \in SUBSET D /\ D = {1}
  OBVIOUS
<1>5. h[{}] = 1 /\ h[{1}] = m
  BY <1>3, <1>4, Zenon
<1>6. \E E : h = [S \in E |-> h[S]] /\ E = SUBSET D
  BY Zenon
<1> HIDE DEF D, h, shape
<1>7. Product(shape, h, {}) = 1
  BY DEF Product
<1>8. Product(shape, h, {1}) = m
  BY <1>1, <1>3, <1>5 DEF Product
<1>9. \A S \in SUBSET D : h[S] = Product(shape, h, S)
  BY <1>2, <1>5, <1>7, <1>8, Zenon
<1>10. h = [S \in SUBSET D |-> Product(shape, h, S)]
  BY <1>6, <1>9, Zenon
<1>11. PICK f : Cells(shape) = f[D] /\ \A S \in SUBSET D : f[S] = Product(shape, f, S)
  <2>1. DOMAIN shape = D
    BY <1>1
  <2> QED BY <2>1, <1>10, CellsFolded
<1>12. f[{}] = 1
  <2>1. f[{}] = Product(shape, f, {})
    BY <1>4, <1>11
  <2> QED BY <2>1 DEF Product
<1>13. f[{1}] = m
  <2>1. f[{1}] = Product(shape, f, {1})
    BY <1>4, <1>11
  <2> QED BY <2>1, <1>1, <1>3, <1>12 DEF Product
<1> QED BY <1>4, <1>11, <1>13, Zenon DEF shape

\* A shape of two dimensions announces their product, whichever is taken first.
LEMMA CellsOfField ==
  ASSUME NEW a \in Nat, NEW b \in Nat
  PROVE  Cells(<<a, b>>) = a * b
<1> DEFINE D == {1, 2}
           h == [S \in SUBSET D |-> IF S = {} THEN 1 ELSE IF S = {1} THEN a
                                    ELSE IF S = {2} THEN b ELSE a * b]
           shape == <<a, b>>
<1>1. DOMAIN shape = D /\ shape[1] = a /\ shape[2] = b
  OBVIOUS
<1>2. \A S \in SUBSET D : S = {} \/ S = {1} \/ S = {2} \/ S = D
  OBVIOUS
<1>3. AnyOf({1}) = 1 /\ AnyOf({2}) = 2 /\ (AnyOf(D) = 1 \/ AnyOf(D) = 2)
  BY DEF AnyOf
<1>4. /\ D \ {1} = {2} /\ D \ {2} = {1} /\ {1} \ {1} = {} /\ {2} \ {2} = {}
      /\ {} # {1} /\ {} # {2} /\ {} # D /\ {1} # {2} /\ {1} # D /\ {2} # D
  OBVIOUS
<1>5. a * 1 = a /\ b * 1 = b /\ a * b = b * a
  OBVIOUS
<1>6. D \in SUBSET D /\ {} \in SUBSET D /\ {1} \in SUBSET D /\ {2} \in SUBSET D
  OBVIOUS
<1>7. h[{}] = 1 /\ h[{1}] = a /\ h[{2}] = b /\ h[D] = a * b
  BY <1>4, <1>6, Zenon
<1>8. \E E : h = [S \in E |-> h[S]] /\ E = SUBSET D
  BY Zenon
<1> HIDE DEF D, h, shape
\* Whatever f gives the empty set and those of one element, Product does the rest.
<1>9. ASSUME NEW f, f[{}] = 1
      PROVE  /\ Product(shape, f, {}) = 1
             /\ Product(shape, f, {1}) = a /\ Product(shape, f, {2}) = b
  BY <1>9, <1>1, <1>3, <1>4, <1>5 DEF Product
<1>10. ASSUME NEW f, f[{1}] = a, f[{2}] = b
       PROVE  Product(shape, f, D) = a * b
  <2>1. CASE AnyOf(D) = 1
    BY <2>1, <1>10, <1>1, <1>4 DEF Product
  <2>2. CASE AnyOf(D) = 2
    BY <2>2, <1>10, <1>1, <1>4, <1>5 DEF Product
  <2> QED BY <2>1, <2>2, <1>3
<1>11. \A S \in SUBSET D : h[S] = Product(shape, h, S)
  <2>1. /\ h[{}] = Product(shape, h, {}) /\ h[{1}] = Product(shape, h, {1})
        /\ h[{2}] = Product(shape, h, {2}) /\ h[D] = Product(shape, h, D)
    BY <1>7, <1>9, <1>10
  <2> QED BY <2>1, <1>2
<1>12. h = [S \in SUBSET D |-> Product(shape, h, S)]
  BY <1>8, <1>11, Zenon
<1>13. PICK f : Cells(shape) = f[D] /\ \A S \in SUBSET D : f[S] = Product(shape, f, S)
  <2>1. DOMAIN shape = D
    BY <1>1
  <2> QED BY <2>1, <1>12, CellsFolded
<1>14. f[{}] = 1
  <2>1. f[{}] = Product(shape, f, {})
    BY <1>6, <1>13
  <2> QED BY <2>1 DEF Product
<1>15. f[{1}] = a /\ f[{2}] = b
  <2>1. f[{1}] = Product(shape, f, {1}) /\ f[{2}] = Product(shape, f, {2})
    BY <1>6, <1>13
  <2> QED BY <2>1, <1>9, <1>14
<1>16. f[D] = a * b
  <2>1. f[D] = Product(shape, f, D)
    BY <1>6, <1>13
  <2> QED BY <2>1, <1>10, <1>15
<1> QED BY <1>13, <1>16 DEF shape

-----------------------------------------------------------------------------
\* An even field: the joined samples are its rows one after the other, and row r
\* is what spot r holds or, of a field sent in one piece, its r-th stretch.
LEMMA EvenShape ==
  ASSUME NEW sp \in Seq(Arrays), sp # <<>>, IsField(sp), Even(sp)
  PROVE  LET rows  == ShapeOf(sp)[1]
             cols  == ShapeOf(sp)[2]
             cells == Cells(sp[1].shape)
         IN /\ cells \in Nat /\ rows * cols = Len(sp) * cells
            /\ Len(sp) > 1 => rows = Len(sp) /\ cols = cells
            /\ Len(sp) = 1 => sp[1].shape[2] = cols
<1> DEFINE rows  == ShapeOf(sp)[1]
           cols  == ShapeOf(sp)[2]
           first == sp[1].shape
<1>1. rows \in Nat /\ cols \in Nat
  BY FieldRows
<1>2. Len(sp) \in Nat /\ Len(sp) > 0 /\ 1 \in 1..Len(sp)
  OBVIOUS
<1>3. first \in Seq(Nat)
  BY <1>2, ReadoutTyped
<1>4. Len(ShapeOf(sp)) = 2
  BY DEF IsField
<1>5. CASE Len(sp) > 1
  <2> DEFINE n == Len(sp)
  <2>1. ShapeOf(sp) = <<n>> \o first
    BY <1>5 DEF ShapeOf
  <2> HIDE DEF first, n
  <2>2. Len(first) = 1 /\ rows = n /\ cols = first[1]
    BY <1>2, <1>3, <1>4, <2>1 DEF n
  <2>3. first = <<cols>>
    BY <1>3, <2>2
  <2>4. Cells(first) = cols
    BY <1>1, <2>3, CellsOfRow
  <2> QED BY <1>1, <1>5, <2>2, <2>4 DEF first, n
<1>6. CASE Len(sp) = 1
  <2>1. ShapeOf(sp) = first
    BY <1>6 DEF ShapeOf
  <2> HIDE DEF first
  <2>2. first = <<first[1], first[2]>>
    BY <1>3, <1>4, <2>1, TwoDimensions
  <2>3. rows = first[1] /\ cols = first[2]
    BY <2>1
  <2>4. Cells(first) = rows * cols
    BY <1>1, <2>2, <2>3, CellsOfField
  <2> HIDE DEF rows, cols
  <2>5. rows * cols \in Nat /\ rows * cols = 1 * (rows * cols)
    BY <1>1
  <2> QED BY <1>6, <2>3, <2>4, <2>5 DEF first, rows, cols
<1>7. Len(sp) > 1 \/ Len(sp) = 1
  <2> DEFINE n == Len(sp)
  <2>1. n \in Nat /\ n > 0
    BY <1>2
  <2> HIDE DEF n, rows, cols, first
  <2>2. n > 1 \/ n = 1
    BY <2>1
  <2> QED BY <2>2 DEF n
<1> QED BY <1>5, <1>6, <1>7, Zenon

\* A row of even spots: the samples of one spot, or a line of the only one.
LEMMA EvenRow ==
  ASSUME NEW sp \in Seq(Arrays), sp # <<>>, IsField(sp), Even(sp), NEW r \in 0..(ShapeOf(sp)[1] - 1)
  PROVE  LET cols == ShapeOf(sp)[2]
         IN /\ cols \in Nat /\ cols > 0
            /\ Row(sp, r) \in Seq(Int) /\ Len(Row(sp, r)) = cols
            /\ Len(sp) > 1 => Row(sp, r) = sp[r + 1].items
            /\ Len(sp) = 1 => \A c \in 1..cols : Row(sp, r)[c] = sp[1].items[r * cols + c]
<1> DEFINE rows == ShapeOf(sp)[1]
           cols == ShapeOf(sp)[2]
           m    == Cells(sp[1].shape)
           n    == Len(sp)
           vals == ValuesOf(sp)
           parts == [i \in DOMAIN sp |-> sp[i].items]
           T    == Seq(Int)
<1>1. rows \in Nat /\ cols \in Nat /\ rows > 0 /\ cols > 0 /\ r \in Nat /\ r + 1 <= rows
  BY FieldRows
<1>2. /\ m \in Nat /\ rows * cols = n * m
      /\ n > 1 => rows = n /\ cols = m
  BY EvenShape
<1>3. n \in Nat /\ n > 0
  OBVIOUS
<1>4. \A i \in 1..n : sp[i].items \in Seq(Int) /\ Len(sp[i].items) = m
  BY ReadoutTyped DEF Even
<1>5. vals \in Seq(Int) /\ Len(vals) = n * m
      /\ \A j \in 1..n, i \in 1..m : vals[(j - 1) * m + i] = sp[j].items[i]
  <2>1. parts \in [1..n -> T] /\ \A j \in 1..n : parts[j] = sp[j].items
    BY <1>4
  <2>2. vals = FlattenSeq(parts)
    BY DEF ValuesOf
  <2> HIDE DEF parts, T, n, m
  <2>3. parts \in Seq(T) /\ Len(parts) = n
    BY <2>1, <1>3, FunctionIsSeq
  <2>4. parts \in Seq(Seq(Int)) /\ \A j \in 1..Len(parts) : Len(parts[j]) = m
    BY <2>1, <2>3, <1>4 DEF T
  <2>5. /\ FlattenSeq(parts) \in Seq(Int)
        /\ Len(FlattenSeq(parts)) = Len(parts) * m
        /\ \A j \in 1..Len(parts), i \in 1..m : FlattenSeq(parts)[(j - 1) * m + i] = parts[j][i]
    <3>1. m \in Nat
      BY <1>2
    <3> QED BY <2>4, <3>1, FlattenEven, Zenon
  <2> HIDE DEF vals
  <2> QED BY <2>1, <2>2, <2>3, <2>5
<1> HIDE DEF rows, cols, m, n, vals, parts, T
<1> DEFINE lo == r * cols
           hi == (r + 1) * cols
           row == Row(sp, r)
<1>6. /\ lo \in Nat /\ hi \in Nat /\ lo <= hi /\ hi - lo = cols /\ hi <= rows * cols
  <2>1. (r + 1) * cols <= rows * cols
    BY <1>1
  <2>2. (r + 1) * cols = r * cols + cols
    BY <1>1
  <2> QED BY <1>1, <2>1, <2>2
<1>7. row = Slice(vals, lo, hi)
  BY DEF Row, vals, cols
<1> HIDE DEF lo, hi, row
<1>8. hi <= Len(vals)
  BY <1>2, <1>5, <1>6
<1>9. row \in Seq(Int) /\ Len(row) = cols /\ \A i \in 1..cols : row[i] = vals[lo + i]
  <2>1. /\ Slice(vals, lo, hi) \in Seq(Int) /\ Len(Slice(vals, lo, hi)) = hi - lo
        /\ \A i \in 1..(hi - lo) : Slice(vals, lo, hi)[i] = vals[lo + i]
    BY <1>5, <1>6, <1>8, SliceTyped
  <2> QED BY <2>1, <1>6, <1>7
<1>10. ASSUME n > 1 PROVE row = sp[r + 1].items
  <2> DEFINE spot == sp[r + 1].items
  <2>1. r + 1 \in 1..n /\ (r + 1) - 1 = r
    BY <1>1, <1>2, <1>10
  <2>2. spot \in Seq(Int) /\ Len(spot) = cols
    BY <2>1, <1>2, <1>4, <1>10
  <2>3. ASSUME NEW i \in 1..cols PROVE row[i] = spot[i]
    <3>1. vals[((r + 1) - 1) * m + i] = sp[r + 1].items[i]
      BY <2>1, <1>2, <1>5, <1>10
    <3>2. ((r + 1) - 1) * m = lo
      BY <2>1, <1>2, <1>10 DEF lo
    <3>3. vals[lo + i] = spot[i]
      BY <3>1, <3>2
    <3> QED BY <3>3, <1>9
  <2> HIDE DEF spot
  <2>4. row = spot
    BY <2>2, <2>3, <1>9
  <2> QED BY <2>4 DEF spot
<1>11. ASSUME n = 1, NEW c \in 1..cols
       PROVE  row[c] = sp[1].items[r * cols + c]
  <2>1. lo + c \in 1..m
    <3>1. rows * cols = m
      BY <1>2, <1>11
    <3> QED BY <3>1, <1>6, <1>1, <1>2
  <2>2. vals[(1 - 1) * m + (lo + c)] = sp[1].items[lo + c]
    BY <2>1, <1>5, <1>11
  <2>3. (1 - 1) * m + (lo + c) = lo + c
    BY <1>2, <1>6
  <2>4. vals[lo + c] = sp[1].items[lo + c]
    BY <2>2, <2>3
  <2> QED BY <2>4, <1>9 DEF lo
<1> QED BY <1>1, <1>9, <1>10, <1>11 DEF row, cols, n

\* The samples a row of the view is to be compared with are the ones it was made
\* of.
LEMMA RowIsSpot ==
  ASSUME spots \in Seq(Arrays), spots # <<>>, IsField(spots), Even(spots),
         NEW r \in 0..(ShapeOf(spots)[1] - 1)
  PROVE  RowSamples(r) = Row(spots, r) /\ Row(spots, r) # <<>>
<1> DEFINE cols == ShapeOf(spots)[2]
           row == Row(spots, r)
<1>1. /\ cols \in Nat /\ cols > 0
      /\ row \in Seq(Int) /\ Len(row) = cols
      /\ Len(spots) > 1 => row = spots[r + 1].items
      /\ Len(spots) = 1 => \A c \in 1..cols : row[c] = spots[1].items[r * cols + c]
  BY EvenRow
<1>2. Len(spots) = 1 => spots[1].shape[2] = cols
  BY EvenShape
<1>3. Len(spots) \in Nat /\ Len(spots) > 0
  OBVIOUS
<1> HIDE DEF cols, row
<1>4. CASE Len(spots) > 1
  BY <1>1, <1>4 DEF RowSamples, row
<1>5. CASE Len(spots) = 1
  <2>1. RowSamples(r) = [c \in 1..cols |-> spots[1].items[r * cols + c]]
    BY <1>2, <1>5 DEF RowSamples
  <2>2. row = [c \in 1..cols |-> row[c]]
    BY <1>1
  <2>3. RowSamples(r) = row
    BY <2>1, <2>2, <1>1, <1>5
  <2> QED BY <2>3, <1>1 DEF row
<1>6. row # <<>>
  BY <1>1
<1>7. Len(spots) > 1 \/ Len(spots) = 1
  <2> DEFINE n == Len(spots)
  <2>1. n \in Nat /\ n > 0
    BY <1>3
  <2> HIDE DEF n
  <2>2. n > 1 \/ n = 1
    BY <2>1
  <2> QED BY <2>2 DEF n
<1> QED BY <1>4, <1>5, <1>6, <1>7, Zenon DEF row

\* Even spots do not make the parser raise.
LEMMA EvenNotRagged ==
  ASSUME spots \in Seq(Arrays), spots # <<>>, Even(spots)
  PROVE  ~Ragged(spots)
<1> SUFFICES ASSUME IsField(spots), NEW j \in DOMAIN KeptRows(spots)
             PROVE  Row(spots, KeptRows(spots)[j]) # <<>>
  BY DEF Ragged
<1>1. KeptRows(spots)[j] \in 0..(ShapeOf(spots)[1] - 1)
  BY FieldRows
<1> QED BY <1>1, RowIsSpot

\* The least and the greatest sample of a row.
LEMMA RowBounds ==
  ASSUME NEW s \in Seq(Int), s # <<>>
  PROVE  /\ {Min(Range(s)), Max(Range(s))} \subseteq Range(s)
         /\ \A i \in 1..Len(s) : s[i] \in Min(Range(s))..Max(Range(s))
<1> DEFINE n == Len(s)
<1>1. n \in Nat /\ DOMAIN s = 1..n /\ \A i \in 1..n : s[i] \in Int
  OBVIOUS
<1>2. PICK h \in 1..n : \A j \in 1..n : s[j] <= s[h]
  BY GreatestSample
<1>3. PICK l \in 1..n : \A j \in 1..n : s[l] <= s[j]
  BY LeastSample
<1>4. Range(s) = {s[i] : i \in 1..n}
  BY <1>1 DEF Range
<1> HIDE DEF n
<1>5. /\ Range(s) \subseteq Int /\ s[h] \in Range(s) /\ s[l] \in Range(s)
      /\ \A v \in Range(s) : v <= s[h] /\ s[l] <= v
  BY <1>1, <1>2, <1>3, <1>4
<1>6. Max(Range(s)) = s[h] /\ Min(Range(s)) = s[l]
  BY <1>5, MaxFacts, MinFacts
<1>7. \A i \in 1..n : s[i] \in s[l]..s[h]
  BY <1>1, <1>2, <1>3
<1> QED BY <1>5, <1>6, <1>7 DEF n

-----------------------------------------------------------------------------
\* What is in hand of the artifact: an entry is that of the arrays in hand, and
\* once the parser has raised, the arrays left are those it raised on.
ReadingInv ==
  /\ key = NoKey => entry = NoEntry
  /\ key # NoKey => view = "reading" /\ key \in Labels \ results
  /\ key = NoKey /\ view # "none" => spots = <<>>
  /\ view = "none" /\ spots # <<>> => Ragged(spots)

EntryInv ==
  /\ entry.drawn = "trace" => entry.values = Trace(spots)
  /\ entry.drawn = "other" => entry.values = Truncated(spots)
  /\ entry.drawn = "field" =>
       spots # <<>> /\ IsField(spots) /\ ~Ragged(spots) /\ entry.values = Field(spots)

\* A step of the parser leaves the artifact alone, or is one of its actions.
LEMMA ResultsSteps ==
  ASSUME [Next]_vars
  PROVE  ResultsNext \/ UNCHANGED resultVars
BY DEF Next, vars, ParseResults, ParseRun

\* Both are kept, by every step of the parser.
LEMMA ReadingStep ==
  ASSUME TypeOK, ReadingInv, [Next]_vars
  PROVE  ReadingInv'
<1> USE NoKeyIsNone DEF ReadingInv
<1>1. CASE Undecodable
  BY <1>1 DEF Undecodable
<1>2. CASE NoSpots \/ DrawField \/ DrawTrace \/ KeepComplex \/ Truncate
  <2>1. key # NoKey /\ UNCHANGED <<results, key, spots, view>>
    BY <1>2 DEF NoSpots, DrawField, DrawTrace, KeepComplex, Truncate, InHand, Draw
  <2> QED BY <2>1
<1>3. CASE Raise
  BY <1>3 DEF Raise, InHand, Ragged
<1>4. CASE Store
  BY <1>4 DEF Store
<1>5. CASE Show
  <2>1. key = NoKey /\ entry' = entry /\ spots' = spots /\ key' = key /\ view' # "none"
    BY <1>5 DEF Show
  <2> QED BY <2>1, <1>5 DEF Show
<1>6. ASSUME NEW l \in Labels, NextKey(l)
      PROVE  ReadingInv'
  BY <1>6 DEF NextKey
<1>7. CASE UNCHANGED resultVars
  BY <1>7 DEF resultVars, Ragged
<1> QED BY <1>1, <1>2, <1>3, <1>4, <1>5, <1>6, <1>7, ResultsSteps DEF ResultsNext

\* An entry stays that of the arrays in hand until it is stored.
LEMMA EntryStep ==
  ASSUME TypeOK, ReadingInv, EntryInv, [Next]_vars
  PROVE  EntryInv'
<1>1. CASE entry' = NoEntry
  BY <1>1 DEF EntryInv, NoEntry
<1>2. CASE UNCHANGED <<entry, spots>>
  BY <1>2 DEF EntryInv, Field, Trace, Truncated
<1>3. CASE NoSpots
  BY <1>3 DEF NoSpots, Draw, EntryInv
<1>4. CASE DrawField
  BY <1>4 DEF DrawField, Draw, EntryInv, Field
<1>5. CASE DrawTrace
  BY <1>5 DEF DrawTrace, Draw, EntryInv, Trace
<1>6. CASE KeepComplex
  BY <1>6 DEF KeepComplex, Draw, EntryInv
<1>7. CASE Truncate
  BY <1>7 DEF Truncate, Draw, EntryInv, Truncated
<1>8. ASSUME NEW l \in Labels, NextKey(l)
      PROVE  entry' = NoEntry
  BY <1>8 DEF NextKey, ReadingInv
<1>9. Undecodable \/ Raise \/ Show => UNCHANGED <<entry, spots>>
  BY DEF Undecodable, Raise, Show
<1>10. Store => entry' = NoEntry
  BY DEF Store
<1> QED BY <1>1, <1>2, <1>3, <1>4, <1>5, <1>6, <1>7, <1>8, <1>9, <1>10, ResultsSteps
        DEF ResultsNext, resultVars

ParserInv == TypeOK /\ ReadingInv /\ EntryInv

\* What holds in every reachable state.
LEMMA ParserInvariant == Spec => []ParserInv
<1>1. Init => ReadingInv /\ EntryInv
  BY DEF Init, ResultsInit, ReadingInv, EntryInv, NoEntry
<1>2. TypeOK /\ ReadingInv /\ [Next]_vars => ReadingInv'
  BY ReadingStep
<1>3. TypeOK /\ ReadingInv /\ EntryInv /\ [Next]_vars => EntryInv'
  BY EntryStep
<1> QED BY <1>1, <1>2, <1>3, TypeCorrect, PTL DEF Spec, ParserInv

\* The view of an artifact is lost to an exception (parse_sweep_results) only where the
\* arrays of some label are uneven: for any number of spots, rows and columns.
THEOREM OnlyUnevenIsLost == Spec => []OnlyUnevenLost
<1>1. ParserInv => OnlyUnevenLost
  <2> SUFFICES ASSUME ParserInv, view = "none", spots # <<>>, Even(spots) PROVE FALSE
    BY DEF OnlyUnevenLost
  <2>1. spots \in Seq(Arrays) /\ Ragged(spots)
    BY DEF ParserInv, TypeOK, ReadingInv
  <2> QED BY <2>1, EvenNotRagged
<1> QED BY <1>1, ParserInvariant, PTL

\* What is drawn fits the limits (MAX_TRACE_POINTS, MAX_ROWS, MAX_FIELD_COLS), for any
\* limits, and whatever arrays the machine sends; the rows of a field that are kept
\* spread over all of them.
THEOREM ViewIsBounded == Spec => []ViewBounded
<1>1. ParserInv => ViewBounded
  <2> SUFFICES ASSUME ParserInv PROVE ViewBounded
    OBVIOUS
  <2>0. spots \in Seq(Arrays) /\ EntryInv
    BY DEF ParserInv, TypeOK
  <2>1. ValuesOf(spots) \in Seq(Int)
    BY <2>0, ReadoutTyped
  <2>2. MaxTracePoints \in Nat /\ MaxTracePoints > 1 /\ MaxFieldCols \in Nat /\ MaxFieldCols > 0
    BY LimitsPositive
  <2>3. ASSUME entry.drawn = "trace" PROVE Len(entry.values) <= MaxTracePoints
    <3>1. entry.values = MinMaxDecimate(ValuesOf(spots), MaxTracePoints)
      BY <2>0, <2>3 DEF EntryInv, Trace
    <3> QED BY <3>1, <2>1, <2>2, MinMaxBounded
  <2>4. ASSUME entry.drawn = "other" PROVE Len(entry.values) <= MaxTracePoints
    <3>1. entry.values = Slice(ValuesOf(spots), 0, MaxTracePoints)
      BY <2>0, <2>4 DEF EntryInv, Truncated
    <3>2. 0 \in Nat
      OBVIOUS
    <3> QED BY <3>1, <3>2, <2>1, <2>2, SliceTyped
  <2>5. ASSUME entry.drawn = "field"
        PROVE  /\ Spread(entry.values.rowIndices, ShapeOf(spots)[1], MaxRows)
               /\ \A j \in DOMAIN entry.values.field : Len(entry.values.field[j]) <= MaxFieldCols
    <3>1. spots # <<>> /\ IsField(spots) /\ entry.values = Field(spots)
      BY <2>0, <2>5 DEF EntryInv
    <3>2. /\ entry.values.rowIndices = KeptRows(spots)
          /\ entry.values.field
               = [j \in DOMAIN KeptRows(spots) |->
                    AbsMaxDecimate(Row(spots, KeptRows(spots)[j]), MaxFieldCols)]
      BY <3>1 DEF Field
    <3>3. /\ Spread(KeptRows(spots), ShapeOf(spots)[1], MaxRows)
          /\ \A j \in DOMAIN KeptRows(spots) : Row(spots, KeptRows(spots)[j]) \in Seq(Int)
      BY <2>0, <3>1, FieldRows
    <3>4. ASSUME NEW j \in DOMAIN KeptRows(spots)
          PROVE  Len(AbsMaxDecimate(Row(spots, KeptRows(spots)[j]), MaxFieldCols)) <= MaxFieldCols
      BY <2>2, <3>3, AbsMaxKeeps
    <3> QED BY <3>2, <3>3, <3>4
  <2> QED BY <2>3, <2>4, <2>5 DEF ViewBounded
<1> QED BY <1>1, ParserInvariant, PTL

\* A trace of any length, under any limit (_minmax_decimate): what is drawn of it are
\* samples of it in their order, and each of its samples lies between two that are drawn
\* and less than a bucket's width away, so that no spike is lost or moved.
THEOREM EnvelopeIsKept == Spec => []EnvelopeKept
<1>1. ParserInv => EnvelopeKept
  <2> SUFFICES ASSUME ParserInv, entry.drawn = "trace" PROVE EnvelopeKept
    BY DEF EnvelopeKept
  <2> DEFINE drawn == entry.values
             w == Width(Len(Source), Pairs(MaxTracePoints))
  <2>1. Source \in Seq(Int)
    BY ReadoutTyped DEF Source, ParserInv, TypeOK
  <2>2. drawn = MinMaxDecimate(Source, MaxTracePoints)
    BY DEF ParserInv, EntryInv, Trace, Source
  <2>3. MaxTracePoints \in Nat /\ MaxTracePoints > 1
    BY LimitsPositive
  <2>4. drawn \in Seq(Int)
    BY <2>1, <2>2, <2>3, MinMaxBounded
  <2>5. PICK at : Placing(Source, drawn, w, at)
    BY <2>1, <2>2, <2>3, TracePlaced
  <2> DEFINE P == {at[j] : j \in 1..Len(drawn)}
  <2> HIDE DEF w, drawn
  <2>6. EnvelopeOf(Source, drawn, w, P)
    BY <2>1, <2>4, <2>5, EnvelopeFound
  <2> HIDE DEF P
  <2>7. P \in kSubset(Len(drawn), DOMAIN Source)
    BY <2>6 DEF EnvelopeOf, kSubset
  <2>8. /\ \A p \in P : drawn[Rank(p, P)] = Source[p]
        /\ \A i \in DOMAIN Source : \E p, q \in P :
             /\ {AbsOf(p - i), AbsOf(q - i)} \subseteq 0..(w - 1)
             /\ Source[p] <= Source[i] /\ Source[i] <= Source[q]
    BY <2>6 DEF EnvelopeOf, Rank
  <2> QED BY <2>7, <2>8 DEF EnvelopeKept, w, Width, drawn
<1> QED BY <1>1, ParserInvariant, PTL

\* For any number of spots, rows and columns and any limits: a row of a field that is
\* drawn under an index holds the samples sent for that row (_absmax_decimate), each
\* of them under a peak that is as high, and has their least and greatest for its range.
THEOREM RowsAreTheSpots == Spec => []RowsAreSpots
<1>1. ParserInv => RowsAreSpots
  <2> SUFFICES ASSUME ParserInv, entry.drawn = "field", Even(spots),
                      NEW j \in DOMAIN entry.values.rowIndices
               PROVE  RowKept(j, RowSamples(entry.values.rowIndices[j]))
    BY DEF RowsAreSpots
  <2> DEFINE r == KeptRows(spots)[j]
             row == Row(spots, r)
  <2>1. spots \in Seq(Arrays) /\ spots # <<>> /\ IsField(spots) /\ entry.values = Field(spots)
    BY DEF ParserInv, TypeOK, EntryInv
  <2>2. entry.values.rowIndices = KeptRows(spots)
    BY <2>1 DEF Field
  <2>3. /\ entry.values.field[j] = AbsMaxDecimate(row, MaxFieldCols)
        /\ entry.values.rowMin[j] = Min(Range(row))
        /\ entry.values.rowMax[j] = Max(Range(row))
    BY <2>1, <2>2 DEF Field
  <2>4. r \in 0..(ShapeOf(spots)[1] - 1) /\ row \in Seq(Int)
    BY <2>1, <2>2, FieldRows
  <2> HIDE DEF r
  <2>5. RowSamples(r) = row /\ row # <<>>
    BY <2>1, <2>4, RowIsSpot
  <2> HIDE DEF row
  <2>6. CellsKeep(row, AbsMaxDecimate(row, MaxFieldCols))
    BY <2>4, LimitsPositive, AbsMaxKeeps
  <2>7. /\ {Min(Range(row)), Max(Range(row))} \subseteq Range(row)
        /\ \A i \in 1..Len(row) : row[i] \in Min(Range(row))..Max(Range(row))
    BY <2>4, <2>5, RowBounds
  <2>8. RowKept(j, row)
    BY <2>3, <2>6, <2>7 DEF RowKept, CellsKeep
  <2> QED BY <2>2, <2>5, <2>8 DEF r
<1> QED BY <1>1, ParserInvariant, PTL
=============================================================================

--------------------------- MODULE RunDefinition ---------------------------
(***************************************************************************)
(* parse_run_definition: the view of a payload artifact.  The sweep        *)
(* definition is looked for in two places; the axes, the readout metadata  *)
(* and the pulse schedule are read one after the other, each so that its   *)
(* absence does not cost the rest.  Reading the schedule, every waveform   *)
(* is given an envelope and every readout trigger is followed through the  *)
(* instruction table to the waveform it plays.                             *)
(***************************************************************************)
EXTENDS Decimation

CONSTANTS
  MaxSchedules,    \* MAX_SCHEDULES
  EnvelopePoints,  \* ENVELOPE_POINTS
  MaxDepth,        \* the depth beyond which _probe_waveform gives up: 4
  Totals,          \* how many schedules a playlist may have
  Waveforms,       \* the samples a waveform may carry
  Names,           \* the waveforms an instruction may refer to
  Tables,          \* the instruction tables a channel may have
  Refs             \* the probe_pulse_refs a readout trigger may have

ASSUME ScheduleLimits ==
  MaxSchedules \in Nat \ {0} /\ EnvelopePoints \in Nat \ {0, 1} /\ MaxDepth \in Nat

\* A SweepRequest, by whether it has sweeps and channels.
Sweeps == [axes : BOOLEAN, channels : BOOLEAN]

\* An instruction: a pulse that names a waveform, a multiplexed pulse with the
\* instructions its entries refer to, or another operation.
Pulse(w)          == [op |-> "pulse", wf |-> w, refs |-> <<>>]
Multiplexed(refs) == [op |-> "multiplexed", wf |-> "none", refs |-> refs]
Wait              == [op |-> "wait", wf |-> "none", refs |-> <<>>]

Instructions == [op : {"pulse", "multiplexed", "wait"}, wf : Names \cup {"none"}, refs : Seq(Int)]

\* A pulse names a waveform; only a multiplexed pulse refers to others.
WellFormed(t) ==
  \A i \in DOMAIN t :
    /\ t[i].op = "pulse" => t[i].wf \in Names
    /\ t[i].op # "multiplexed" => t[i].refs = <<>>

ASSUME PlaylistsSent ==
  /\ "none" \notin Names
  /\ Totals \subseteq Nat /\ Waveforms \subseteq Seq(Int) /\ Refs \subseteq Int
  /\ \A t \in Tables : t \in Seq(Instructions) /\ WellFormed(t)

VARIABLES
  run,      \* the payload: its inline sweep definition, whether a packed one can be
            \* read, that one, and whether its metadata can be read
  step,     \* what parse_run_definition does next
  shown,    \* the view: where its axes come from, its metadata, its playlist
  wave,     \* the waveform in hand: samples, envelope before scaling, and scale
  table,    \* the instruction table of the channel in hand
  trigger,  \* the probe_pulse_ref of the readout trigger in hand
  probe     \* where _probe_waveform is in the table, how deep, and its answer

inHand  == <<wave, table, trigger, probe>>
runVars == <<run, step, shown, inHand>>

NoWave   == [samples |-> <<>>, env |-> <<>>, peak |-> 1]
NoProbe  == [idx |-> 0, depth |-> 0, wf |-> "none"]
EmptyBox == wave' = NoWave /\ table' = <<>> /\ trigger' = 0 /\ probe' = NoProbe

-----------------------------------------------------------------------------
RunDefinitions == [inline : Sweeps, packed : Sweeps, readable : BOOLEAN, metadata : BOOLEAN]
Bare  == [axes |-> FALSE, channels |-> FALSE]
NoRun == [inline |-> Bare, packed |-> Bare, readable |-> FALSE, metadata |-> FALSE]

RunInit ==
  /\ run = NoRun
  /\ step = "bytes"
  /\ shown = [source |-> "none", axes |-> FALSE, metadata |-> FALSE,
              playlist |-> FALSE, schedules |-> <<>>, total |-> 0]
  /\ wave = NoWave /\ table = <<>> /\ trigger = 0 /\ probe = NoProbe

\* FromString; bytes that are no RunDefinition raise, and there is no view.
Decode ==
  /\ step = "bytes"
  /\ run' \in RunDefinitions
  /\ step' = "definition"
  /\ UNCHANGED <<shown, inHand>>

NoRunDefinition ==
  /\ step = "bytes"
  /\ step' = "none"
  /\ UNCHANGED <<run, shown, inHand>>

Definition(source) == IF source = "inline" THEN run.inline ELSE run.packed

Choose_PackedFirst ==   \* slip: the packed definition before the inline one
  /\ step = "definition"
  /\ shown' = [shown EXCEPT !.source = IF run.readable THEN "packed" ELSE "inline"]
  /\ step' = "axes"
  /\ UNCHANGED <<run, inHand>>

\* _sweep_definition: the inline definition if its playlist has channels; else the
\* packed one, unless it is absent, is no SweepRequest or raises as it is unpacked.
Choose ==
  /\ step = "definition"
  /\ shown' = [shown EXCEPT !.source =
                 IF ~run.inline.channels /\ run.readable THEN "packed" ELSE "inline"]
  /\ step' = "axes"
  /\ UNCHANGED <<run, inHand>>

\* The axes of the whole run, there or not.  That their values are cut short, beside the
\* true number of them, and the axes by readout label are left out.
ReadAxes ==
  /\ step = "axes"
  /\ shown' = [shown EXCEPT !.axes = Definition(shown.source).axes]
  /\ step' = "metadata"
  /\ UNCHANGED <<run, inHand>>

\* MessageToDict raises on a Struct with an unset value, and is caught here.
ReadMetadata ==
  /\ step = "metadata"
  /\ shown' = [shown EXCEPT !.metadata = run.metadata]
  /\ step' = "playlist"
  /\ UNCHANGED <<run, inHand>>

\* _parse_playlist: no channels, no schedule.
NoPlaylist ==
  /\ step = "playlist" /\ ~Definition(shown.source).channels
  /\ step' = "done"
  /\ UNCHANGED <<run, shown, inHand>>

OpenPlaylist ==
  /\ step = "playlist" /\ Definition(shown.source).channels
  /\ step' = "channel"
  /\ UNCHANGED <<run, shown, inHand>>

-----------------------------------------------------------------------------
PeakOf_Signed(red) == IF Max(Range(red)) = 0 THEN 1 ELSE Max(Range(red))   \* slip: no abs

\* `max(abs(v) for v in red) or 1.0'
PeakOf(red) == IF Peak(red) = 0 THEN 1 ELSE Peak(red)

\* _envelope of a waveform given by its samples: every point is divided by the peak.
\* An analytic shape is evaluated at ENVELOPE_POINTS points, and no samples are
\* drawn as as many zeros.
Envelope ==
  /\ step = "channel"
  /\ \E s \in Waveforms :
       wave' = IF s = <<>> THEN [samples |-> s, env |-> [i \in 1..EnvelopePoints |-> 0], peak |-> 1]
               ELSE LET red == MinMaxDecimate(s, EnvelopePoints)
                    IN [samples |-> s, env |-> red, peak |-> PeakOf(red)]
  /\ step' = "waveform"
  /\ UNCHANGED <<run, shown, table, trigger, probe>>

\* A readout trigger: _probe_waveform starts at the instruction it refers to.
MeetTrigger ==
  /\ step = "channel"
  /\ table' \in Tables /\ trigger' \in Refs
  /\ probe' = [NoProbe EXCEPT !.idx = trigger']
  /\ step' = "probe"
  /\ UNCHANGED <<run, shown, wave>>

OutOfTable_NoDepth ==   \* slip: no bound on the depth
  probe.idx < 0 \/ probe.idx >= Len(table)

OutOfTable == probe.depth > MaxDepth \/ probe.idx < 0 \/ probe.idx >= Len(table)
Instruction == table[probe.idx + 1]

LeaveTable ==
  /\ step = "probe" /\ OutOfTable
  /\ step' = "resolved"
  /\ UNCHANGED <<run, shown, inHand>>

EndNowhere ==
  /\ step = "probe" /\ ~OutOfTable
  /\ Instruction.op # "pulse" /\ Instruction.refs = <<>>
  /\ step' = "resolved"
  /\ UNCHANGED <<run, shown, inHand>>

NameWaveform ==
  /\ step = "probe" /\ ~OutOfTable
  /\ Instruction.op = "pulse"
  /\ probe' = [probe EXCEPT !.wf = Instruction.wf]
  /\ step' = "resolved"
  /\ UNCHANGED <<run, shown, wave, table, trigger>>

Follow_LastTone ==   \* slip: the last entry
  /\ step = "probe" /\ ~OutOfTable
  /\ Instruction.op = "multiplexed" /\ Instruction.refs # <<>>
  /\ probe' = [probe EXCEPT !.idx = Instruction.refs[Len(Instruction.refs)], !.depth = @ + 1]
  /\ UNCHANGED <<run, step, shown, wave, table, trigger>>

\* The entries of a multiplexed pulse share a shape: the first is followed.
Follow ==
  /\ step = "probe" /\ ~OutOfTable
  /\ Instruction.op = "multiplexed" /\ Instruction.refs # <<>>
  /\ probe' = [probe EXCEPT !.idx = Instruction.refs[1], !.depth = @ + 1]
  /\ UNCHANGED <<run, step, shown, wave, table, trigger>>

\* The envelope, or the waveform, is written to the view of the channel.
NextInTable ==
  /\ step \in {"waveform", "resolved"}
  /\ step' = "channel"
  /\ EmptyBox
  /\ UNCHANGED <<run, shown>>

KeepSchedules ==
  /\ step = "channel"
  /\ \E total \in Totals :
       shown' = [shown EXCEPT !.playlist = TRUE, !.total = total,
                              !.schedules = Kept(total, MaxSchedules)]
  /\ step' = "done"
  /\ UNCHANGED <<run, inHand>>

RunNext ==
  \/ Decode \/ NoRunDefinition \/ Choose \/ ReadAxes \/ ReadMetadata \/ NoPlaylist \/ OpenPlaylist
  \/ Envelope \/ MeetTrigger \/ LeaveTable \/ EndNowhere \/ NameWaveform \/ Follow
  \/ NextInTable \/ KeepSchedules

-----------------------------------------------------------------------------
\* The definition whose channels would be drawn: the inline one goes first.
Drawn == IF run.inline.channels THEN run.inline ELSE run.packed

\* Whatever part of a payload cannot be read, a schedule that is there in one of its
\* two places is drawn, and the axes are those of the definition it comes from
\* (_sweep_definition, and the exceptions caught one by one).
ScheduleShown ==
  step \in {"done", "none"} /\ shown.source # "none" =>
    /\ shown.playlist <=> run.inline.channels \/ (run.readable /\ run.packed.channels)
    /\ shown.playlist => shown.axes = Drawn.axes

\* The instructions on the way from the trigger to a pulse, by first entries only.
IsPath(p, d) ==
  /\ p[0] = trigger
  /\ \A i \in 0..(d - 1) :
       LET refs == table[p[i] + 1].refs IN refs # <<>> /\ refs[1] = p[i + 1]
  /\ table[p[d] + 1].op = "pulse"

PathTo(w) ==
  \E d \in 0..MaxDepth : \E p \in [0..d -> 0..(Len(table) - 1)] :
    IsPath(p, d) /\ table[p[d] + 1].wf = w

\* The waveform drawn for a readout is the one its trigger plays: that of the pulse
\* at the end of the references, if there is one within the depth, and none for
\* references that lead out of the table, nowhere, or in a circle (_probe_waveform).
ProbeFaithful ==
  step = "resolved" =>
    IF probe.wf = "none" THEN \A i \in DOMAIN table : table[i].op = "pulse" => ~PathTo(table[i].wf)
    ELSE PathTo(probe.wf)

\* An envelope reduced from samples still fills the unit interval: it leaves it
\* nowhere and, unless the waveform is silent, the greatest of ALL the samples is
\* drawn at its edge (_envelope divides by the peak of the reduced samples).
EnvelopeScaled ==
  step = "waveform" =>
    /\ Len(wave.env) <= EnvelopePoints /\ wave.peak > 0
    /\ \A i \in DOMAIN wave.env : AbsOf(wave.env[i]) <= wave.peak
    /\ Range(wave.samples) \subseteq {0} \/
         /\ wave.peak = Peak(wave.samples)
         /\ \E i \in DOMAIN wave.env : AbsOf(wave.env[i]) = wave.peak

\* The schedules kept for drawing are never more than the limit, are all of them
\* when they fit, and leave no gap longer than the stride, the end included.
SchedulesSpread ==
  shown.playlist => Spread(shown.schedules, shown.total, MaxSchedules)
=============================================================================

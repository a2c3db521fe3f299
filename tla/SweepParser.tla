---------------------------- MODULE SweepParser ----------------------------
(***************************************************************************)
(* parse_artifact: the sidecar the job-reporter asks for when it has       *)
(* stored an artifact.  The type of the artifact says which parser reads   *)
(* it, one has none, and an exception of either means that there is no     *)
(* sidecar.                                                                *)
(***************************************************************************)
EXTENDS SweepResults, RunDefinition

VARIABLE atype   \* the type of the artifact

vars == <<atype, resultVars, runVars>>

Init ==
  /\ atype \in {"sweep_results", "payload", "other"}
  /\ ResultsInit /\ RunInit

ParseResults == atype = "sweep_results" /\ ResultsNext /\ UNCHANGED <<atype, runVars>>
ParseRun     == atype = "payload" /\ RunNext /\ UNCHANGED <<atype, resultVars>>

Next == ParseResults \/ ParseRun
Spec == Init /\ [][Next]_vars

-----------------------------------------------------------------------------
\* What each part of the state holds: the types of the two views.
TypeOK ==
  /\ results \subseteq Labels /\ key \in Labels \cup {NoKey}
  /\ spots \in Seq(Arrays)
  /\ view \in {"reading", "shown", "none"}
  /\ entry.drawn \in {"nothing", "empty", "field", "trace", "complex", "other"}
  /\ entry = NoEntry \/ key \in Labels
  /\ run \in RunDefinitions
  /\ step \in {"bytes", "definition", "axes", "metadata", "playlist", "channel", "waveform",
               "probe", "resolved", "done", "none"}
  /\ shown \in [source : {"none", "inline", "packed"}, axes : BOOLEAN, metadata : BOOLEAN,
                playlist : BOOLEAN, schedules : Seq(Nat), total : Nat]
  /\ table \in Seq(Instructions) /\ trigger \in Int
  /\ probe \in [idx : Int, depth : 0..(MaxDepth + 1), wf : Names \cup {"none"}]
=============================================================================

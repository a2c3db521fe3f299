---------------------------- MODULE JobLifecycle ----------------------------
(***************************************************************************)
(* What becomes of an accepted job, without the machinery that brings it   *)
(* about: it is logged and it ends; then its reservation is given back,    *)
(* once unless the releases were forgotten, and the portal is told; then   *)
(* it is dropped, and nothing happens to it any more.                      *)
(***************************************************************************)
EXTENDS Naturals

CONSTANT Jobs

VARIABLES
  logged,    \* jobs with a row, or whose row is gone
  ended,     \* jobs the machine is done with
  freed,     \* how often the reservation of a job was given back
  forgotten, \* how often it was forgotten whose reservation was given back
  told,      \* jobs the portal was told the end of
  dropped    \* jobs whose row is gone

life == <<logged, ended, freed, forgotten, told, dropped>>

Born ==
  /\ logged = {} /\ ended = {} /\ told = {} /\ dropped = {}
  /\ freed = [j \in Jobs |-> 0] /\ forgotten = 0

Over(j) == j \in (logged \cap ended) \ dropped

Log(j) ==
  /\ j \notin logged
  /\ logged' = logged \cup {j}
  /\ UNCHANGED <<ended, freed, forgotten, told, dropped>>

End(j) ==
  /\ j \notin ended
  /\ ended' = ended \cup {j}
  /\ UNCHANGED <<logged, freed, forgotten, told, dropped>>

Free(j) ==
  /\ Over(j) /\ freed[j] <= forgotten
  /\ freed' = [freed EXCEPT ![j] = @ + 1]
  /\ UNCHANGED <<logged, ended, forgotten, told, dropped>>

Forget ==
  /\ forgotten' = forgotten + 1
  /\ UNCHANGED <<logged, ended, freed, told, dropped>>

TellEnd(j) ==
  /\ Over(j)
  /\ told' = told \cup {j}
  /\ UNCHANGED <<logged, ended, freed, forgotten, dropped>>

Drop(j) ==
  /\ Over(j) /\ j \in told
  /\ dropped' = dropped \cup {j}
  /\ UNCHANGED <<logged, ended, freed, forgotten, told>>

Live == Forget \/ \E j \in Jobs : Log(j) \/ End(j) \/ Free(j) \/ TellEnd(j) \/ Drop(j)

LifeSpec == Born /\ [][Live]_life
=============================================================================

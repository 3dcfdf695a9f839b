---------------------------- MODULE ScopePower ----------------------------
(* A scope under power loss, as two instances of ScopeRecovery: one where processes  *)
(* die too, and one where power alone interrupts a write and a writer only stops at     *)
(* rest.  mode tells them apart and never changes.  What fails in the first one holds     *)
(* in the second; the proofs end the module.                                            *)
EXTENDS ScopeRecovery, TLAPS

VARIABLE mode

PowerOnly == INSTANCE ScopeRecoveryProofs WITH ProcessesDie <- FALSE

(* Bound: a scope whose processes die rotates once. *)
OneRotation == \A p \in Procs : pc'[p] = "fenced" => NextId(p) = 2

PowerInit ==
    \/ mode = "deaths" /\ Init
    \/ mode = "power only" /\ PowerOnly!Init

PowerNext ==
    /\ \/ mode = "deaths" /\ Next /\ OneRotation
       \/ mode = "power only" /\ PowerOnly!Next
    /\ UNCHANGED mode

PowerSpec == PowerInit /\ [][PowerNext]_<<vars, mode>>
-----------------------------------------------------------------------------
(* Where only power losses interrupt a write, what was published always opens: the  *)
(* frame is synced before CURRENT names it (group commit's fsync, publish_batch).     *)
PublicationsOpenWithoutDeaths == mode = "power only" => PowerOnly!PublicationsOpen

(* And a retry answered DEDUP_REPLAY names a write no power loss takes back: CURRENT's *)
(* directory is synced before the answer (_swap_current).                               *)
ReplayedSurvivesWithoutDeaths == mode = "power only" => PowerOnly!ReplayedSurvives
-----------------------------------------------------------------------------
(* A behaviour of the second mode is one of ScopeRecovery without deaths, of which       *)
(* ScopeRecoveryProofs speaks; the other mode never becomes it.                          *)

Deathless == mode = "power only"

(* The assumptions of ScopeRecovery hold of the instance without deaths. *)
LEMMA InstanceAssumptions ==
    /\ PowerOnly!ScopeAssumption /\ PowerOnly!NilAssumption /\ PowerOnly!BaseAssumption
    /\ PowerOnly!OneKindOfStop
BY ScopeAssumption, NilAssumption, BaseAssumption
   DEF PowerOnly!ScopeAssumption, PowerOnly!NilAssumption, PowerOnly!BaseAssumption,
       PowerOnly!OneKindOfStop, Entry, PowerOnly!Entry, Contents, PowerOnly!Contents,
       Command, PowerOnly!Command, TxEntry, PowerOnly!TxEntry,
       BaseDedupEntry, PowerOnly!BaseDedupEntry

LEMMA InitDeathless == PowerInit /\ Deathless => PowerOnly!Init
BY DEF PowerInit, Deathless

(* Each step of the second mode is a step of the instance. *)
LEMMA NextDeathless ==
    [PowerNext]_<<vars, mode>> =>
        /\ Deathless => [PowerOnly!Next]_(PowerOnly!vars) /\ Deathless'
        /\ ~Deathless => ~Deathless'
<1>1. UNCHANGED <<vars, mode>> => UNCHANGED PowerOnly!vars
  BY DEF vars, ackVars, diskVars, memVars, PowerOnly!vars, PowerOnly!ackVars,
     PowerOnly!diskVars, PowerOnly!memVars
<1>2. Deathless /\ PowerNext => PowerOnly!Next
  BY DEF Deathless, PowerNext
<1> QED BY <1>1, <1>2 DEF PowerNext, Deathless

(* For any number of processes, commands and power losses: where no process dies between *)
(* two steps, every publication on disk opens, within the limits of the reducer.          *)
THEOREM PowerAloneLosesNothing ==
    PowerOnly!WithinLimits => (PowerSpec => []PublicationsOpenWithoutDeaths)
<1>1. PowerOnly!WithinLimits => (PowerOnly!Spec => []PowerOnly!PublicationsOpen)
  BY InstanceAssumptions, PowerOnly!PublicationsAlwaysOpen
<1>2. /\ ~Deathless => PublicationsOpenWithoutDeaths
      /\ PowerOnly!PublicationsOpen => PublicationsOpenWithoutDeaths
  BY DEF Deathless, PublicationsOpenWithoutDeaths
<1> QED BY <1>1, <1>2, InitDeathless, NextDeathless, PTL DEF PowerSpec, PowerOnly!Spec

(* And what was answered as a replay is still in the history CURRENT has on disk. *)
THEOREM PowerAloneKeepsReplays == PowerSpec => []ReplayedSurvivesWithoutDeaths
<1>1. PowerOnly!Spec => []PowerOnly!ReplayedSurvives
  BY InstanceAssumptions, PowerOnly!ReplayedStays
<1>2. /\ ~Deathless => ReplayedSurvivesWithoutDeaths
      /\ PowerOnly!ReplayedSurvives => ReplayedSurvivesWithoutDeaths
  BY DEF Deathless, ReplayedSurvivesWithoutDeaths
<1> QED BY <1>1, <1>2, InitDeathless, NextDeathless, PTL DEF PowerSpec, PowerOnly!Spec
=============================================================================

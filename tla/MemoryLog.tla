----------------------------- MODULE MemoryLog -----------------------------
(* What one scope promises its clients, whatever happens to processes and to   *)
(* power: an append-only history in which an operation id takes effect at most  *)
(* once, several operations at a time; part of it is stable, and only a stable  *)
(* operation is acknowledged.  Losing power may cost the unstable end of the     *)
(* history and nothing else.  The proof that the promise is kept ends the module. *)
EXTENDS Integers, Sequences, TLAPS

CONSTANTS
    Ops,         \* operations: records with an opid
    MaxBatch     \* how many operations may take effect in one step

VARIABLES
    log,         \* the visible history
    stable,      \* the history that a power loss leaves
    acked        \* the operations acknowledged as applied

vars == <<log, stable, acked>>

Init == log = <<>> /\ stable = <<>> /\ acked = {}

(* n more operations take effect at once, none under an id that already did. *)
Commit(n) ==
    /\ log' \in [1..Len(log) + n -> Ops]
    /\ \A k \in DOMAIN log : log'[k] = log[k]
    /\ \A i \in DOMAIN log', j \in DOMAIN log' \ DOMAIN log :
         log'[i].opid = log'[j].opid => i = j
    /\ UNCHANGED <<stable, acked>>

Harden ==
    /\ stable' = log
    /\ UNCHANGED <<log, acked>>

Acknowledge(op) ==
    /\ \E k \in DOMAIN stable : stable[k] = op
    /\ acked' = acked \cup {op}
    /\ UNCHANGED <<log, stable>>

Lose ==
    /\ log' = stable
    /\ UNCHANGED <<stable, acked>>

Next == \/ \E n \in 1..MaxBatch : Commit(n)
        \/ \E op \in Ops : Acknowledge(op)
        \/ Harden \/ Lose

Spec == Init /\ [][Next]_vars
-----------------------------------------------------------------------------
(* The stable history is the beginning of the visible one. *)
StableIsPrefix ==
    /\ Len(stable) <= Len(log)
    /\ \A k \in DOMAIN stable : stable[k] = log[k]

(* Nothing acknowledged can be lost. *)
AckedIsStable == \A op \in acked : \E k \in DOMAIN stable : stable[k] = op

(* An operation id takes effect once. *)
OncePerId == \A i, j \in DOMAIN log : log[i].opid = log[j].opid => i = j
-----------------------------------------------------------------------------
(* The promise is kept, for every set of operations. *)

LogType == log \in Seq(Ops) /\ stable \in Seq(Ops)

(* OncePerId is not inductive alone: after a loss the visible history is the stable one, *)
(* which is why the stable one must be its beginning.                                    *)
Inv == LogType /\ StableIsPrefix /\ AckedIsStable /\ OncePerId

(* The promise holds in the empty scope. *)
LEMMA InitInv == Init => Inv
  BY DEF Init, Inv, LogType, StableIsPrefix, AckedIsStable, OncePerId

(* Every step keeps the promise. *)
LEMMA NextInv == Inv /\ [Next]_vars => Inv'
<1> SUFFICES ASSUME Inv, [Next]_vars PROVE Inv'
  OBVIOUS
<1> USE DEF Inv, LogType
<1>1. ASSUME NEW n \in 1..MaxBatch, Commit(n) PROVE Inv'
  <2>1. Len(log) \in Nat /\ n \in Nat /\ DOMAIN log = 1..Len(log)
    OBVIOUS
  <2>2. log' \in Seq(Ops) /\ Len(log') = Len(log) + n /\ DOMAIN log' = 1..Len(log) + n
    <3> DEFINE m == Len(log) + n
    <3>1. m \in Nat /\ log' \in [1..m -> Ops]
      BY <1>1, <2>1 DEF Commit
    <3> HIDE DEF m
    <3>2. log' \in Seq(Ops) /\ Len(log') = m /\ DOMAIN log' = 1..m
      BY <3>1
    <3> QED BY <3>2 DEF m
  <2>3. StableIsPrefix' /\ AckedIsStable'
    BY <1>1, <2>1, <2>2 DEF Commit, StableIsPrefix, AckedIsStable
  <2>4. OncePerId'
    BY <1>1, <2>1, <2>2 DEF Commit, OncePerId
  <2> QED BY <1>1, <2>2, <2>3, <2>4 DEF Commit
<1>2. ASSUME NEW op \in Ops, Acknowledge(op) PROVE Inv'
  BY <1>2 DEF Acknowledge, StableIsPrefix, AckedIsStable, OncePerId
<1>3. CASE Harden
  <2>1. AckedIsStable'
    BY <1>3 DEF Harden, AckedIsStable, StableIsPrefix
  <2> QED
    BY <2>1, <1>3 DEF Harden, StableIsPrefix, OncePerId
<1>4. CASE Lose
  <2>1. OncePerId'
    BY <1>4 DEF Lose, OncePerId, StableIsPrefix
  <2> QED
    BY <2>1, <1>4 DEF Lose, StableIsPrefix, AckedIsStable
<1>5. CASE UNCHANGED vars
  BY <1>5 DEF vars, StableIsPrefix, AckedIsStable, OncePerId
<1> QED
  BY <1>1, <1>2, <1>3, <1>4, <1>5 DEF Next

(* For every set of operations, an acknowledged operation stays in the stable history and *)
(* an operation id takes effect once: what a client of horizon_batch.py may rely on.       *)
THEOREM Promise == Spec => [](AckedIsStable /\ OncePerId)
<1>1. Inv => AckedIsStable /\ OncePerId
  BY DEF Inv
<1> QED
  BY InitInv, NextInv, <1>1, PTL DEF Spec
=============================================================================

-------------------------- MODULE MCScopeRecovery --------------------------
(* Small instances of ScopeRecovery for TLC. *)
EXTENDS ScopeRecovery

CONSTANTS p1, p2, f1, o1, o2

C(v, o) == [op |-> "PUT", fact |-> f1, ver |-> v, value |-> v, opid |-> o]

(* Two writes of one fact; submitting either again is a retry. *)
TwoWrites == {C(1, o1), C(2, o2)}
OneWrite == {C(1, o1)}

NoBaseFacts == [f \in Facts |-> BaseAbsent]
NoBaseDedup == [o \in OpIds |-> [kind |-> "new"]]

Sym == Permutations(Procs)
=============================================================================

--------------------------- MODULE MCGroupCommit ---------------------------
(* Small instances of GroupCommit for TLC. *)
EXTENDS GroupCommitReplay, TLC

CONSTANTS r1, r2, r3, f1, f2, o1, o2, o3, o4

C(op, f, v, x, o) == [op |-> op, fact |-> f, ver |-> v, value |-> x, opid |-> o]

(* Two versions of one fact, and o1 used again with another content. *)
VersionCommands ==
    {C("PUT", f1, 1, 7, o1), C("PUT", f1, 2, 8, o2), C("PUT", f1, 2, 9, o1)}

(* Against BaseFacts1 and BaseDedup1: every receipt the base can lead to. *)
BaseCommands ==
    {C("PUT", f1, 2, 7, o1), C("PUT", f1, 3, 7, o1),         \* retry, other content
     C("PUT", f1, 1, 7, o2), C("PUT", f1, 2, 7, o2),         \* stale, idempotent
     C("PUT", f1, 2, 8, o2), C("DELETE", f1, 3, Nil, o2),    \* conflict, applied
     C("PUT", f1, 4, 9, o2), C("PUT", f1, 4, 10, o2),        \* applied, beyond u8
     C("PUT", f1, 0, 7, o2), C("PUT", f2, 1, 7, o2),         \* not canonical, base abstains
     C("PUT", f1, 3, 7, o3), C("PUT", f1, 3, 7, o4),         \* expired, other generation
     C("PUT", f1, 11, 7, o2)}                                \* a version no u32 holds

(* Two puts are wider than a batch, a put and a delete fit; a version no u32 holds. *)
LiveCommands ==
    {C("PUT", f1, 1, 7, o1), C("DELETE", f1, 2, Nil, o2), C("PUT", f1, 11, 7, o1)}

NoBaseFacts == [f \in Facts |-> BaseAbsent]
NoBaseDedup == [o \in OpIds |-> [kind |-> "new"]]

BaseFacts1 == (f1 :> [ver |-> 2, op |-> "PUT", value |-> 7]) @@ (f2 :> BaseAbstain)
BaseDedup1 ==
    (o1 :> [kind |-> "entry", digest |-> [op |-> "PUT", fact |-> f1, ver |-> 2, value |-> 7],
            seq |-> 2])
    @@ (o2 :> [kind |-> "new"]) @@ (o3 :> [kind |-> "expired"]) @@ (o4 :> [kind |-> "abstain"])

Sym == Permutations(Requests)
=============================================================================

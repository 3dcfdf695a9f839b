-------------------------- MODULE MCHorizonMemory --------------------------
(* A small instance of HorizonMemory for TLC. *)
EXTENDS HorizonMemory, TLC

CONSTANTS f1

C(op, v, x, o) == [op |-> op, fact |-> f1, ver |-> v, value |-> x, opid |-> o]

(* A delete and a newer put.  In the other order the delete is stale; after the       *)
(* compaction its operation id is below the floor.                                       *)
DeletePut == {C("DELETE", 1, Nil, 1), C("PUT", 2, 1, 3)}

(* And a put whose version does not fit a u32: planning it ends the worker. *)
WithWide == DeletePut \cup {C("PUT", U32Max + 1, 1, 3)}

Symmetry == Permutations(Threads)
=============================================================================

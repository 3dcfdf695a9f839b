---------------------------- MODULE MCCompaction ----------------------------
(* Compaction on small sets; facts and clients are interchangeable. *)
EXTENDS Compaction, TLC

Symmetry == Permutations(Facts) \cup Permutations(Clients)
=============================================================================

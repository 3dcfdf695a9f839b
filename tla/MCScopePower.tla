--------------------------- MODULE MCScopePower ---------------------------
(* A small instance of ScopePower for TLC. *)
EXTENDS ScopePower, MCScopeRecovery
=============================================================================

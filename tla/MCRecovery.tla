---------------------------- MODULE MCRecovery ----------------------------
(* Small instances of Recovery for TLC. *)
EXTENDS Recovery, TLC

CONSTANTS f1, f2

\* The two browsers are interchangeable.
Swap == Permutations({f1, f2})
=============================================================================

---------------------------- MODULE MCTimesheet ----------------------------
(* Small instances of Timesheet for TLC. *)
EXTENDS Timesheet, TLC

\* Workers, and refreshers, are interchangeable.
Symmetry == Permutations(Workers) \cup Permutations(Refreshers)
=============================================================================

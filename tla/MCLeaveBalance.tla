--------------------------- MODULE MCLeaveBalance ---------------------------
(* Small instances of LeaveBalance for TLC. *)
EXTENDS LeaveBalance, TLC

\* A week of one working day, a day off and working days again.
WorkingDays == 1..Horizon \ {3}

\* Workers are interchangeable.
Symmetry == Permutations(Workers)
=============================================================================

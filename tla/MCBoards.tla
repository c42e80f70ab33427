------------------------------ MODULE MCBoards ------------------------------
EXTENDS Boards, TLC

CONSTANTS early, late

\* The week has the weekdays 1 to 5.  "late" runs into its weekend: two days for
\* the page, one for the server.
MCFirst == [l \in Leaves |-> IF l = early THEN 4 ELSE 5]
MCLast == [l \in Leaves |-> IF l = early THEN 4 ELSE 6]
MCWeekdays == 1..5
CallSymmetry == Permutations(Calls)
=============================================================================

---------------------------- MODULE MCWorkspace ----------------------------
(* Model checking instances of the timesheet pages. *)
EXTENDS Workspace, TLC

\* Five months, December to April of a common year, whose January starts on a Saturday.
MCFirst == <<1, 32, 63, 91, 122, 152>>
\* The days around the ends of the periods of January, February and March.
MCWorkdays == {47, 74, 76, 78, 79, 80, 81, 90, 105, 107, 112, 113}
MCTodays == {78, 79, 112}
MCAnchors == {81, 91}
MCSlots == Permutations(Slots)
=============================================================================

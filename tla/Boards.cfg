CONSTANTS
    Calls = {c1, c2}
    early = early
    late = late
    Leaves = {early, late}
    PaidLeaves = {early, late}
    First <- MCFirst
    Last <- MCLast
    Weekdays <- MCWeekdays
    Sheets = {sheet}
    Corrections = {correction}
    Total = 2
    MaxPapers = 2
    MaxDecisions = 2
    MaxBalance = 3
    None = None

SPECIFICATION Spec
SYMMETRY CallSymmetry
INVARIANTS
    ShownWasDecided
    RefusedOnlyIfStale

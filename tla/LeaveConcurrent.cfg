SPECIFICATION Spec
CONSTANTS
    Workers = {w1, w2}
    Types = {annual}
    PaidTypes = {annual}
    EditedTypes = {annual}
    Total = 2
    Weekdays <- WorkingDays
    YearEnd = 2
    Horizon = 3
    MaxApplications = 1
    MaxBalance = 4
SYMMETRY Symmetry
INVARIANTS
    NeverNegative
    CancelledAfterItsEnd

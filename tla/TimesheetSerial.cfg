SPECIFICATION Spec
CONSTANTS
    Workers = {w1}
    Refreshers = {r1}
    Reviewers = {manager}
    PeriodDays = 2
    WindowDays = 1
    Horizon = 2
    MaxEntries = 2
    MaxCorrections = 2
INVARIANTS
    SettledWhenLocked
    OneEntryPerDay
    PaidOnceInFull
PROPERTIES
    ImplementsSheetLife
    CheckOutKept

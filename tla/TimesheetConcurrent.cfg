SPECIFICATION Spec
CONSTANTS
    Workers = {w1, w2}
    Refreshers = {r1}
    Reviewers = {manager}
    PeriodDays = 2
    WindowDays = 1
    Horizon = 2
    MaxEntries = 1
    MaxCorrections = 1
SYMMETRY Symmetry
INVARIANTS
    FlagsAgree
    DecisionsStayTrue

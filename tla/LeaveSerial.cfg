SPECIFICATION FairSpec
CONSTANTS
    Workers = {w1}
    Types = {annual, unpaid}
    PaidTypes = {annual}
    EditedTypes = {}
    Total = 3
    Weekdays <- WorkingDays
    YearEnd = 2
    Horizon = 4
    MaxApplications = 2
    MaxBalance = 4
INVARIANTS
    BalanceAccounts
    PendingDisjoint
PROPERTY EndedIsDecided

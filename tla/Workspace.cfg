SPECIFICATION Spec
CONSTANTS
    LastMonth = 5
    First <- MCFirst
    Phase = 2
    Workdays <- MCWorkdays
    Todays <- MCTodays
    Anchors <- MCAnchors
    Pages = {"dashboard", "timesheet"}
    Slots = {s1, s2}
    Unknown = Unknown
    MaxOps = 2
    MaxFaults = 1
SYMMETRY MCSlots
INVARIANTS
    SettledViewIsRight
    DefaultViewSubmits
    TodayIsShown
    NeverAhead

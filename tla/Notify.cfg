SPECIFICATION Spec
CONSTANTS
    Notes = {n1, n2}
    Joined <- MCJoined
    Tabs = {t1}
    Slots = {s1, s2}
    Nothing = Nothing
    MaxFaults = 1
INVARIANTS
    NothingUnreal
PROPERTIES
    TabsSettle
    ImplementsInbox

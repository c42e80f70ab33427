\* One tab after the other or together, two sessions, three actions of people.
CONSTANTS
    t1 = t1
    t2 = t2
    Tabs = {t1, t2}
    Late = Late
    MaxTokens = 2
    MaxOps = 3
SPECIFICATION Spec
INVARIANTS
    SidesAgree
PROPERTIES
    SessionKept
    NothingHangs

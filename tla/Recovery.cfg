\* Two browsers, two codes, two new passwords, five requests, losses or crashes.
CONSTANTS
    f1 = f1
    f2 = f2
    Forms = {f1, f2}
    Late = Late
    MaxCodes = 2
    MaxWords = 2
    MaxOps = 5
SYMMETRY Swap
SPECIFICATION Spec
INVARIANTS
    FailedSendLeavesNothing
    SentCodeIsGood
    AnnouncedIsSet
PROPERTIES
    CodeWorksOnce
CHECK_DEADLOCK FALSE

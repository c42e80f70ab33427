CONSTANTS
    guest = "guest"
    Guest = "guest"
    Numbers <- MCNumbers
    Requests <- MCRequests
    Inherited <- MCInherited

SPECIFICATION SeedSpec
INVARIANTS
    
    DecisionsSurvive
    ReferencesHold

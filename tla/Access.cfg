SPECIFICATION AccessSpec
CONSTANTS
    hr = hr
    manager = manager
    employee = employee
    newcomer = newcomer
    personnel = personnel
    engineering = engineering
    Workers = {w1}
    Users = {hr, manager, employee, newcomer}
    Depts = {personnel, engineering}
    None = None
    SeededUsers <- Seed
    SeededSeats <- Seats
    SeededDepts = {personnel, engineering}
    MaxRequests = 2
    Sender = employee
INVARIANTS
    PagesServed
    GuardsFollowTheSeats
    OldTokensNeedASeat

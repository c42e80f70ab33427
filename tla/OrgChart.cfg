SPECIFICATION Spec
CONSTANTS
    hr = hr
    manager = manager
    employee = employee
    new1 = new1
    new2 = new2
    personnel = personnel
    engineering = engineering
    sales = sales
    Workers = {w1, w2}
    Users = {hr, manager, employee, new1, new2}
    Depts = {personnel, engineering, sales}
    None = None
    SeededUsers <- Seed
    SeededSeats <- Seats
    SeededDepts = {personnel, engineering}
    MaxRequests = 2
SYMMETRY Symmetry
INVARIANTS
    SeatsAgree
PROPERTIES
    ManagersStayPut
    IdleUpdateKeepsOrg
    DemotedWhenReplaced

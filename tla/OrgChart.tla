------------------------------ MODULE OrgChart ------------------------------
(***************************************************************************)
(* Who works where and who leads what: backend/src/user and                *)
(* backend/src/department.                                                 *)
(*                                                                         *)
(* Leadership is stored three times: the role of the user, the department  *)
(* of the user, and the managerID of the department (its seat).  Requests  *)
(* that change one must change the others.  updateUser serves the employee *)
(* form and also every login, refresh and logout, which send no role and   *)
(* no department: it then writes back those that it read at its start.     *)
(*                                                                         *)
(* A request is a worker that reads, opens a transaction whose reads are   *)
(* one step, and commits all its writes in another.                        *)
(***************************************************************************)
EXTENDS Naturals, Sequences

CONSTANTS
    Workers,       \* requests that may be in progress together
    Users,         \* people, those to be created included
    Depts,         \* departments, those to be created included
    None,          \* no department, nobody
    SeededUsers,   \* the row of each user after the first start
    SeededSeats,   \* the manager of each department after the first start
    SeededDepts,   \* the departments of the first start
    MaxRequests    \* BOUND: requests of administrators in a behaviour

Roles == {"employee", "manager", "admin"}
Place == [role: Roles \cup {"none"}, dept: Depts \cup {None}]
Absent == [role |-> "none", dept |-> None]
Post == [role: Roles, dept: Depts]

ASSUME NoneAssumption ==
    /\ None \notin Users \cup Depts
    /\ MaxRequests \in Nat

\* What the seed leaves: a department is led by somebody who works there and is
\* no employee, a manager leads the department that he or she works in, and who
\* is not there yet works nowhere.
ASSUME SeedAssumption ==
    /\ SeededUsers \in [Users -> Place]
    /\ SeededSeats \in [Depts -> Users \cup {None}]
    /\ SeededDepts \subseteq Depts
    /\ \A u \in Users : SeededUsers[u].dept \in SeededDepts \cup {None}
    /\ \A u \in Users : SeededUsers[u].role = "none" => SeededUsers[u] = Absent
    /\ \A d \in Depts \ SeededDepts : SeededSeats[d] = None
    /\ \A d \in Depts : SeededSeats[d] # None =>
         /\ SeededUsers[SeededSeats[d]].dept = d
         /\ SeededUsers[SeededSeats[d]].role \in {"manager", "admin"}
    /\ \A u \in Users : SeededUsers[u].role = "manager" =>
         /\ SeededUsers[u].dept # None
         /\ SeededSeats[SeededUsers[u].dept] = u

VARIABLES
    user,     \* role and department of each row of users
    seat,     \* managerID of each row of departments
    known,    \* the departments that exist
    job,      \* what each worker is doing and what it has read
    count,    \* requests so far
    drift,    \* history: a request the seats do not follow (see Strays)
    raced     \* history: two requests have overlapped

vars == <<user, seat, known, job, count, drift, raced>>

Job == [at: {"idle", "update", "update.write", "create", "import", "appoint"},
        op: {"sign", "edit", "create", "found", "appoint"},
        who: Users \cup {None}, to: Place, held: Depts \cup {None},
        seen: Users \cup {None}, rest: Seq(Users \X Post)]
Idle == [at |-> "idle", op |-> "sign", who |-> None, to |-> Absent, held |-> None,
         seen |-> None, rest |-> <<>>]

Exists(u) == user[u].role # "none"
Newcomers == {u \in Users : ~Exists(u)}
Leads(u) == {d \in Depts : seat[d] = u}
Busy == {w \in Workers : job[w].at # "idle"}

TypeOK ==
    /\ user \in [Users -> Place]
    /\ seat \in [Depts -> Users \cup {None}]
    /\ known \subseteq Depts
    /\ job \in [Workers -> Job]
    /\ count \in Nat
    /\ drift \in BOOLEAN
    /\ raced \in BOOLEAN

Init ==
    /\ user = SeededUsers
    /\ seat = SeededSeats
    /\ known = SeededDepts
    /\ job = [w \in Workers |-> Idle]
    /\ count = 0
    /\ drift = FALSE
    /\ raced = FALSE

-----------------------------------------------------------------------------
At(w, step) == job[w].at = step
Goto(w, next) == job' = [job EXCEPT ![w] = next]

\* An administrator's request arrives.
Overlap == raced' = (raced \/ Busy # {})
Arrive(strays) ==
    /\ count < MaxRequests
    /\ count' = count + 1
    /\ drift' = (drift \/ strays)
    /\ Overlap

\* The end of a request, or the next row of an imported file.
Finish(w) ==
    Goto(w, IF job[w].rest = <<>> THEN Idle ELSE [Idle EXCEPT !.at = "import", !.rest = job[w].rest])

\* A refusal, an exception, a rolled back transaction or a crash.
Abort(w) ==
    /\ ~At(w, "idle")
    /\ Goto(w, Idle)
    /\ UNCHANGED <<user, seat, known, count, drift, raced>>

-----------------------------------------------------------------------------
(* handleManagerTransfer *)

\* The new manager must not be the manager of another department.
FreeMutant(u, d) == TRUE
Free(u, d) == user[u].role = "manager" => user[u].dept = d

\* The old manager becomes an employee and the new one the manager of d.
TransferDemotesAll(users, d, old, new) ==
    [u \in Users |->
        IF u = new THEN [role |-> "manager", dept |-> d]
        ELSE IF users[u].dept = d THEN [users[u] EXCEPT !.role = "employee"]
        ELSE users[u]]
Transfer(users, d, old, new) ==
    [u \in Users |->
        IF u = new THEN [role |-> "manager", dept |-> d]
        ELSE IF u = old THEN [users[u] EXCEPT !.role = "employee"]
        ELSE users[u]]
-----------------------------------------------------------------------------
(* updateUser *)

\* The employee form sends role and department.  It strays from the seats when
\* it makes somebody the manager of a department that he or she does not lead,
\* or moves an administrator away from the department that he or she leads.
Strays(u, to) ==
    \/ to.role = "manager" /\ u # seat[to.dept]
    \/ to.role = "admin" /\ Leads(u) \ {to.dept} # {}

\* The form requires both; what it calls "hr" is the role "admin".
BackendRole(role) == IF role = "hr" THEN "admin" ELSE role
FormValue(role, d) == [role |-> BackendRole(role), dept |-> d]

Edit(w) ==
    /\ At(w, "idle")
    /\ \E u \in Users, role \in {"employee", "manager", "hr"}, d \in known :
         LET to == FormValue(role, d)
         IN /\ Exists(u)
            /\ Arrive(Strays(u, to))
            /\ Goto(w, [Idle EXCEPT !.at = "update", !.op = "edit", !.who = u, !.to = to])
    /\ UNCHANGED <<user, seat, known>>

\* A login, refresh or logout: the row that is read is the row to write.
Sign(w) ==
    /\ At(w, "idle")
    /\ \E u \in Users :
         /\ Exists(u)
         /\ Goto(w, [Idle EXCEPT !.at = "update", !.op = "sign", !.who = u, !.to = user[u]])
    /\ Overlap
    /\ UNCHANGED <<user, seat, known, count, drift>>

\* The transaction finds a department that the user leads (any, if there are
\* several), the manager of the target department and the user's row.
UpdateBegin(w) ==
    LET u == job[w].who  to == job[w].to
    IN /\ At(w, "update")
       /\ to.role = "manager" => to.dept # None /\ Free(u, to.dept)
       /\ \E held \in IF Leads(u) = {} THEN {None} ELSE Leads(u) :
            Goto(w, [job[w] EXCEPT !.at = "update.write", !.held = held,
                       !.seen = IF to.role = "manager" THEN seat[to.dept] ELSE None])
       /\ UNCHANGED <<user, seat, known, count, drift, raced>>

\* An employee leaves the seat, a manager leaves another seat.
VacatesMutant(to, held) == held # None /\ to.role \in {"employee", "manager"}
Vacates(to, held) ==
    /\ held # None
    /\ to.role = "employee" \/ (to.role = "manager" /\ held # to.dept)

UpdateWrite(w) ==
    LET u == job[w].who  to == job[w].to  held == job[w].held
    IN /\ At(w, "update.write")
       /\ to.dept \in known \cup {None}
       /\ Vacates(to, held) => held \in known
       /\ seat' = IF Vacates(to, held) THEN [seat EXCEPT ![held] = None] ELSE seat
       /\ user' = IF to.role = "manager" THEN Transfer(user, to.dept, job[w].seen, u)
                                         ELSE [user EXCEPT ![u] = to]
       /\ Finish(w)
       /\ UNCHANGED <<known, count, drift, raced>>

-----------------------------------------------------------------------------
(* createUser and importEmployeesFromExcel *)

\* Whether the names are taken, the department and its manager are read first,
\* and the transaction opens after the password has been hashed.  A manager is
\* refused if no department is sent, but not if its name is sent empty or null:
\* nobody but such a creation makes a manager without a department.
Create(w) ==
    /\ At(w, "idle")
    /\ \E u \in Users, role \in Roles, d \in known \cup {None} :
         /\ ~Exists(u)
         /\ Arrive(FALSE)
         /\ Goto(w, [Idle EXCEPT !.at = "create", !.op = "create", !.who = u,
                                 !.to = [role |-> role, dept |-> d],
                                 !.seen = IF d = None THEN None ELSE seat[d]])
    /\ UNCHANGED <<user, seat, known>>

\* A row names somebody new, whom no other row names, and a known department.  All
\* rows are checked, and those that fail are left out, before the first is created.
Valid(rows) ==
    /\ \A i \in DOMAIN rows : rows[i][1] \in Newcomers /\ rows[i][2].dept \in known
    /\ \A i, j \in DOMAIN rows : i # j => rows[i][1] # rows[j][1]

\* A file of two rows that pass.
Import(w) ==
    /\ At(w, "idle")
    /\ \E u, v \in Newcomers, ru, rv \in Roles, du, dv \in known :
         LET rows == <<<<u, [role |-> ru, dept |-> du]>>, <<v, [role |-> rv, dept |-> dv]>>>>
         IN /\ Valid(rows)
            /\ Arrive(FALSE)
            /\ Goto(w, [Idle EXCEPT !.at = "import", !.rest = rows])
    /\ UNCHANGED <<user, seat, known>>

\* createUser for the next row, unless the name is taken or the department gone.
ImportRow(w) ==
    LET u == Head(job[w].rest)[1]  to == Head(job[w].rest)[2]  rest == Tail(job[w].rest)
    IN /\ At(w, "import")
       /\ IF ~Exists(u) /\ to.dept \in known
          THEN Goto(w, [Idle EXCEPT !.at = "create", !.op = "create", !.who = u, !.to = to,
                                    !.seen = seat[to.dept], !.rest = rest])
          ELSE Goto(w, IF rest = <<>> THEN Idle ELSE [job[w] EXCEPT !.rest = rest])
       /\ UNCHANGED <<user, seat, known, count, drift, raced>>

\* Fails when the name was taken or the department deleted since.
CreateWriteMutant(w) ==
    LET u == job[w].who  to == job[w].to
    IN /\ At(w, "create")
       /\ user' = IF to.role = "manager" /\ to.dept # None THEN Transfer(user, to.dept, job[w].seen, u)
                                         ELSE [user EXCEPT ![u] = to]
       /\ Finish(w)
       /\ UNCHANGED <<seat, known, count, drift, raced>>
CreateWrite(w) ==
    LET u == job[w].who  to == job[w].to
        fails == Exists(u) \/ to.dept \notin known \cup {None}
        leads == to.role = "manager" /\ to.dept # None
    IN /\ At(w, "create")
       /\ IF fails THEN UNCHANGED <<user, seat>>
          ELSE /\ user' = IF leads THEN Transfer(user, to.dept, job[w].seen, u)
                                   ELSE [user EXCEPT ![u] = to]
               /\ seat' = IF leads THEN [seat EXCEPT ![to.dept] = u] ELSE seat
       /\ Finish(w)
       /\ UNCHANGED <<known, count, drift, raced>>

-----------------------------------------------------------------------------
(* createDepartment, updateDepartment and deleteDepartment *)

\* Who may lead a new department, and who may be put in charge of an old one.
Founds(d, m) == d \notin known /\ (m # None => Exists(m) /\ user[m].role # "manager")
Takes(d, m) == d \in known /\ (m # None => Exists(m) /\ Free(m, d))

\* The department gets a manager, or none.  It strays when the person, an
\* administrator then, leads another department.
Appoint(w) ==
    /\ At(w, "idle")
    /\ \E d \in Depts, m \in Users \cup {None} :
         /\ Founds(d, m) \/ Takes(d, m)
         /\ Arrive(m # None /\ Leads(m) \ {d} # {})
         /\ Goto(w, [Idle EXCEPT !.at = "appoint", !.who = m, !.held = d, !.seen = seat[d],
                                 !.op = IF d \in known THEN "appoint" ELSE "found"])
    /\ UNCHANGED <<user, seat, known>>

\* A department that was to be created still does not exist, one that was to be
\* changed still does.  Nobody moves when the manager is the one it had.
AppointWrite(w) ==
    LET m == job[w].who  d == job[w].held
    IN /\ At(w, "appoint")
       /\ d \in known <=> job[w].op = "appoint"
       /\ known' = known \cup {d}
       /\ seat' = [seat EXCEPT ![d] = m]
       /\ user' = IF m = job[w].seen THEN user ELSE Transfer(user, d, job[w].seen, m)
       /\ Finish(w)
       /\ UNCHANGED <<count, drift, raced>>

\* A foreign key keeps a department while somebody works in it.
DeleteDepartment ==
    \E d \in known :
        /\ \A u \in Users : user[u].dept # d
        /\ Arrive(FALSE)
        /\ known' = known \ {d}
        /\ seat' = [seat EXCEPT ![d] = None]
        /\ UNCHANGED <<user, job>>

-----------------------------------------------------------------------------
(* Who manages whom *)

\* The access guard asks the role of the one who asks.
IsManager(m) == user[m].role = "manager"

\* getManagerIdOfUserID, behind notifications and the review guard: by seat.
ManagerOf(u) == IF user[u].dept = None THEN None ELSE seat[user[u].dept]

-----------------------------------------------------------------------------
Work(w) ==
    \/ Abort(w)
    \/ Edit(w) \/ Sign(w) \/ UpdateBegin(w) \/ UpdateWrite(w)
    \/ Create(w) \/ CreateWrite(w) \/ Import(w) \/ ImportRow(w)
    \/ Appoint(w) \/ AppointWrite(w)

Next == DeleteDepartment \/ \E w \in Workers : Work(w)

Spec == Init /\ [][Next]_vars

-----------------------------------------------------------------------------
(* Properties *)

\* Nobody works in a department that does not exist, whatever requests overlap
\* with deletions, transfers and logins.
PlacesExist == \A u \in Users : user[u].dept \in known \cup {None}

\* The three records of leadership agree: who holds a seat works in that
\* department and is no employee, and a manager with a department holds its seat.
\* Guards ask the role and the department, notifications and the review of a month
\* ask the seat.  A manager created without a department holds none, and none comes
\* to him or her by a login or a transfer.
Agree ==
    /\ \A d \in Depts : seat[d] # None =>
         /\ user[seat[d]].dept = d
         /\ user[seat[d]].role \in {"manager", "admin"}
    /\ \A u \in Users : user[u].role = "manager" /\ user[u].dept # None =>
         seat[user[u].dept] = u
SeatsAgree == drift \/ raced \/ Agree

\* Whom the employee form makes a manager gets the seat.  It does not hold: the
\* old manager is demoted but keeps the seat.
EditGivesTheSeat ==
    [][\A w \in Workers :
         ~raced /\ At(w, "update.write") /\ job[w].op = "edit" /\ job[w].to.role = "manager"
           /\ user' # user =>
             seat'[job[w].to.dept] = job[w].who]_vars

\* A manager is never moved to another department while remaining a manager:
\* the conflict of handleManagerTransfer stands behind every way to do it.
ManagersStayPut ==
    [][raced' \/ \A u \in Users :
         user[u].role = "manager" /\ user'[u].role = "manager" =>
             user'[u].dept = user[u].dept]_vars

\* An update that says what is stored (every login, refresh and logout, and a
\* form saved as it was loaded) changes neither people nor seats.
IdleUpdateKeepsOrg ==
    [][\A w \in Workers :
         \/ drift \/ raced'
         \/ ~At(w, "update.write") \/ job[w].to # user[job[w].who]
         \/ UNCHANGED <<user, seat>>]_vars

\* Nobody becomes an employee but by an edit of his or her own row or by losing a
\* seat, to a successor or to nobody.  Requests that overlap are left out (raced);
\* and where the seats have stopped following (drift), whoever holds the seat keeps
\* it and is demoted all the same, but for somebody who becomes the manager there.
DemotedWhenReplaced ==
    [][raced' \/ \A u \in Users :
         user[u].role \in {"manager", "admin"} /\ user'[u].role = "employee" =>
             \/ \E w \in Workers : job[w].op = "edit" /\ job[w].who = u
             \/ \E d \in Leads(u) :
                  \/ seat'[d] # u
                  \/ drift /\ \E v \in Users \ {u} :
                              user'[v] = [role |-> "manager", dept |-> d]]_vars
=============================================================================

------------------------------- MODULE Access -------------------------------
(***************************************************************************)
(* Who may ask for what: the guards and the permissions that the           *)
(* controllers state, the requests that the pages of each role send, and   *)
(* whom the guards and the handlers of the reviews take for the reviewer.  *)
(*                                                                         *)
(* The access token carries the role and the department that its owner had *)
(* when it was signed.  The guards believe the token in part and the       *)
(* database in part, so they mix two moments.  OrgChart supplies the       *)
(* database, with every request that changes it: a token is signed by the  *)
(* same login or refresh whose update OrgChart describes.                  *)
(*                                                                         *)
(* A route stands for one handler of a controller, with its permissions    *)
(* and what its path names: a user, a department or nothing (None).        *)
(***************************************************************************)
EXTENDS OrgChart

CONSTANTS
    Sender       \* an employee with a paper to be reviewed

ASSUME SenderAssumption == Sender \in Users /\ SeededUsers[Sender].role = "employee"

Papers == {"timesheet", "leave", "correction"}

VARIABLE
    token        \* what the access token of each user claims; Absent without one

allVars == <<vars, token>>

AccessTypeOK == token \in [Users -> Place]

AccessInit == Init /\ token = [u \in Users |-> Absent]

-----------------------------------------------------------------------------
(* The permissions of the controllers *)

UserReads ==
    {"users"} \X {"admin"}
      \cup {"user"} \X {"admin", "manager", "me"}
      \cup {"users of department"} \X {"admin", "managerOfDepartment"}
UserWrites == {"create user", "update user"} \X {"admin"}
UserImport == {"import users"} \X {"admin"}
UserStatus == {"activate user", "deactivate user"} \X {"admin"}
DepartmentReads ==
    {"departments"} \X {"admin"} \cup {"department"} \X {"admin", "managerOfDepartment"}
DepartmentWrites == {"write department", "department by name"} \X {"admin"}
RoleRoutes == {"roles", "write role"} \X {"admin"}
RoleRemoval == {"remove role", "role by name"} \X {"admin"}
LeaveTypeRoutesMutant == {"leave types", "write leave type"} \X {"manager", "admin"}
LeaveTypeRoutes ==
    {"leave types"} \X {"me", "manager", "admin"}
      \cup {"write leave type"} \X {"admin"}
PayrollRoutes ==
    {"payroll", "generate payroll"} \X {"admin"}
      \cup {"payroll of user"} \X {"me"}
      \cup {"payroll of department"} \X {"managerOfDepartment", "admin"}
SheetReads ==
    {"sheet"} \X {"me", "manager", "admin"}
      \cup {"review list"} \X {"manager"}
      \cup {"report"} \X {"manager", "admin"}
      \cup {"export sheet"} \X {"me"}
SheetExports == {"export of department"} \X {"managerOfDepartment", "admin"}
SheetWrites == {"create sheet", "submit sheet"} \X {"me"}
AttendanceRoutes ==
    {"check in", "check out"} \X {"me"}
      \cup {"attendance"} \X {"me", "manager", "admin"}
      \cup {"not checked out"} \X {"admin"}
LeaveRoutes ==
    {"request leave", "my leaves"} \X {"me"}
      \cup {"leave balance"} \X {"me", "manager", "admin"}
      \cup {"leaves of department"} \X {"managerOfDepartment"}
      \cup {"leaves"} \X {"admin"}
      \cup {"review leave"} \X {"manager"}
CorrectionRoutes ==
    {"request correction", "my corrections"} \X {"me"}
      \cup {"corrections of department"} \X {"managerOfDepartment", "admin"}
      \cup {"review correction"} \X {"manager", "admin"}
LogRoutes == {"system log", "mark log"} \X {"admin"}
WarningRoutes == {"send warning"} \X {"admin"}

Permissions ==
    UNION {UserReads, UserWrites, UserImport, UserStatus, DepartmentReads, DepartmentWrites,
           RoleRoutes, RoleRemoval, LeaveTypeRoutes, PayrollRoutes, SheetReads, SheetExports,
           SheetWrites, AttendanceRoutes, LeaveRoutes, CorrectionRoutes, LogRoutes, WarningRoutes}

-----------------------------------------------------------------------------
(* The guards.  The token is asked for the role of administrators and for   *)
(* the department, the database for the role of managers.                   *)

SignedIn(u) == token[u] # Absent

CheckAuthIsAdmin(u) == token[u].role = "admin"
IsMe(u, target) == target = u
CheckAuthIsMyManagerMutant(u, target) == IsManager(u)
CheckAuthIsMyManager(u, target) ==
    IsManager(u) /\ Exists(target) /\ user[target].dept = token[u].dept
CheckAuthIsManagerOfDepartmentMutant(u, d) == token[u].role = "manager" /\ token[u].dept = d
CheckAuthIsManagerOfDepartment(u, d) == IsManager(u) /\ token[u].dept = d

Grants(permission, u, target) ==
    \/ permission = "admin" /\ CheckAuthIsAdmin(u)
    \/ permission = "me" /\ (target = None \/ IsMe(u, target))
    \/ permission = "manager" /\ IF target \in Users THEN CheckAuthIsMyManager(u, target)
                                                     ELSE IsManager(u)
    \/ permission = "managerOfDepartment" /\ CheckAuthIsManagerOfDepartment(u, target)

CanActivate(u, route, target) ==
    /\ SignedIn(u)
    /\ \E p \in Permissions : p[1] = route /\ Grants(p[2], u, target)

\* Reviewing a month goes by the seat, whatever the token claims.
ReviewAuthGuard(u) == SignedIn(u) /\ ManagerOf(Sender) = u

-----------------------------------------------------------------------------
(* Whose papers the lists of a manager's page hold *)

\* The lists of a department: its staff, their leaves, their requests for correction.
StaffOf(d) == {u \in Users : Exists(u) /\ user[u].dept = d}
LeavesOf(d) == {u \in Users : user[u].dept = d}
CorrectionsOf(d) == {u \in Users : user[u].dept = d}

\* The months to be reviewed are those of the departments whose seat is m's.
ReviewListOf(m) == {u \in Users : ManagerOf(u) = m}

\* The report is for every department, or for the one that the token claims, else
\* that of the database, when no administrator asks for it.
ReportDepartment(u) == IF token[u].dept # None THEN token[u].dept ELSE user[u].dept
ReportOf(u) ==
    {v \in Users : /\ Exists(v)
                   /\ \/ token[u].role = "admin"
                      \/ ReportDepartment(u) # None /\ user[v].dept = ReportDepartment(u)}

\* The page asks for the department of its session.
TeamLists(m) ==
    LET d == token[m].dept
    IN {StaffOf(d), LeavesOf(d), CorrectionsOf(d), ReviewListOf(m), ReportOf(m)}

-----------------------------------------------------------------------------
(* Reviews: a guard lets them in, the transaction of the handler asks again *)

\* The permissions of the review routes: for months "manager" has a guard of
\* its own.
PassesGuard(u, kind) ==
    CASE kind = "timesheet"  -> ReviewAuthGuard(u)
      [] kind = "leave"      -> CanActivate(u, "review leave", None)
      [] kind = "correction" -> CanActivate(u, "review correction", None)

MayReviewLeave(u) == ManagerOf(Sender) = u
CanReviewRequest(u) == user[u].role = "admin" \/ ManagerOf(Sender) = u
PassesHandler(u, kind) ==
    CASE kind = "timesheet"  -> TRUE
      [] kind = "leave"      -> MayReviewLeave(u)
      [] kind = "correction" -> CanReviewRequest(u)

MayDecide(u, kind) == PassesGuard(u, kind) /\ PassesHandler(u, kind)

-----------------------------------------------------------------------------
(* Tokens *)

\* The update that ends a login or a refresh hands out the token, which claims
\* what was read at its start.  One that ends a logout takes the token away.
Signs(w) == At(w, "update.write") /\ job[w].op = "sign"
HandOut(w) ==
    token' \in {[token EXCEPT ![job[w].who] = c] : c \in {job[w].to, Absent}}

SignDone(w) == Signs(w) /\ UpdateWrite(w) /\ HandOut(w)

\* The login through Google or Microsoft and the logout do not look whether the
\* update was refused or failed.
SignFails(w) ==
    /\ job[w].op = "sign" /\ job[w].at \in {"update", "update.write"}
    /\ Abort(w)
    /\ HandOut(w) \/ UNCHANGED token

\* A token expires a quarter of an hour after it was signed.
Expire(u) ==
    /\ SignedIn(u)
    /\ token' = [token EXCEPT ![u] = Absent]
    /\ UNCHANGED vars

OtherOrgStep ==
    /\ DeleteDepartment \/ \E w \in Workers : ~Signs(w) /\ Work(w)
    /\ UNCHANGED token

AccessNext ==
    \/ OtherOrgStep
    \/ \E w \in Workers : SignDone(w) \/ SignFails(w)
    \/ \E u \in Users : Expire(u)

AccessSpec == AccessInit /\ [][AccessNext]_allVars

-----------------------------------------------------------------------------
(* What the pages send, as pairs of a route and what its path names.  The    *)
(* router shows the pages of one role only, the role of the session.         *)

\* Every page asks for the profile of the one who is signed in.  (The employee's
\* also asks for that of the manager, is refused and shows none.)
ProfileRequests(u) == {<<"user", u>>}
AttendanceRequests(u) == {"check in", "check out", "attendance"} \X {u}
SheetRequests(u) == {"sheet", "create sheet", "submit sheet"} \X {u}
LeaveRequests(u) ==
    {"request leave", "my leaves", "leave balance"} \X {u} \cup {<<"leave types", None>>}
CorrectionRequests(u) == {"request correction", "my corrections"} \X {u}

\* The manager's page asks for the department that the session names, which is
\* that of the token.
TeamRequests(u) ==
    {"users of department", "leaves of department", "corrections of department"} \X {token[u].dept}
ReviewLists == {"review list", "report"} \X {None}

HrLoads == {"users", "departments", "leave types", "leaves"} \X {None}
HrUserWrites(t) == {<<"create user", None>>, <<"update user", t>>}
HrUserActions(t) == {<<"import users", None>>} \cup {"activate user", "deactivate user"} \X {t}
HrLeaveTypes == {"leave types", "write leave type"} \X {None}
HrPayroll == {<<"payroll", None>>}
HrReport == {<<"report", None>>}
HrLogs == {"system log", "mark log"} \X {None}

Sent(u) ==
    ProfileRequests(u) \cup
    CASE token[u].role = "employee" ->
           AttendanceRequests(u) \cup SheetRequests(u) \cup LeaveRequests(u)
             \cup CorrectionRequests(u)
      [] token[u].role = "manager" -> TeamRequests(u) \cup ReviewLists
      [] token[u].role = "admin" ->
           HrLoads \cup HrLeaveTypes \cup HrPayroll \cup HrReport \cup HrLogs
             \cup (UNION {HrUserWrites(t) \cup HrUserActions(t) : t \in Users})

-----------------------------------------------------------------------------
(* Properties *)

\* The token of u claims what is stored.
Fresh(u) == SignedIn(u) /\ token[u] = user[u]

\* A manager of no department: created with an empty name, and signed in through
\* Google or Microsoft, as the other login is refused.
Unplaced(u) == user[u].role = "manager" /\ user[u].dept = None

\* Nothing that a page sends on its own or at a click is refused to somebody
\* whose token is fresh, but to a manager of no department: the permissions of
\* twelve controllers, the guards and the pages of three roles fit together.
PagesServed ==
    \A u \in Users : Fresh(u) /\ ~Unplaced(u) =>
        /\ \A r \in Sent(u) : CanActivate(u, r[1], r[2])
        /\ token[u].role = "manager" => ReportDepartment(u) # None

\* The guards and the lists mean one person.  A fresh token of somebody who is no
\* administrator, and no manager of no department, opens the lists of a department,
\* the rows of a colleague and the three kinds of review just when he or she holds
\* the seat, although each is asked in another way; and the five lists on that page
\* hold the papers of the same people, those whom he or she may decide about.
GuardsFollowTheSeats ==
    drift \/ raced \/ \A m \in Users : Fresh(m) /\ user[m].role # "admin" /\ ~Unplaced(m) =>
        /\ \A d \in Depts :
             CanActivate(m, "leaves of department", d) <=> seat[d] = m
        /\ \A u \in Users \ {m} : Exists(u) =>
             (CanActivate(m, "user", u) <=> ManagerOf(u) = m)
        /\ \A kind \in Papers : MayDecide(m, kind) <=> ManagerOf(Sender) = m
        /\ user[m].role = "manager" => TeamLists(m) = {{u \in Users : ManagerOf(u) = m}}

\* What a token opens beyond its owner's own papers.
OpensOthers(m) ==
    \/ \E d \in Depts : CanActivate(m, "leaves of department", d)
    \/ \E u \in Users \ {m} : CanActivate(m, "user", u)
    \/ \E kind \in Papers : PassesGuard(m, kind)

\* However old a token, and whatever it claims, it opens the papers of others only
\* to administrators and to those who hold a seat now: who was replaced as a manager
\* loses the lists, the colleagues and the reviews at once, not when the token
\* expires.  (Which department the token still names is another matter, and so is
\* the claim to be an administrator, which the guards believe.)
OldTokensNeedASeat ==
    drift \/ raced \/ \A m \in Users :
        SignedIn(m) /\ token[m].role # "admin" /\ ~Unplaced(m) /\ OpensOthers(m) =>
            Leads(m) # {}

\* The leave of an employee can be decided by whoever leads the department, once
\* he or she has signed in anew.  It does not hold: the guard of the route asks
\* for the role "manager", which an administrator who holds a seat, as the one
\* of the seed does, has not.
LeaveHasAReviewer ==
    LET m == ManagerOf(Sender)
    IN user[Sender].role = "employee" /\ m # None =>
         drift \/ raced \/ ~Fresh(m) \/ MayDecide(m, "leave")
=============================================================================

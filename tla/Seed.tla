-------------------------------- MODULE Seed --------------------------------
(***************************************************************************)
(* What fills the database: the server when it starts on an empty one, and *)
(* the command "npm run seed" whenever someone runs it.                    *)
(*                                                                         *)
(* Both run the same transaction, which looks for each row before it       *)
(* writes it, renames what older versions called otherwise and removes     *)
(* what they left behind.  Here it is a function from what the database    *)
(* holds to what it holds afterwards, one operator per helper of           *)
(* SeedService, composed in the order of seedDemoData - to one of several, *)
(* where it takes the first of the rows it finds in no order.  Around it   *)
(* servers start and stop, and people use what was seeded.  The month      *)
(* stands still: a new one has sheets, payrolls and leave of its own.      *)
(***************************************************************************)
EXTENDS Integers, FiniteSets

CONSTANTS
    Guest,      \* someone who is not in the seed
    Numbers,    \* BOUND: what identifies an application
    Requests,   \* BOUND: the applications that people make: who, type, from
    Inherited   \* BOUND: what older versions may have left in the database

Demo == {"hrAdmin", "managerKt", "employee1", "employee2", "employeeOT",
         "employeeRejected", "employeePending"}
LegacyAdmin == "admin@gmail.com"
Users == Demo \cup {Guest, LegacyAdmin}

Nobody == "nobody"

ASSUME GuestAssumption == Guest \notin Demo \cup {LegacyAdmin, Nobody}

RoleNames == {"admin", "manager", "employee"}
LegacyRole == "emloyee"
NoneRole == "none Role"
OtherRole == "staff"
Departments == {"engineering", "hr", "sales"}
LeaveTypes == {"annual", "unpaid", "sick", "wedding"}
Paid == LeaveTypes \ {"unpaid"}

\* A name is today's, or the garbled one of an older version.
Today(key) == <<key, "today">>
Garbled(key) == <<key, "garbled">>
Names(keys) == {Today(k) : k \in keys} \cup {Garbled(k) : k \in keys}

\* A leave type: its name, its code ("other": none of the seed's) and a
\* number, for names are not unique.
TypeRow == [name: Names(LeaveTypes \cup {"custom"}), code: LeaveTypes \cup {"other"}, copy: 0..1]

\* A person: role, department and remaining days; NoOne without a row.
\* Nobody has the role "none Role" that older versions made.
NoOne == [role |-> "none", dept |-> Today("none"), remain |-> 0]
Person == [role: RoleNames \cup {LegacyRole, OtherRole, "none"},
           dept: Names(Departments) \cup {Today("none")}, remain: Int]
NoSheet == [status |-> "NONE", approver |-> Nobody]
Sheet == [status: {"NONE", "DRAFT", "SUBMITTED", "APPROVED", "REJECTED"},
          approver: Users \cup {Nobody}]
AnnualDays == 12

\* Leave of this month: its first day, and its length.
Starts == {5, 12, 20}
Length(from) == IF from = 12 THEN 2 ELSE 1

ASSUME NumbersAssumption == Numbers \subseteq Nat
ASSUME RequestsAssumption == Requests \subseteq Users \X (LeaveTypes \cup {"custom"}) \X Starts

VARIABLES
    db,         \* what the database holds
    server,     \* "off", "empty" (about to seed), "up"
    heard,      \* history: what people last heard about each application
    reseeded    \* history: the command was run on a database in use

seedVars == <<db, server, heard, reseeded>>

Empty == [roles |-> {}, departments |-> {}, types |-> {}, seat |-> [d \in Departments |-> Nobody],
          users |-> [u \in Users |-> NoOne], oldName |-> TRUE,
          sheets |-> [u \in Users |-> NoSheet], leaves |-> {}, payrolls |-> [u \in Users |-> 0],
          notes |-> {}, warnings |-> {}, corrections |-> {}]

LeaveRow == [no: Numbers, who: Users, type: TypeRow, from: Starts,
             status: {"PENDING", "APPROVED", "REJECTED"}, reviewer: Users \cup {Nobody}]

\* A notification: who sent it, to whom, and what about.
NoteRow == (Users \cup {Nobody}) \X Users
              \X {"sheet", "leave", "warning", "correction", "request", "review"}

\* seat: who manages a department; oldName: the old administrator still has
\* the name he was given; payrolls: how many; warnings: to whom;
\* corrections: of whom and reviewed by whom.
Database == [roles: SUBSET (RoleNames \cup {LegacyRole, NoneRole, OtherRole}),
             departments: SUBSET Names(Departments), types: SUBSET TypeRow,
             seat: [Departments -> Users \cup {Nobody}], users: [Users -> Person], oldName: BOOLEAN,
             sheets: [Users -> Sheet], leaves: SUBSET LeaveRow, payrolls: [Users -> Nat],
             notes: SUBSET NoteRow, warnings: SUBSET Users, corrections: SUBSET (Users \X Users)]

Exists(d, u) == d.users[u] # NoOne

\* Whom the rows of the database name, they name among those who have a row,
\* and so with roles, departments and leave types: foreign keys.
Named(d) ==
    {d.seat[k] : k \in Departments} \cup {d.sheets[u].approver : u \in Users}
    \cup {u \in Users : d.sheets[u] # NoSheet \/ d.payrolls[u] > 0}
    \cup {l.who : l \in d.leaves} \cup {l.reviewer : l \in d.leaves}
    \cup {n[1] : n \in d.notes} \cup {n[2] : n \in d.notes} \cup d.warnings
    \cup {c[1] : c \in d.corrections} \cup {c[2] : c \in d.corrections}
Refers(d) ==
    /\ \A u \in Users : Exists(d, u) => d.users[u].role \in d.roles
                                         /\ d.users[u].dept \in d.departments
    /\ \A u \in Named(d) \ {Nobody} : Exists(d, u)
    /\ \A l \in d.leaves : l.type \in d.types

\* A balance is what a year has, less the days of leave that are charged.
IsPaid(t) == t.name \in Names(Paid \cup {"custom"})
Charged(d, u) == {p \in d.leaves \X (1..2) : /\ p[1].who = u /\ p[1].status = "APPROVED"
                                             /\ IsPaid(p[1].type) /\ p[2] <= Length(p[1].from)}
Balanced(d) ==
    /\ IsFiniteSet(d.leaves)
    /\ \A u \in Users : Exists(d, u) => d.users[u].remain + Cardinality(Charged(d, u)) = AnnualDays
Numbered(d) == \A l, m \in d.leaves : l.no = m.no => l = m

ASSUME InheritedAssumption ==
    \A d \in Inherited : d \in Database /\ Refers(d) /\ Balanced(d) /\ Numbered(d)

SeedTypeOK ==
    /\ db \in Database
    /\ server \in {"off", "empty", "up"}
    /\ heard \in [Numbers -> {"nothing", "PENDING", "APPROVED", "REJECTED"}]
    /\ reseeded \in BOOLEAN

SeedInit ==
    /\ db \in {Empty} \cup Inherited
    /\ server = "off"
    /\ heard = [n \in Numbers |-> "nothing"]
    /\ reseeded = FALSE

-----------------------------------------------------------------------------
(* The transaction *)

\* isDatabaseEmpty looks at three tables.
IsEmptyMutant(d) == ~Exists(d, "hrAdmin")
IsEmpty(d) == d.roles = {} /\ d.departments = {} /\ d.users = Empty.users

SeedRoles(d) == [d EXCEPT !.roles = @ \cup RoleNames]

SeedDepartments(d) == [d EXCEPT !.departments = @ \cup {Today(k) : k \in Departments}]

\* The first row of that name is given its code, or a row is made.
Canonical(types, key) ==
    LET named == {t \in types : t.name = Today(key)}
    IN IF named = {} THEN [name |-> Today(key), code |-> key, copy |-> 0]
       ELSE CHOOSE t \in named : \A s \in named : t.copy <= s.copy
Coded(t, key) == [t EXCEPT !.code = key]
\* The code is unique: where another row has it the transaction fails.
Seedable(d) ==
    \A key \in LeaveTypes, t \in d.types : t.code = key => t = Canonical(d.types, key)
\* An application names the row of its type, whatever becomes of the row.
Key(t) == t.name[1]
Coding(types, t) == IF \E key \in LeaveTypes : t = Canonical(types, key) THEN Coded(t, Key(t)) ELSE t
SeedLeaveTypes(d) ==
    [d EXCEPT !.types = {Coding(d.types, t) : t \in d.types \cup {Canonical(d.types, k) : k \in LeaveTypes}},
              !.leaves = {[l EXCEPT !.type = Coding(d.types, l.type)] : l \in d.leaves}]

MergeLegacyDepartments(d) ==
    [d EXCEPT !.users = [u \in Users |->
                 IF \E k \in Departments : @[u].dept = Garbled(k)
                 THEN [@[u] EXCEPT !.dept = Today((CHOOSE k \in Departments : d.users[u].dept = Garbled(k)))]
                 ELSE @[u]],
              !.departments = @ \ {Garbled(k) : k \in Departments}]

\* Every row of an old name, and every second row, gives way to the one.
Merging(types, t) == IF Key(t) \in LeaveTypes THEN Coded(Canonical(types, Key(t)), Key(t)) ELSE t
MergeLegacyLeaveTypes(d) ==
    [d EXCEPT !.types = {Merging(d.types, t) : t \in d.types},
              !.leaves = {[l EXCEPT !.type = Merging(d.types, l.type)] : l \in d.leaves}]

\* DEMO_USERS.
Place(u) ==
    CASE u = "hrAdmin" -> <<"admin", "hr">>
      [] u = "managerKt" -> <<"manager", "engineering">>
      [] u \in {"employeeRejected", "employeePending"} -> <<"employee", "sales">>
      [] OTHER -> <<"employee", "engineering">>
SeedUsers(d) ==
    [d EXCEPT !.users = [u \in Users |->
        IF u \notin Demo THEN @[u]
        ELSE [role |-> Place(u)[1], dept |-> Today(Place(u)[2]),
              remain |-> IF u = "employee2" THEN AnnualDays - 1 ELSE AnnualDays]]]

AssignDepartmentManagers(d) ==
    [d EXCEPT !.seat = [@ EXCEPT !["engineering"] = "managerKt", !["hr"] = "hrAdmin"]]

\* One sheet for each but the administrator, of the current month.
SeededSheet(u) ==
    CASE u = "managerKt" -> [status |-> "DRAFT", approver |-> Nobody]
      [] u \in {"employee1", "employeePending"} -> [status |-> "SUBMITTED", approver |-> Nobody]
      [] u \in {"employee2", "employeeOT"} -> [status |-> "APPROVED", approver |-> "managerKt"]
      [] u = "employeeRejected" -> [status |-> "REJECTED", approver |-> "hrAdmin"]
SeedMonthlyTimesheets(d) ==
    [d EXCEPT !.sheets = [u \in Users |->
        IF u \in Demo \ {"hrAdmin"} THEN SeededSheet(u) ELSE @[u]]]

\* An application is found by its applicant, its type and its days; of
\* several any one is found, and written over.
SameLeave(l, m) == l.who = m.who /\ l.type = m.type /\ l.from = m.from
FreeNumber(leaves) ==
    LET free == Numbers \ {l.no : l \in leaves} IN {n \in free : \A k \in free : n <= k}
LeaveOf(m, n) == [no |-> n, who |-> m.who, type |-> m.type, from |-> m.from,
                  status |-> m.status, reviewer |-> m.reviewer]
UpsertLeaveApplication(leaves, m) ==
    LET found == {l \in leaves : SameLeave(l, m)}
    IN IF found = {} THEN {leaves \cup {LeaveOf(m, n)} : n \in FreeNumber(leaves)}
       ELSE {(leaves \ {l}) \cup {LeaveOf(m, l.no)} : l \in found}

AnnualLeave(types) == [who |-> "employee1", type |-> Canonical(types, "annual"), from |-> 12,
                       status |-> "PENDING", reviewer |-> Nobody]
SickLeave(types) == [who |-> "employee2", type |-> Canonical(types, "sick"), from |-> 5,
                     status |-> "APPROVED", reviewer |-> "managerKt"]
UnpaidLeave(types) == [who |-> "employee1", type |-> Canonical(types, "unpaid"), from |-> 20,
                       status |-> "REJECTED", reviewer |-> "managerKt"]
LeavesSeeded(types, leaves) ==
    UNION {UNION {UpsertLeaveApplication(y, UnpaidLeave(types)) :
                    y \in UpsertLeaveApplication(x, SickLeave(types))} :
             x \in UpsertLeaveApplication(leaves, AnnualLeave(types))}
SeedLeaveApplications(d) == {[d EXCEPT !.leaves = x] : x \in LeavesSeeded(d.types, d.leaves)}

\* The table has no key for a person and a month: the row is looked for.
UpsertPayrollMutant(n) == n + 1
UpsertPayroll(n) == IF n > 0 THEN n ELSE 1
SeedPayrolls(d) ==
    [d EXCEPT !.payrolls = [u \in Users |->
        IF u \in {"employee2", "employeeOT"} THEN UpsertPayroll(@[u]) ELSE @[u]]]

\* Looked for by content, sender, receiver and kind.
SeededNotes ==
    {<<"employee1", "managerKt", "sheet">>, <<"employee1", "managerKt", "leave">>,
     <<"managerKt", "employee2", "leave">>, <<"managerKt", "employee1", "leave">>,
     <<Nobody, "employee1", "warning">>, <<Nobody, "hrAdmin", "sheet">>,
     <<"hrAdmin", "employeeRejected", "sheet">>, <<"employeePending", "hrAdmin", "sheet">>,
     <<"employee1", "managerKt", "correction">>, <<Nobody, "employeeOT", "warning">>,
     <<"hrAdmin", "managerKt", "warning">>}
SeedNotifications(d) == [d EXCEPT !.notes = @ \cup SeededNotes]

\* A role is deleted when nobody has it, the old administrator when he has
\* his name still and no row refers to him.
DeleteRoleIfUnused(d, role) ==
    IF \E u \in Users : d.users[u].role = role THEN d ELSE [d EXCEPT !.roles = @ \ {role}]
ReferredMutant(d, u) ==
    \/ \E k \in Departments : d.seat[k] = u
    \/ d.sheets[u] # NoSheet \/ d.payrolls[u] > 0
    \/ \E l \in d.leaves : l.who = u
Referred(d, u) ==
    \/ \E k \in Departments : d.seat[k] = u
    \/ d.sheets[u] # NoSheet \/ \E v \in Users : d.sheets[v].approver = u
    \/ \E l \in d.leaves : l.who = u \/ l.reviewer = u
    \/ \E n \in d.notes : n[1] = u \/ n[2] = u
    \/ u \in d.warnings \/ d.payrolls[u] > 0
    \/ \E c \in d.corrections : c[1] = u \/ c[2] = u
DeleteLegacyAdmin(d) ==
    IF ~d.oldName \/ Referred(d, LegacyAdmin) THEN d
    ELSE [d EXCEPT !.users = [@ EXCEPT ![LegacyAdmin] = NoOne]]
Rehired(d) ==
    [d EXCEPT !.users = [u \in Users |->
        IF @[u].role = LegacyRole THEN [@[u] EXCEPT !.role = "employee"] ELSE @[u]]]
CleanupLegacySeedData(d) ==
    DeleteLegacyAdmin(DeleteRoleIfUnused(DeleteRoleIfUnused(Rehired(d), LegacyRole), NoneRole))

Peopled(d) == AssignDepartmentManagers(SeedUsers(MergeLegacyLeaveTypes(MergeLegacyDepartments(
                SeedLeaveTypes(SeedDepartments(SeedRoles(d)))))))
Seedings(d) ==
    {CleanupLegacySeedData(SeedNotifications(SeedPayrolls(e))) :
       e \in SeedLeaveApplications(SeedMonthlyTimesheets(Peopled(d)))}

-----------------------------------------------------------------------------
(* Servers and the command *)

\* With ENABLE_TYPE_LEAVE_LEGACY_SEED another module fills its own table first.
LegacyTypes == {[name |-> Today(k), code |-> k, copy |-> 0] : k \in {"annual", "unpaid"}}

\* SKIP_AUTO_SEED may be set.
Start ==
    /\ server = "off"
    /\ db' \in {db} \cup (IF db.types = {} THEN {[db EXCEPT !.types = LegacyTypes]} ELSE {})
    /\ server' \in {"up"} \cup (IF IsEmpty(db) THEN {"empty"} ELSE {})
    /\ UNCHANGED <<heard, reseeded>>

\* It does not look again; nobody is served before it is done.
SeedAtStart ==
    /\ server = "empty"
    /\ Seedable(db)
    /\ db' \in Seedings(db)
    /\ server' = "up"
    /\ UNCHANGED <<heard, reseeded>>

\* A transaction that fails, too, stops the server.
Crash ==
    /\ server # "off"
    /\ server' = "off"
    /\ UNCHANGED <<db, heard, reseeded>>

Command ==
    /\ Seedable(db)
    /\ db' \in Seedings(db)
    /\ reseeded' = (reseeded \/ ~IsEmpty(db))
    /\ UNCHANGED <<server, heard>>

-----------------------------------------------------------------------------
(* People *)

\* An administrator hires someone, or makes a leave type, with a free code.
HasAdmin == \E u \in Users : db.users[u].role = "admin"

Hire ==
    /\ server = "up" /\ HasAdmin /\ ~Exists(db, Guest)
    /\ "employee" \in db.roles /\ Today("engineering") \in db.departments
    /\ db' = [db EXCEPT !.users = [@ EXCEPT
                ![Guest] = [role |-> "employee", dept |-> Today("engineering"), remain |-> AnnualDays]]]
    /\ UNCHANGED <<server, heard, reseeded>>

NewType(code) ==
    /\ server = "up" /\ HasAdmin
    /\ \A t \in db.types : t.name # Today("custom") /\ (code # "other" => t.code # code)
    /\ db' = [db EXCEPT !.types = @ \cup {[name |-> Today("custom"), code |-> code, copy |-> 0]}]
    /\ UNCHANGED <<server, heard, reseeded>>

\* Roles are looked up by name; one may be renamed, and deleted when nobody has it.
RenameRole(role, name) ==
    /\ server = "up" /\ HasAdmin
    /\ role \in db.roles /\ name \notin db.roles
    /\ db' = [db EXCEPT !.roles = (@ \ {role}) \cup {name},
                        !.users = [u \in Users |-> IF @[u].role = role THEN [@[u] EXCEPT !.role = name]
                                                    ELSE @[u]]]
    /\ UNCHANGED <<server, heard, reseeded>>

RemoveRole(role) ==
    /\ server = "up" /\ HasAdmin
    /\ role \in db.roles /\ \A u \in Users : db.users[u].role # role
    /\ db' = [db EXCEPT !.roles = @ \ {role}]
    /\ UNCHANGED <<server, heard, reseeded>>

\* The manager of a person's department is told of an application, and he
\* alone decides about it (LeaveBalance); the balance must do for it.
ManagerOf(d, u) ==
    IF \E k \in Departments : d.users[u].dept = Today(k)
    THEN d.seat[CHOOSE k \in Departments : d.users[u].dept = Today(k)] ELSE Nobody
Told(notes, from, to, about) == IF to = Nobody THEN notes ELSE notes \cup {<<from, to, about>>}

Apply(u, key, from) ==
    /\ server = "up"
    /\ Exists(db, u)
    /\ \A l \in db.leaves : l.who = u /\ l.from = from => l.status = "REJECTED"
    /\ \E t \in db.types, n \in FreeNumber(db.leaves) :
         /\ Key(t) = key
         /\ IsPaid(t) => Length(from) <= db.users[u].remain
         /\ db' = [db EXCEPT !.leaves = @ \cup
                      {[no |-> n, who |-> u, type |-> t, from |-> from, status |-> "PENDING",
                        reviewer |-> Nobody]},
                             !.notes = Told(@, u, ManagerOf(db, u), "request")]
         /\ heard' = [heard EXCEPT ![n] = "PENDING"]
    /\ UNCHANGED <<server, reseeded>>

Charge(l, say) == IF ~IsPaid(l.type) THEN 0
                  ELSE IF say = "APPROVED" THEN Length(l.from)
                  ELSE IF l.status = "APPROVED" THEN -Length(l.from) ELSE 0

Decide(l, say) ==
    LET reviewer == ManagerOf(db, l.who)
    IN /\ server = "up"
       /\ l.status # say /\ reviewer # Nobody
       /\ Charge(l, say) <= db.users[l.who].remain \/ Charge(l, say) <= 0
       /\ db' = [db EXCEPT !.leaves = (@ \ {l}) \cup {[l EXCEPT !.status = say, !.reviewer = reviewer]},
                           !.users[l.who].remain = @ - Charge(l, say),
                           !.notes = Told(@, reviewer, l.who, "review")]
       /\ heard' = [heard EXCEPT ![l.no] = say]
       /\ UNCHANGED <<server, reseeded>>

-----------------------------------------------------------------------------
SeedNext ==
    \/ Start \/ SeedAtStart \/ Crash \/ Command
    \/ Hire
    \/ \E code \in {"annual", "other"} : NewType(code)
    \/ \E role \in RoleNames : RenameRole(role, OtherRole)
    \/ \E role \in db.roles : RemoveRole(role)
    \/ \E r \in Requests : Apply(r[1], r[2], r[3])
    \/ \E l \in db.leaves, say \in {"APPROVED", "REJECTED"} : Decide(l, say)

SeedSpec == SeedInit /\ [][SeedNext]_seedVars
-----------------------------------------------------------------------------
(* Properties *)

\* Two applications for the leave of one that is seeded, and what remains of
\* the rows when a second seed finds the other of the two.
Doubled(d) ==
    \E l, m \in d.leaves : /\ l # m /\ SameLeave(l, m)
                           /\ \E row \in {AnnualLeave(d.types), SickLeave(d.types), UnpaidLeave(d.types)} :
                                SameLeave(l, row)
SameRows(d, e) ==
    /\ [e EXCEPT !.leaves = d.leaves, !.users = d.users] = d
    /\ {l.no : l \in e.leaves} = {l.no : l \in d.leaves}
    /\ \A u \in Users \ {LegacyAdmin} : e.users[u] = d.users[u]

\* Run again in the same month, the command changes nothing, whatever the
\* database held before the first time: no row is made twice, and nothing
\* that an older version left survives one seed and falls to the next.  Only
\* where a person has two applications for the leave of one that is seeded
\* may the two runs find different ones; then, too, no row is made or moved.
SeedsOnce ==
    Seedable(db) => \A d \in Seedings(db) : /\ ~Doubled(d) => Seedings(d) = {d}
                                           /\ \A e \in Seedings(d) : SameRows(d, e)

\* However the server stops and starts, in the middle of the first seed too,
\* what people were told of an application stays true, and so do the days it
\* cost, of those made and of those seeded: only someone who runs the command
\* on a database in use takes them back.
DecisionsSurvive ==
    ~reseeded =>
       /\ \A n \in Numbers : heard[n] # "nothing" =>
            \E l \in db.leaves : l.no = n /\ l.status = heard[n]
       /\ Balanced(db)

\* Through every merge and clean-up each row refers to rows that exist - the
\* database would refuse anything else, and with it the whole seed - and
\* nobody's application is lost, pending or decided.
ReferencesHold ==
    /\ Refers(db)
    /\ \A n \in Numbers : heard[n] # "nothing" => \E l \in db.leaves : l.no = n
=============================================================================

---------------------------- MODULE LeaveBalance ----------------------------
(***************************************************************************)
(* One employee's leave applications and leave balance, as the services of *)
(* backend/src/leave-application run them against PostgreSQL.              *)
(*                                                                         *)
(* As in Timesheet, a handler is a worker that goes through steps, and     *)
(* others take theirs in between.  An application is created outside a     *)
(* transaction; a review and the expiry job commit all they write at once, *)
(* but on what they read before, unlocked.  The balance is not counted by  *)
(* the database: a review writes the number it computed from its read.     *)
(***************************************************************************)
EXTENDS Integers, FiniteSets

CONSTANTS
    Workers,         \* requests and jobs that may be in progress together
    Types,           \* the rows of type_leaves
    PaidTypes,       \* the types that are paid at first
    EditedTypes,     \* the types that an administrator edits
    Total,           \* users.totalDaysofLeave
    Weekdays,        \* the days that are not a Saturday or a Sunday
    YearEnd,         \* the last day of the first year
    Horizon,         \* BOUND: last day of the model
    MaxApplications, \* BOUND: rows of leave_applications
    MaxBalance       \* BOUND: greatest balance (racing refunds have no other)

ASSUME DaysAssumption ==
    /\ Total \in Nat
    /\ Horizon \in Nat \ {0}
    /\ YearEnd \in Nat
    /\ MaxApplications \in Nat
    /\ MaxBalance \in Nat
    /\ Weekdays \subseteq 1..Horizon

ASSUME TypesAssumption ==
    /\ PaidTypes \subseteq Types
    /\ EditedTypes \subseteq Types
    /\ Types # {}

VARIABLES
    now,          \* today
    expiryDue,    \* the expiry job of today has not run
    resetDue,     \* the first of January: the balance has not been reset
    remain,       \* users.remainDaysofLeave
    types,        \* what the rows of type_leaves say
    applications, \* the rows of leave_applications (status "NONE": no row yet)
    job           \* what each worker is doing and what it has read so far

vars == <<now, expiryDue, resetDue, remain, types, applications, job>>

Ids == 1..MaxApplications
None == 0
Days == 1..Horizon

LeaveStatus == {"PENDING", "APPROVED", "REJECTED", "CANCELLED"}
TypeRow == [paid: BOOLEAN, active: BOOLEAN]
Application == [status: LeaveStatus \cup {"NONE"}, from: Days, to: Days, type: Types]

Job == [at: {"idle", "apply.type", "apply.look", "apply.write",
             "review", "review.write", "expire"},
        what: Application, id: Ids \cup {None}, say: LeaveStatus, old: LeaveStatus,
        pays: BOOLEAN, seen: Int, list: SUBSET Ids]

Blank == [status |-> "NONE", from |-> 1, to |-> 1, type |-> CHOOSE t \in Types : TRUE]
Idle == [at |-> "idle", what |-> Blank, id |-> None, say |-> "PENDING", old |-> "PENDING",
         pays |-> FALSE, seen |-> 0, list |-> {}]

InStatus(status) == {a \in Ids : applications[a].status \in status}

\* calculateBusinessDays
BusinessDays(a) == {d \in Weekdays : a.from <= d /\ d <= a.to}
Duration(a) == Cardinality(BusinessDays(a))

\* The overlap condition of the query: the intervals have a day in common.
OverlapMutant(a, b) == a.from < b.to /\ b.from < a.to
Overlap(a, b) == a.from <= b.to /\ b.from <= a.to

Year(day) == IF day <= YearEnd THEN 1 ELSE 2

TypeOK ==
    /\ now \in 1..(Horizon + 1)
    /\ expiryDue \in BOOLEAN
    /\ resetDue \in BOOLEAN
    /\ remain \in Int
    /\ types \in [Types -> TypeRow]
    /\ applications \in [Ids -> Application]
    /\ job \in [Workers -> Job]

Init ==
    /\ now = 1
    /\ expiryDue = TRUE
    /\ resetDue = FALSE
    /\ remain = Total
    /\ types = [t \in Types |-> [paid |-> t \in PaidTypes, active |-> TRUE]]
    /\ applications = [a \in Ids |-> Blank]
    /\ job = [w \in Workers |-> Idle]

-----------------------------------------------------------------------------
At(w, step) == job[w].at = step
Goto(w, next) == job' = [job EXCEPT ![w] = next]
Finish(w) == Goto(w, Idle)

\* A refusal, an exception, a rolled back transaction or a crash.
Abort(w) ==
    /\ ~At(w, "idle")
    /\ Finish(w)
    /\ UNCHANGED <<now, expiryDue, resetDue, remain, types, applications>>

\* The yearly reset has one minute in which it starts: a server that is down
\* then misses it.
NextDay ==
    /\ now <= Horizon
    /\ now' = now + 1
    /\ expiryDue' = TRUE
    /\ resetDue' \in {FALSE, now = YearEnd}
    /\ UNCHANGED <<remain, types, applications, job>>

\* One SQL statement.
AnnualReset ==
    /\ resetDue
    /\ resetDue' = FALSE
    /\ remain' = Total
    /\ UNCHANGED <<now, expiryDue, types, applications, job>>

\* An administrator updates, activates or deactivates a leave type.
EditType(t) ==
    /\ t \in EditedTypes
    /\ \E row \in TypeRow : types' = [types EXCEPT ![t] = row]
    /\ UNCHANGED <<now, expiryDue, resetDue, remain, applications, job>>

-----------------------------------------------------------------------------
(* Creation: not in a transaction *)

\* A request for dates that are valid today reads the employee's row.
Apply(w) ==
    /\ At(w, "idle")
    /\ \E from, to \in Days, t \in Types :
         LET a == [status |-> "PENDING", from |-> from, to |-> to, type |-> t]
         IN /\ now <= from /\ from <= to
            /\ Year(to) <= Year(now)
            /\ BusinessDays(a) # {}
            /\ Goto(w, [Idle EXCEPT !.at = "apply.type", !.what = a, !.seen = remain])
    /\ UNCHANGED <<now, expiryDue, resetDue, remain, types, applications>>

\* Then the row of the type of leave.
ApplyType(w) ==
    /\ At(w, "apply.type")
    /\ LET row == types[job[w].what.type]
       IN IF ~row.active \/ (row.paid /\ job[w].seen < Duration(job[w].what))
          THEN Finish(w)
          ELSE Goto(w, [job[w] EXCEPT !.at = "apply.look", !.seen = 0])
    /\ UNCHANGED <<now, expiryDue, resetDue, remain, types, applications>>

\* Then the applications of the same days.
ApplyLook(w) ==
    /\ At(w, "apply.look")
    /\ IF \E a \in InStatus({"PENDING", "APPROVED"}) : Overlap(applications[a], job[w].what)
       THEN Finish(w)
       ELSE Goto(w, [job[w] EXCEPT !.at = "apply.write"])
    /\ UNCHANGED <<now, expiryDue, resetDue, remain, types, applications>>

ApplyWrite(w) ==
    /\ At(w, "apply.write")
    /\ \E a \in InStatus({"NONE"}) :
         /\ \A b \in InStatus({"NONE"}) : a <= b
         /\ applications' = [applications EXCEPT ![a] = job[w].what]
    /\ Finish(w)
    /\ UNCHANGED <<now, expiryDue, resetDue, remain, types>>

-----------------------------------------------------------------------------
(* Review: one transaction that reads the application, then the applicant,  *)
(* then writes both.                                                        *)

Deducts(old, say) == old # "APPROVED" /\ say = "APPROVED"
Refunds(old, say) == old = "APPROVED" /\ say # "APPROVED"

\* A verdict that repeats the status changes no more than the reason.
ReviewRead(w) ==
    /\ At(w, "idle")
    /\ \E a \in InStatus(LeaveStatus), verdict \in {"APPROVED", "REJECTED"} :
         /\ applications[a].status # verdict
         /\ Goto(w, [Idle EXCEPT !.at = "review", !.id = a, !.say = verdict,
                                 !.old = applications[a].status,
                                 !.pays = types[applications[a].type].paid])
    /\ UNCHANGED <<now, expiryDue, resetDue, remain, types, applications>>

ReviewBalanceMutant(w) ==
    /\ At(w, "review")
    /\ Goto(w, [job[w] EXCEPT !.at = "review.write", !.seen = remain])
    /\ UNCHANGED <<now, expiryDue, resetDue, remain, types, applications>>

ReviewBalance(w) ==
    /\ At(w, "review")
    /\ IF /\ job[w].pays
          /\ Deducts(job[w].old, job[w].say)
          /\ remain < Duration(applications[job[w].id])
       THEN Finish(w)
       ELSE Goto(w, [job[w] EXCEPT !.at = "review.write", !.seen = remain])
    /\ UNCHANGED <<now, expiryDue, resetDue, remain, types, applications>>

\* The balance that a review leaves: computed from the one that it read when
\* the review deducts or refunds, untouched otherwise.
BalanceMutant(j) ==
    IF j.pays /\ Deducts(j.old, j.say) THEN j.seen - Duration(applications[j.id]) ELSE remain
Balance(j) ==
    LET days == Duration(applications[j.id])
    IN IF j.pays /\ Deducts(j.old, j.say) THEN j.seen - days
       ELSE IF j.pays /\ Refunds(j.old, j.say) THEN j.seen + days
       ELSE remain

ReviewWrite(w) ==
    /\ At(w, "review.write")
    /\ remain' = Balance(job[w])
    /\ remain' <= MaxBalance
    /\ applications' = [applications EXCEPT ![job[w].id].status = job[w].say]
    /\ Finish(w)
    /\ UNCHANGED <<now, expiryDue, resetDue, types>>

-----------------------------------------------------------------------------
(* Expiry: the job lists the pending applications whose last day has ended, *)
(* then cancels all of them in one transaction, without looking again.      *)

ExpireListMutant(w, cutoff) ==
    /\ At(w, "idle")
    /\ LET expired == {a \in InStatus({"PENDING"}) : applications[a].to = cutoff}
       IN IF expired = {} THEN UNCHANGED job
          ELSE Goto(w, [Idle EXCEPT !.at = "expire", !.list = expired])
    /\ UNCHANGED <<now, resetDue, remain, types, applications>>

ExpireList(w, cutoff) ==
    /\ At(w, "idle")
    /\ LET expired == {a \in InStatus({"PENDING"}) : applications[a].to <= cutoff}
       IN IF expired = {} THEN UNCHANGED job
          ELSE Goto(w, [Idle EXCEPT !.at = "expire", !.list = expired])
    /\ UNCHANGED <<now, resetDue, remain, types, applications>>

\* At the end of each day, for that day.
ExpireDailyMutant(w) == expiryDue /\ expiryDue' = FALSE /\ ExpireList(w, now + 1)
ExpireDaily(w) == expiryDue /\ expiryDue' = FALSE /\ ExpireList(w, now)

\* Whenever the server starts, for the day before.
ExpireAtStartup(w) == UNCHANGED expiryDue /\ ExpireList(w, now - 1)

ExpireWrite(w) ==
    /\ At(w, "expire")
    /\ applications' = [a \in Ids |-> IF a \in job[w].list
                                      THEN [applications[a] EXCEPT !.status = "CANCELLED"]
                                      ELSE applications[a]]
    /\ Finish(w)
    /\ UNCHANGED <<now, expiryDue, resetDue, remain, types>>

-----------------------------------------------------------------------------
Step(w) ==
    \/ Abort(w)
    \/ Apply(w) \/ ApplyType(w) \/ ApplyLook(w) \/ ApplyWrite(w)
    \/ ReviewRead(w) \/ ReviewBalance(w) \/ ReviewWrite(w)
    \/ ExpireDaily(w) \/ ExpireAtStartup(w) \/ ExpireWrite(w)

Next ==
    \/ NextDay
    \/ AnnualReset
    \/ \E t \in Types : EditType(t)
    \/ \E w \in Workers : Step(w)

Spec == Init /\ [][Next]_vars

\* A request or a job that has begun ends.  Each night the expiry job runs, or
\* the server is down then and the job runs when it starts; its transaction
\* fails now and then, not for ever.
Fairness ==
    /\ \A w \in Workers : WF_vars(~At(w, "idle") /\ Step(w)) /\ SF_vars(ExpireWrite(w))
    /\ SF_vars(\E w \in Workers : ExpireDaily(w) \/ ExpireAtStartup(w))

FairSpec == Spec /\ Fairness
-----------------------------------------------------------------------------
(* Properties that hold however requests and jobs interleave *)

\* Nobody takes leave that is not there: although a review writes a balance
\* it computed from an old one, the balance never goes below zero.
NeverNegative == remain >= 0

\* The expiry job, whose list may be a day old when it writes, never cancels
\* an application before its last day.
CancelledAfterItsEnd == \A a \in InStatus({"CANCELLED"}) : applications[a].to <= now

\* Why they hold, and why IInv is inductive: what a worker carries from a read
\* to its write.  A new application is pending; a review is of an application
\* that exists and approves no more days than it saw; each application on the
\* expiry job's list has ended.
Remembers(w) ==
    /\ job[w].at \in {"apply.type", "apply.look", "apply.write"} => job[w].what.status = "PENDING"
    /\ job[w].at \in {"review", "review.write"} =>
         /\ job[w].id \in InStatus(LeaveStatus)
         /\ job[w].say \in {"APPROVED", "REJECTED"}
    /\ At(w, "review.write") =>
         /\ job[w].seen >= 0
         /\ job[w].pays /\ Deducts(job[w].old, job[w].say)
              => job[w].seen >= Duration(applications[job[w].id])
    /\ At(w, "expire") =>
         \A a \in job[w].list : a \in InStatus(LeaveStatus) /\ applications[a].to <= now
WorkersRemember == \A w \in Workers : Remembers(w)

\* The inductive invariant of the concurrent system.
IInv ==
    /\ TypeOK
    /\ NeverNegative
    /\ CancelledAfterItsEnd
    /\ WorkersRemember

-----------------------------------------------------------------------------
(* Properties that hold when requests and jobs are handled one at a time    *)
(* and no leave type is edited                                              *)

\* The days of paid, approved leave, each with its application.
ChargedDays ==
    {p \in Ids \X Weekdays :
       LET a == applications[p[1]]
       IN a.status = "APPROVED" /\ types[a.type].paid /\ p[2] \in BusinessDays(a)}

\* The books balance: what is left and what was approved add up to the yearly
\* allowance, through every approval, rejection, repeal and expiry; after the
\* new year's reset an employee has that much or more, never less.
BalanceAccounts ==
    /\ remain + Cardinality(ChargedDays) >= Total
    /\ now <= YearEnd => remain + Cardinality(ChargedDays) = Total

ResetInNewYear == resetDue => now > YearEnd

DaysOff(a) == applications[a].from .. applications[a].to

\* An employee has no two applications waiting for the same day.
PendingDisjoint ==
    \A a, b \in InStatus({"PENDING"}) : a # b => DaysOff(a) \cap DaysOff(b) = {}

\* Nobody waits for ever on a leave that is over: an application whose last
\* day has passed is decided or cancelled in the end, also when the run of the
\* expiry job that was due for it failed or was missed.
EndedIsDecided ==
    \A a \in Ids :
      applications[a].status = "PENDING" /\ applications[a].to < now
        ~> applications[a].status # "PENDING"

\* Why they hold: nothing that the one worker read has changed when it writes,
\* except that the new year's reset may have restored the balance.  No other
\* application of the employee waits for the days of the one about to be
\* created; a review writes over the status, and a list of the expiry job over
\* the applications, that they read.
Undisturbed(w) ==
    /\ At(w, "apply.write") =>
         \A a \in InStatus({"PENDING"}) : ~Overlap(applications[a], job[w].what)
    /\ job[w].at \in {"review", "review.write"} =>
         LET a == applications[job[w].id]
         IN a.status = job[w].old /\ types[a.type].paid = job[w].pays
    /\ At(w, "review.write") =>
         /\ job[w].seen + Cardinality(ChargedDays) >= Total
         /\ now <= YearEnd => job[w].seen = remain
    /\ At(w, "expire") => job[w].list \subseteq InStatus({"PENDING"})
NothingDisturbed == \A w \in Workers : Undisturbed(w)

OneAtATime == \A v, w \in Workers : v = w

\* With IInv, the inductive invariant of requests handled one at a time.
SInv ==
    /\ BalanceAccounts
    /\ ResetInNewYear
    /\ PendingDisjoint
    /\ NothingDisturbed

-----------------------------------------------------------------------------
(* Statements of the messages and the tests that the code does not keep *)

\* "You already have a leave application from ... to ..., please choose other
\* dates": no two applications that are pending or approved overlap.
NoOverlap ==
    \A a, b \in InStatus({"PENDING", "APPROVED"}) : a # b => DaysOff(a) \cap DaysOff(b) = {}

\* "subtracts annual balance for paid approved leave": what was approved this
\* year is missing from the balance.
ApprovedIsSubtracted == now <= YearEnd => remain + Cardinality(ChargedDays) <= Total

\* "... its days of leave are over and it has not been approved yet", as the
\* expiry job says of what it cancels: it cancels nothing that is approved.
ApprovedNotExpired ==
    [][\A a \in InStatus({"APPROVED"}) : applications'[a].status # "CANCELLED"]_applications
=============================================================================

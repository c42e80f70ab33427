----------------------------- MODULE Timesheet -----------------------------
(***************************************************************************)
(* One employee's monthly timesheet: attendance, corrections, submission,  *)
(* review, the missed check-out job and payroll, as the services of        *)
(* backend/src run them against PostgreSQL.                                *)
(*                                                                         *)
(* Handlers run concurrently.  A handler reads the database, computes in   *)
(* JavaScript, and writes back what it computed; nothing it read is        *)
(* locked.  So a handler is a worker that goes through steps:              *)
(*   - one that runs inside prisma.$transaction (READ COMMITTED) reads in  *)
(*     one step and commits all it writes in a later one;                  *)
(*   - one that runs outside a transaction (check-in, check-out, payroll,  *)
(*     the canSubmit refresh) has one step per call to the database.       *)
(* Between two steps of a worker the others take theirs, midnight may      *)
(* pass, and the worker may fail (Abort).  With one worker the requests    *)
(* are handled one at a time.                                              *)
(***************************************************************************)
EXTENDS Naturals, Sequences, FiniteSets

CONSTANTS
    Workers,         \* request handlers that may be in progress together
    Refreshers,      \* BOUND: canSubmit refreshes that may be in progress together
    Reviewers,       \* users the controller's guard lets review this sheet
    PeriodDays,      \* length of the attendance period (17th to 16th)
    WindowDays,      \* length of the submission window (17th to 23rd)
    Horizon,         \* BOUND: last day of the model
    MaxEntries,      \* BOUND: rows of timesheet_entries
    MaxCorrections   \* BOUND: rows of request_corrections

ASSUME BoundsAssumption ==
    /\ PeriodDays \in Nat \ {0}
    /\ WindowDays \in Nat \ {0}
    /\ Horizon \in Nat
    /\ MaxEntries \in Nat
    /\ MaxCorrections \in Nat

ASSUME ReviewersAssumption == Reviewers # {}

VARIABLES
    now,         \* today, counted from the first day of the period
    cronDue,     \* midnight has passed and the job has not started yet
    sheet,       \* the row of monthly_timesheets (status "NONE": no row yet)
    entries,     \* the rows of timesheet_entries (day 0: no row yet)
    corrections, \* the rows of request_corrections (status "NONE": no row yet)
    payrolls,    \* the rows of payrolls: the entries that each one pays
    job,         \* what each worker is doing and what it has read so far
    refresh      \* the canSubmit refreshes that run beside the workers

vars == <<now, cronDue, sheet, entries, corrections, payrolls, job, refresh>>

EntryIds == 1..MaxEntries
CorrectionIds == 1..MaxCorrections
None == 0   \* no entry, no correction

SheetStatus == {"NONE", "DRAFT", "SUBMITTED", "APPROVED", "REJECTED"}
TimesheetStatus == {"PENDING", "APPROVED", "REJECTED", "MISSING_OUT"}
Nobody == "nobody"

\* The statuses in which attendance, corrections and canSubmit see a lock.
Locked == {"SUBMITTED", "APPROVED"}

SheetRow == [status: SheetStatus, isSubmitted: BOOLEAN, canSubmit: BOOLEAN,
             approvedBy: Reviewers \cup {Nobody}]
EntryRow == [day: 0..PeriodDays, out: BOOLEAN, status: TimesheetStatus]
CorrectionRow == [status: TimesheetStatus \cup {"NONE"},
                  entry: EntryIds \cup {None},
                  proposes: {"nothing", "checkIn", "checkOut"}]

Steps == {"idle", "checkIn", "checkIn.create", "checkIn.look", "checkIn.write",
          "checkOut", "checkOut.look", "checkOut.write", "submit", "review",
          "request", "decide", "cron", "payroll", "payroll.write"}

Job == [at: Steps, day: 0..PeriodDays, seen: SheetStatus,
        pick: SUBSET EntryIds, what: CorrectionRow,
        id: CorrectionIds \cup {None}, say: TimesheetStatus, flag: BOOLEAN,
        todo: SUBSET {"entry", "sheet"}]

NoCorrection == [status |-> "NONE", entry |-> None, proposes |-> "nothing"]
Idle == [at |-> "idle", day |-> 0, seen |-> "NONE", pick |-> {},
         what |-> NoCorrection, id |-> None, say |-> "PENDING",
         flag |-> FALSE, todo |-> {}]

Used == {e \in EntryIds : entries[e].day # 0}
EntriesOnMutant(d) == {e \in Used : entries[e].day = d /\ ~entries[e].out}
EntriesOn(d) == {e \in Used : entries[e].day = d}
Pending == {c \in CorrectionIds : corrections[c].status = "PENDING"}

\* refreshCanSubmit and recalculateCanSubmit compute the same thing.
SubmittableMutant(status, pending) == Used # {} /\ status \notin Locked
Submittable(status, pending) ==
    /\ Used # {}
    /\ pending = {}
    /\ status \notin Locked

\* What a check-in or a check-out writes over a sheet it saw locked.
ReopenedMutant(row) == [row EXCEPT !.status = "DRAFT", !.canSubmit = FALSE,
                                   !.approvedBy = Nobody]
ReopenedUnsigned(row) == [row EXCEPT !.canSubmit = FALSE, !.approvedBy = Nobody]
Reopened(row) == [row EXCEPT !.status = "DRAFT", !.isSubmitted = FALSE,
                             !.canSubmit = FALSE, !.approvedBy = Nobody]

DraftSheet == [status |-> "DRAFT", isSubmitted |-> FALSE, canSubmit |-> FALSE,
               approvedBy |-> Nobody]
NoSheet == [DraftSheet EXCEPT !.status = "NONE"]

InPeriod(day) == day \in 1..PeriodDays
InWindowMutant(day) == day \in PeriodDays..(PeriodDays + WindowDays)
InWindow(day) == day \in (PeriodDays + 1)..(PeriodDays + WindowDays)

TypeOK ==
    /\ now \in 1..(Horizon + 1)
    /\ cronDue \in BOOLEAN
    /\ sheet \in SheetRow
    /\ entries \in [EntryIds -> EntryRow]
    /\ corrections \in [CorrectionIds -> CorrectionRow]
    /\ payrolls \in Seq(SUBSET EntryIds)
    /\ job \in [Workers -> Job]
    /\ refresh \in [Refreshers -> {"none", "due", "true", "false"}]

Init ==
    /\ now = 1
    /\ cronDue = FALSE
    /\ sheet = NoSheet
    /\ entries = [e \in EntryIds |-> [day |-> 0, out |-> FALSE, status |-> "PENDING"]]
    /\ corrections = [c \in CorrectionIds |-> NoCorrection]
    /\ payrolls = <<>>
    /\ job = [w \in Workers |-> Idle]
    /\ refresh = [r \in Refreshers |-> "none"]

-----------------------------------------------------------------------------
(* Workers and their steps *)

At(w, step) == job[w].at = step

Goto(w, next) == job' = [job EXCEPT ![w] = next]

Finish(w) == Goto(w, Idle)

\* One of the two statements that Promise.all runs side by side is done.
PartDone(w, part) ==
    Goto(w, IF job[w].todo = {part} THEN Idle
            ELSE [job[w] EXCEPT !.todo = @ \ {part}])

\* An exception, a rolled back transaction, a refusal that depends on the
\* department, or a crash of the process: what was written stays written.
Abort(w) ==
    /\ ~At(w, "idle")
    /\ Finish(w)
    /\ UNCHANGED <<now, cronDue, sheet, entries, corrections, payrolls, refresh>>

\* Midnight.  A job that could not start before the next midnight is missed.
NextDay ==
    /\ now <= Horizon
    /\ now' = now + 1
    /\ cronDue' = TRUE
    /\ UNCHANGED <<sheet, entries, corrections, payrolls, job, refresh>>

-----------------------------------------------------------------------------
(* refreshCanSubmit outside a transaction: a GET of the timesheet, or the   *)
(* call that a check-out leaves running.                                    *)

RefreshRead(r) ==
    /\ refresh[r] \in {"none", "due"}
    /\ sheet.status # "NONE"
    /\ refresh' = [refresh EXCEPT ![r] =
                     IF Submittable(sheet.status, Pending) THEN "true" ELSE "false"]
    /\ UNCHANGED <<now, cronDue, sheet, entries, corrections, payrolls, job>>

RefreshWrite(r) ==
    /\ refresh[r] \in {"true", "false"}
    /\ sheet' = [sheet EXCEPT !.canSubmit = (refresh[r] = "true")]
    /\ refresh' = [refresh EXCEPT ![r] = "none"]
    /\ UNCHANGED <<now, cronDue, entries, corrections, payrolls, job>>

RefreshFail(r) ==
    /\ refresh[r] # "none"
    /\ refresh' = [refresh EXCEPT ![r] = "none"]
    /\ UNCHANGED <<now, cronDue, sheet, entries, corrections, payrolls, job>>

-----------------------------------------------------------------------------
(* Attendance: not in a transaction *)

\* POST of an empty sheet; the unique key refuses a second one.
CreateSheet(w) ==
    /\ At(w, "idle")
    /\ sheet.status = "NONE"
    /\ sheet' = DraftSheet
    /\ UNCHANGED <<now, cronDue, entries, corrections, payrolls, job, refresh>>

\* The handler takes the time first: from it follow the date and the month.
BeginAttendance(w, step) ==
    /\ At(w, "idle")
    /\ InPeriod(now)
    /\ Goto(w, [Idle EXCEPT !.at = step, !.day = now])
    /\ UNCHANGED <<now, cronDue, sheet, entries, corrections, payrolls, refresh>>

CheckInFindSheet(w) ==
    /\ At(w, "checkIn")
    /\ Goto(w, [job[w] EXCEPT
                  !.at = IF sheet.status = "NONE" THEN "checkIn.create" ELSE "checkIn.look",
                  !.seen = sheet.status])
    /\ UNCHANGED <<now, cronDue, sheet, entries, corrections, payrolls, refresh>>

CheckInCreateSheet(w) ==
    /\ At(w, "checkIn.create")
    /\ sheet.status = "NONE"
    /\ sheet' = DraftSheet
    /\ Goto(w, [job[w] EXCEPT !.at = "checkIn.look"])
    /\ UNCHANGED <<now, cronDue, entries, corrections, payrolls, refresh>>

CheckInLook(w) ==
    /\ At(w, "checkIn.look")
    /\ IF EntriesOn(job[w].day) # {}
       THEN Finish(w)
       ELSE Goto(w, [job[w] EXCEPT
                       !.at = "checkIn.write",
                       !.todo = IF job[w].seen = "NONE" THEN {"entry"} ELSE {"entry", "sheet"}])
    /\ UNCHANGED <<now, cronDue, sheet, entries, corrections, payrolls, refresh>>

CheckInEntry(w) ==
    /\ At(w, "checkIn.write")
    /\ "entry" \in job[w].todo
    /\ \E e \in EntryIds \ Used :
         /\ \A f \in EntryIds \ Used : e <= f
         /\ entries' = [entries EXCEPT ![e] =
                          [day |-> job[w].day, out |-> FALSE, status |-> "PENDING"]]
    /\ PartDone(w, "entry")
    /\ UNCHANGED <<now, cronDue, sheet, corrections, payrolls, refresh>>

CheckInSheet(w) ==
    /\ At(w, "checkIn.write")
    /\ "sheet" \in job[w].todo
    /\ sheet' = IF job[w].seen \in Locked THEN Reopened(sheet)
                ELSE [sheet EXCEPT !.canSubmit = FALSE]
    /\ PartDone(w, "sheet")
    /\ UNCHANGED <<now, cronDue, entries, corrections, payrolls, refresh>>

CheckOutFindSheet(w) ==
    /\ At(w, "checkOut")
    /\ IF sheet.status = "NONE" THEN Finish(w)
       ELSE Goto(w, [job[w] EXCEPT !.at = "checkOut.look", !.seen = sheet.status])
    /\ UNCHANGED <<now, cronDue, sheet, entries, corrections, payrolls, refresh>>

\* The last entry of the day is the one with the greatest check-in time; a
\* correction may have moved that, so with two entries it may be either.
CheckOutLook(w) ==
    /\ At(w, "checkOut.look")
    /\ \/ /\ \E e \in EntriesOn(job[w].day) :
               /\ ~entries[e].out
               /\ Goto(w, [job[w] EXCEPT
                             !.at = "checkOut.write", !.pick = {e},
                             !.todo = IF job[w].seen \in Locked THEN {"entry", "sheet"} ELSE {"entry"}])
       \/ /\ \/ EntriesOn(job[w].day) = {}
             \/ \E e \in EntriesOn(job[w].day) : entries[e].out
          /\ Finish(w)
    /\ UNCHANGED <<now, cronDue, sheet, entries, corrections, payrolls, refresh>>

\* When both statements are done the refresh is started and not awaited.
CheckOutDone(w, part) ==
    /\ PartDone(w, part)
    /\ IF job[w].todo = {part}
       THEN \E r \in Refreshers : /\ refresh[r] = "none"
                                  /\ refresh' = [refresh EXCEPT ![r] = "due"]
       ELSE UNCHANGED refresh

CheckOutEntry(w) ==
    /\ At(w, "checkOut.write")
    /\ "entry" \in job[w].todo
    /\ entries' = [e \in EntryIds |-> IF e \in job[w].pick
                                      THEN [entries[e] EXCEPT !.out = TRUE]
                                      ELSE entries[e]]
    /\ CheckOutDone(w, "entry")
    /\ UNCHANGED <<now, cronDue, sheet, corrections, payrolls>>

CheckOutSheet(w) ==
    /\ At(w, "checkOut.write")
    /\ "sheet" \in job[w].todo
    /\ sheet' = Reopened(sheet)
    /\ CheckOutDone(w, "sheet")
    /\ UNCHANGED <<now, cronDue, entries, corrections, payrolls>>

-----------------------------------------------------------------------------
(* The missed check-out job, started at midnight: it lists the open entries *)
(* of past days, then marks them one transaction at a time, mailing in      *)
(* between, without reading them again.                                     *)

CronList(w) ==
    /\ At(w, "idle")
    /\ cronDue
    /\ cronDue' = FALSE
    /\ LET missed == {e \in Used : /\ entries[e].day < now
                                   /\ ~entries[e].out
                                   /\ entries[e].status # "MISSING_OUT"}
       IN IF missed = {} THEN UNCHANGED job
          ELSE Goto(w, [Idle EXCEPT !.at = "cron", !.pick = missed])
    /\ UNCHANGED <<now, sheet, entries, corrections, payrolls, refresh>>

CronMark(w) ==
    /\ At(w, "cron")
    /\ \E e \in job[w].pick :
         /\ entries' = [entries EXCEPT ![e].status = "MISSING_OUT"]
         /\ Goto(w, IF job[w].pick = {e} THEN Idle
                    ELSE [job[w] EXCEPT !.pick = @ \ {e}])
    /\ sheet' = [sheet EXCEPT !.canSubmit = FALSE]
    /\ UNCHANGED <<now, cronDue, corrections, payrolls, refresh>>

-----------------------------------------------------------------------------
(* Submission and review of the month: one transaction each *)

SubmitRead(w) ==
    /\ At(w, "idle")
    /\ sheet.status # "NONE"
    /\ ~sheet.isSubmitted
    /\ sheet.status # "APPROVED"
    /\ InWindow(now)
    /\ Submittable(sheet.status, Pending)
    /\ Goto(w, [Idle EXCEPT !.at = "submit"])
    /\ UNCHANGED <<now, cronDue, sheet, entries, corrections, payrolls, refresh>>

SubmitCommit(w) ==
    /\ At(w, "submit")
    /\ sheet' = [sheet EXCEPT !.status = "SUBMITTED", !.isSubmitted = TRUE,
                              !.canSubmit = FALSE]
    /\ Finish(w)
    /\ UNCHANGED <<now, cronDue, entries, corrections, payrolls, refresh>>

ReviewReadMutant(w) ==
    /\ At(w, "idle")
    /\ sheet.isSubmitted
    /\ \E accept \in BOOLEAN : Goto(w, [Idle EXCEPT !.at = "review", !.flag = accept])
    /\ UNCHANGED <<now, cronDue, sheet, entries, corrections, payrolls, refresh>>

ReviewRead(w) ==
    /\ At(w, "idle")
    /\ sheet.isSubmitted
    /\ sheet.status # "APPROVED"
    /\ \E accept \in BOOLEAN :
         /\ accept \/ sheet.status # "REJECTED"
         /\ Goto(w, [Idle EXCEPT !.at = "review", !.flag = accept])
    /\ UNCHANGED <<now, cronDue, sheet, entries, corrections, payrolls, refresh>>

\* Approval settles the entries that have a check-out; rejection sets every
\* entry back to PENDING.
SettledBy(accept) == {e \in Used : accept => entries[e].out}

\* A rejection computes canSubmit again, inside the transaction.
ReviewCommit(w) ==
    /\ At(w, "review")
    /\ LET accept == job[w].flag
       IN /\ \E r \in Reviewers :
               sheet' = [status |-> IF accept THEN "APPROVED" ELSE "REJECTED",
                         isSubmitted |-> accept,
                         canSubmit |-> ~accept /\ Submittable("REJECTED", Pending),
                         approvedBy |-> IF accept THEN r ELSE Nobody]
          /\ entries' = [e \in EntryIds |->
                           IF e \in SettledBy(accept)
                           THEN [entries[e] EXCEPT !.status = IF accept THEN "APPROVED" ELSE "PENDING"]
                           ELSE entries[e]]
    /\ Finish(w)
    /\ UNCHANGED <<now, cronDue, corrections, payrolls, refresh>>

-----------------------------------------------------------------------------
(* Correction requests: one transaction each *)

RequestRead(w) ==
    /\ At(w, "idle")
    /\ sheet.status \in SheetStatus \ (Locked \cup {"NONE"})
    /\ \E e \in Used \cup {None}, p \in {"nothing", "checkIn", "checkOut"} :
         /\ p # "nothing" => e # None
         /\ \A c \in Pending : corrections[c].entry # e
         /\ Goto(w, [Idle EXCEPT !.at = "request",
                                 !.what = [status |-> "PENDING", entry |-> e, proposes |-> p]])
    /\ UNCHANGED <<now, cronDue, sheet, entries, corrections, payrolls, refresh>>

\* The new request is pending, so canSubmit computed right after is false.
RequestCommit(w) ==
    /\ At(w, "request")
    /\ \E c \in CorrectionIds :
         /\ corrections[c].status = "NONE"
         /\ \A b \in CorrectionIds : corrections[b].status = "NONE" => c <= b
         /\ corrections' = [corrections EXCEPT ![c] = job[w].what]
    /\ sheet' = [sheet EXCEPT !.canSubmit = FALSE]
    /\ Finish(w)
    /\ UNCHANGED <<now, cronDue, entries, payrolls, refresh>>

\* The decision is any TimesheetStatus: the DTO validates no more than that.
\* It reads the request, the sheet and the entry, and then what
\* recalculateCanSubmit needs, which sees the decision already written.
DecideRead(w) ==
    /\ At(w, "idle")
    /\ sheet.status # "APPROVED"
    /\ \E c \in Pending, verdict \in TimesheetStatus :
         Goto(w, [Idle EXCEPT
                    !.at = "decide", !.id = c, !.say = verdict,
                    !.pick = {e \in Used : e = corrections[c].entry /\ entries[e].out},
                    !.flag = Submittable(sheet.status,
                               IF verdict = "PENDING" THEN Pending ELSE Pending \ {c})])
    /\ UNCHANGED <<now, cronDue, sheet, entries, corrections, payrolls, refresh>>

\* applyApprovedCorrection writes both times of the entry, the one that is
\* not proposed as it was read.
CorrectedMutant(row, proposes, closed) ==
    [row EXCEPT !.out = proposes = "checkOut", !.status = "PENDING"]
Corrected(row, proposes, closed) ==
    [row EXCEPT !.out = proposes = "checkOut" \/ closed, !.status = "PENDING"]

DecideCommit(w) ==
    /\ At(w, "decide")
    /\ LET c == job[w].id
           applies == job[w].say = "APPROVED" /\ corrections[c].proposes # "nothing"
       IN /\ corrections' = [corrections EXCEPT ![c].status = job[w].say]
          /\ entries' = [e \in EntryIds |->
                           IF applies /\ e = corrections[c].entry
                           THEN Corrected(entries[e], corrections[c].proposes, e \in job[w].pick)
                           ELSE entries[e]]
    /\ sheet' = [sheet EXCEPT !.canSubmit = job[w].flag]
    /\ Finish(w)
    /\ UNCHANGED <<now, cronDue, payrolls, refresh>>

-----------------------------------------------------------------------------
(* Payroll: not in a transaction *)

Payable == {e \in Used : entries[e].status = "APPROVED" /\ entries[e].out}

PayrollReadMutant(w) ==
    /\ At(w, "idle")
    /\ sheet.status # "NONE"
    /\ Goto(w, [Idle EXCEPT !.at = "payroll", !.pick = Payable])
    /\ UNCHANGED <<now, cronDue, sheet, entries, corrections, payrolls, refresh>>

PayrollRead(w) ==
    /\ At(w, "idle")
    /\ sheet.status = "APPROVED"
    /\ Goto(w, [Idle EXCEPT !.at = "payroll", !.pick = Payable])
    /\ UNCHANGED <<now, cronDue, sheet, entries, corrections, payrolls, refresh>>

PayrollLook(w) ==
    /\ At(w, "payroll")
    /\ IF payrolls # <<>> THEN Finish(w)
       ELSE Goto(w, [job[w] EXCEPT !.at = "payroll.write"])
    /\ UNCHANGED <<now, cronDue, sheet, entries, corrections, payrolls, refresh>>

PayrollCreate(w) ==
    /\ At(w, "payroll.write")
    /\ payrolls' = Append(payrolls, job[w].pick)
    /\ Finish(w)
    /\ UNCHANGED <<now, cronDue, sheet, entries, corrections, refresh>>

-----------------------------------------------------------------------------
Step(w) ==
    \/ Abort(w)
    \/ CreateSheet(w)
    \/ \E step \in {"checkIn", "checkOut"} : BeginAttendance(w, step)
    \/ CheckInFindSheet(w) \/ CheckInCreateSheet(w) \/ CheckInLook(w)
    \/ CheckInEntry(w) \/ CheckInSheet(w)
    \/ CheckOutFindSheet(w) \/ CheckOutLook(w) \/ CheckOutEntry(w) \/ CheckOutSheet(w)
    \/ CronList(w) \/ CronMark(w)
    \/ SubmitRead(w) \/ SubmitCommit(w)
    \/ ReviewRead(w) \/ ReviewCommit(w)
    \/ RequestRead(w) \/ RequestCommit(w)
    \/ DecideRead(w) \/ DecideCommit(w)
    \/ PayrollRead(w) \/ PayrollLook(w) \/ PayrollCreate(w)

Refresh(r) == RefreshRead(r) \/ RefreshWrite(r) \/ RefreshFail(r)

Next ==
    \/ NextDay
    \/ \E w \in Workers : Step(w)
    \/ \E r \in Refreshers : Refresh(r)

Spec == Init /\ [][Next]_vars
-----------------------------------------------------------------------------
(* Properties that hold however the handlers interleave *)

\* isSubmitted and status are written by six handlers and always together:
\* no interleaving leaves a sheet submitted in one and not in the other.
FlagsAgree == sheet.isSubmitted <=> sheet.status \in Locked

\* The audit trail: an approved sheet names the reviewer who approved it,
\* even after a stale reopening, resubmission or rejection raced with it.
ApprovedIsSigned == sheet.status = "APPROVED" => sheet.approvedBy \in Reviewers

\* Submission belongs to the window after the period, so a sheet is locked
\* only when its period is over, and never without an entry, although the
\* handlers that lock it decided on a state that may be gone.
LockedAfterPeriod == sheet.status \in Locked => now > PeriodDays /\ Used # {}

\* Nobody is paid for a month whose attendance period is still open, or out
\* of a sheet that was never approved by a reviewer.
PaidAfterPeriod == payrolls # <<>> => now > PeriodDays /\ Used # {}

\* The missed check-out job works from a list that is stale when it writes,
\* but never flags an entry during the entry's own day.
FlaggedAfterItsDay == \A e \in Used : entries[e].status = "MISSING_OUT" => entries[e].day < now

\* What a worker decided on stays true until it writes, although the rest of
\* what it read may not: the period is over, there are entries, and the
\* entries the missed check-out job listed are of past days.
Remembers(w) ==
    /\ job[w].at \in {"submit", "review", "payroll", "payroll.write"} => now > PeriodDays /\ Used # {}
    /\ job[w].at = "cron" => \A e \in job[w].pick : e \in Used /\ entries[e].day < now

\* No worker ever acts on a read whose part it relies on has become false.
DecisionsStayTrue == \A w \in Workers : Remembers(w)

\* The inductive invariant of the concurrent system.
IInv ==
    /\ TypeOK
    /\ FlagsAgree
    /\ ApprovedIsSigned
    /\ LockedAfterPeriod
    /\ PaidAfterPeriod
    /\ FlaggedAfterItsDay
    /\ DecisionsStayTrue

-----------------------------------------------------------------------------
(* Properties that hold when requests are handled one at a time *)

\* "Pending corrections block monthly timesheet submission": a sheet that
\* waits for review or has passed it has no correction waiting for a decision.
SettledWhenLocked == sheet.status \in Locked => Pending = {}

\* Check-in refuses a second entry for the same day.
OneEntryPerDay == \A e, f \in Used : entries[e].day = entries[f].day => e = f

\* Every day that was closed counts: in an approved sheet no entry with a
\* check-out is left out of what payroll pays.
ApprovedDaysPayable ==
    sheet.status = "APPROVED" => \A e \in Used : entries[e].out => e \in Payable

\* A sheet is paid once, and the payroll pays what the sheet says now.
PaidOnceInFull ==
    /\ Len(payrolls) <= 1
    /\ payrolls # <<>> => sheet.status = "APPROVED" /\ payrolls[1] = Payable

\* An approved sheet is final: no attendance, review or submission reopens it.
ApprovedIsFinal == [][sheet.status = "APPROVED" => sheet.status' = "APPROVED"]_sheet

\* A decided correction request is never decided again.
DecidedOnce ==
    [][\A c \in CorrectionIds :
         corrections[c].status \notin {"NONE", "PENDING"} =>
             corrections'[c].status = corrections[c].status]_corrections

\* Requests handled one at a time implement the life of a sheet as SheetLife
\* promises it: neither the missed check-out job, when its turn comes, nor the
\* failures, midnights and canSubmit refreshes that fall between the steps of a
\* request take a month a step that it does not have.
Closed == {e \in Used : entries[e].out}
Answered == [c \in CorrectionIds |-> corrections[c].status]
Life == INSTANCE SheetLife WITH
            Entries <- EntryIds, Requests <- CorrectionIds,
            stage <- sheet.status, signedBy <- sheet.approvedBy, closed <- Closed,
            answers <- Answered, paid <- payrolls
ImplementsSheetLife == Life!Spec

\* A recorded check-out is never erased: an approved correction that moves
\* the check-in does not write back an older, empty check-out.
CheckOutKept == [][\A e \in Used : entries[e].out => entries'[e].out]_entries

-----------------------------------------------------------------------------
(* Why they hold: with one worker nothing that it read has changed when it  *)
(* writes.                                                                  *)

OneAtATime == \A v, w \in Workers : v = w

Undisturbed(w) ==
    /\ job[w].at \in {"checkIn", "checkIn.create", "checkIn.look", "checkIn.write",
                     "checkOut", "checkOut.look", "checkOut.write"}
         => sheet.status \notin Locked /\ job[w].seen \notin Locked
    /\ At(w, "checkIn.write") /\ "entry" \in job[w].todo => EntriesOn(job[w].day) = {}
    /\ At(w, "checkOut.write") => job[w].todo = {"entry"} /\ \E e \in Used : job[w].pick = {e}
    /\ At(w, "cron") => \A e \in job[w].pick : ~entries[e].out
    /\ At(w, "submit") => sheet.status \notin Locked /\ Pending = {}
    /\ At(w, "review") => sheet.status = "SUBMITTED"
    /\ At(w, "request") => sheet.status \notin Locked /\ job[w].what.status = "PENDING"
    /\ At(w, "decide") =>
         /\ sheet.status # "APPROVED"
         /\ job[w].id \in Pending
         /\ job[w].pick = {e \in Used : e = corrections[job[w].id].entry /\ entries[e].out}
    /\ job[w].at \in {"payroll", "payroll.write"} =>
         sheet.status = "APPROVED" /\ job[w].pick = Payable
    /\ At(w, "payroll.write") => payrolls = <<>>

\* A request that is handled alone finds at its last step everything as it
\* was when it decided: midnight, the canSubmit refreshes and the failures
\* that still run beside it change nothing that it relies on.
NothingDisturbed == \A w \in Workers : Undisturbed(w)

\* With IInv, the inductive invariant of requests handled one at a time.
SInv ==
    /\ SettledWhenLocked
    /\ OneEntryPerDay
    /\ ApprovedDaysPayable
    /\ PaidOnceInFull
    /\ NothingDisturbed

-----------------------------------------------------------------------------
(* Statements of the documentation, the messages and the tests that the     *)
(* code does not keep                                                       *)

\* "Payroll for this timesheet already generated": one payroll per sheet.
PaidOnce == Len(payrolls) <= 1

\* "Correction review accepts body { status: approved | rejected }".
VerdictIsApprovedOrRejected ==
    \A c \in CorrectionIds : corrections[c].status # "MISSING_OUT"

\* The mail of the missed check-out job: "you will not be able to submit this
\* month's timesheet until you have explained it".
MissedCheckOutBlocksSubmission ==
    [][sheet.status # "SUBMITTED" /\ sheet.status' = "SUBMITTED" =>
         \A e \in Used : entries[e].status # "MISSING_OUT"]_sheet

\* "locks entries after manager approval": while a sheet stays approved its
\* entries with a check-out do not change.
ApprovalLocksEntries ==
    [][sheet.status = "APPROVED" /\ sheet.status' = "APPROVED" =>
         \A e \in Used : entries[e].out => entries'[e] = entries[e]]_entries
=============================================================================

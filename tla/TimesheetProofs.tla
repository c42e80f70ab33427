-------------------------- MODULE TimesheetProofs --------------------------
(* Theorems about Timesheet, for every value of its constants.  The first    *)
(* part holds however requests interleave; the second when requests are     *)
(* handled one at a time, while refreshes, midnight and failures still       *)
(* interleave with the one worker.                                           *)
EXTENDS Timesheet, TLAPS

-----------------------------------------------------------------------------
(* Type correctness *)

\* An idle worker has the type of a job.
LEMMA IdleIsJob == Idle \in Job
  BY BoundsAssumption DEF Idle, Job, Steps, SheetStatus, TimesheetStatus, NoCorrection,
     CorrectionRow, None

\* A worker that moves to a well-typed job leaves job well typed.
LEMMA GotoType ==
  ASSUME job \in [Workers -> Job], NEW w \in Workers, NEW next \in Job, Goto(w, next)
  PROVE  job' \in [Workers -> Job]
  BY DEF Goto

\* A worker that finishes leaves job well typed.
LEMMA FinishType ==
  ASSUME job \in [Workers -> Job], NEW w \in Workers, Finish(w)
  PROVE  job' \in [Workers -> Job]
  BY IdleIsJob, GotoType DEF Finish

\* So does one that has done one of its two statements.
LEMMA PartDoneType ==
  ASSUME job \in [Workers -> Job], NEW w \in Workers,
         NEW part \in {"entry", "sheet"}, PartDone(w, part)
  PROVE  job' \in [Workers -> Job]
<1>1. job[w] \in Job
  OBVIOUS
<1>2. [job[w] EXCEPT !.todo = @ \ {part}] \in Job
  BY <1>1 DEF Job
<1>3. QED
  BY <1>2, IdleIsJob, GotoType DEF PartDone

\* The rows that check-in, check-out and the creation write are well typed.
LEMMA SheetRows ==
  /\ DraftSheet \in SheetRow
  /\ NoSheet \in SheetRow
  /\ \A row \in SheetRow : Reopened(row) \in SheetRow
  BY DEF DraftSheet, NoSheet, Reopened, SheetRow, SheetStatus

\* Every step of the system keeps the types.
LEMMA TypeStep ==
  ASSUME TypeOK, [Next]_vars
  PROVE  TypeOK'
<1> USE DEF TypeOK
<1>1. CASE NextDay
  BY <1>1, BoundsAssumption DEF NextDay
<1>2. ASSUME NEW r \in Refreshers, Refresh(r) PROVE TypeOK'
  BY <1>2 DEF Refresh, RefreshRead, RefreshWrite, RefreshFail, SheetRow
<1>3. ASSUME NEW w \in Workers, Step(w) PROVE TypeOK'
  <2> job[w] \in Job
    OBVIOUS
  <2>1. CASE Abort(w)
    BY <2>1, FinishType DEF Abort
  <2>2. CASE CreateSheet(w)
    BY <2>2, SheetRows DEF CreateSheet
  <2>3. ASSUME NEW step \in {"checkIn", "checkOut"}, BeginAttendance(w, step)
        PROVE  TypeOK'
    <3> now \in 0..PeriodDays
      BY <2>3, BoundsAssumption DEF BeginAttendance, InPeriod
    <3>1. [Idle EXCEPT !.at = step, !.day = now] \in Job
      BY IdleIsJob DEF Job, Steps
    <3>2. QED
      BY <2>3, <3>1, GotoType DEF BeginAttendance
  <2>4. CASE CheckInFindSheet(w)
    <3>1. [job[w] EXCEPT
                !.at = IF sheet.status = "NONE" THEN "checkIn.create" ELSE "checkIn.look",
                !.seen = sheet.status] \in Job
      BY DEF Job, Steps, SheetRow
    <3>2. QED
      BY <2>4, <3>1, GotoType DEF CheckInFindSheet
  <2>5. CASE CheckInCreateSheet(w)
    <3>1. [job[w] EXCEPT !.at = "checkIn.look"] \in Job
      BY DEF Job, Steps
    <3>2. QED
      BY <2>5, <3>1, GotoType, SheetRows DEF CheckInCreateSheet
  <2>6. CASE CheckInLook(w)
    <3>1. [job[w] EXCEPT
              !.at = "checkIn.write",
              !.todo = IF job[w].seen = "NONE" THEN {"entry"} ELSE {"entry", "sheet"}] \in Job
      BY DEF Job, Steps
    <3>2. job' \in [Workers -> Job]
      BY <2>6, <3>1, GotoType, FinishType DEF CheckInLook
    <3>3. QED
      BY <2>6, <3>2 DEF CheckInLook
  <2>7. CASE CheckInEntry(w)
    <3>1. entries' \in [EntryIds -> EntryRow]
      BY <2>7 DEF CheckInEntry, EntryRow, TimesheetStatus, Job
    <3>2. QED
      BY <2>7, <3>1, PartDoneType DEF CheckInEntry
  <2>8. CASE CheckInSheet(w)
    <3>1. sheet' \in SheetRow
      BY <2>8, SheetRows DEF CheckInSheet, SheetRow
    <3>2. QED
      BY <2>8, <3>1, PartDoneType DEF CheckInSheet
  <2>9. CASE CheckOutFindSheet(w)
    <3>1. [job[w] EXCEPT !.at = "checkOut.look", !.seen = sheet.status] \in Job
      BY DEF Job, Steps, SheetRow
    <3>2. job' \in [Workers -> Job]
      BY <2>9, <3>1, GotoType, FinishType DEF CheckOutFindSheet
    <3>3. QED
      BY <2>9, <3>2 DEF CheckOutFindSheet
  <2>25. CASE CheckOutLook(w)
    <3>1. \A e \in Used :
            [job[w] EXCEPT !.at = "checkOut.write", !.pick = {e},
               !.todo = IF job[w].seen \in Locked THEN {"entry", "sheet"} ELSE {"entry"}] \in Job
      BY DEF Job, Steps, Used
    <3>2. job' \in [Workers -> Job]
      BY <2>25, <3>1, GotoType, FinishType DEF CheckOutLook, EntriesOn
    <3>3. QED
      BY <2>25, <3>2 DEF CheckOutLook
  <2>10. CASE CheckOutEntry(w)
    <3>1. entries' \in [EntryIds -> EntryRow]
      BY <2>10 DEF CheckOutEntry, EntryRow
    <3>2. QED
      BY <2>10, <3>1, PartDoneType DEF CheckOutEntry, CheckOutDone
  <2>11. CASE CheckOutSheet(w)
    BY <2>11, SheetRows, PartDoneType DEF CheckOutSheet, CheckOutDone
  <2>12. CASE CronList(w)
    <3> DEFINE missed == {e \in Used : /\ entries[e].day < now
                                       /\ ~entries[e].out
                                       /\ entries[e].status # "MISSING_OUT"}
    <3>1. [Idle EXCEPT !.at = "cron", !.pick = missed] \in Job
      BY IdleIsJob DEF Job, Steps, Used
    <3>2. job' \in [Workers -> Job]
      BY <2>12, <3>1, GotoType DEF CronList
    <3>3. QED
      BY <2>12, <3>2 DEF CronList
  <2>13. CASE CronMark(w)
    <3>1. entries' \in [EntryIds -> EntryRow]
      <4>1. PICK e : entries' = [entries EXCEPT ![e].status = "MISSING_OUT"]
        BY <2>13 DEF CronMark
      <4>2. \A row \in EntryRow : [row EXCEPT !.status = "MISSING_OUT"] \in EntryRow
        BY DEF EntryRow, TimesheetStatus
      <4>3. QED
        BY <4>1, <4>2
    <3>2. \A e \in EntryIds : [job[w] EXCEPT !.pick = @ \ {e}] \in Job
      BY DEF Job
    <3>3. job' \in [Workers -> Job]
      BY <2>13, <3>2, GotoType, IdleIsJob DEF CronMark, Job
    <3>4. sheet' \in SheetRow
      BY <2>13 DEF CronMark, SheetRow
    <3>5. QED
      BY <2>13, <3>1, <3>3, <3>4 DEF CronMark
  <2>14. CASE SubmitRead(w)
    <3>1. [Idle EXCEPT !.at = "submit"] \in Job
      BY IdleIsJob DEF Job, Steps
    <3>2. QED
      BY <2>14, <3>1, GotoType DEF SubmitRead
  <2>15. CASE SubmitCommit(w)
    <3>1. sheet' \in SheetRow
      BY <2>15 DEF SubmitCommit, SheetRow, SheetStatus
    <3>2. QED
      BY <2>15, <3>1, FinishType DEF SubmitCommit
  <2>16. CASE ReviewRead(w)
    <3>1. \A accept \in BOOLEAN : [Idle EXCEPT !.at = "review", !.flag = accept] \in Job
      BY IdleIsJob DEF Job, Steps
    <3>2. job' \in [Workers -> Job]
      BY <2>16, <3>1, GotoType DEF ReviewRead
    <3>3. QED
      BY <2>16, <3>2 DEF ReviewRead
  <2>17. CASE ReviewCommit(w)
    <3>1. sheet' \in SheetRow
      BY <2>17 DEF ReviewCommit, SheetRow, SheetStatus, Submittable, Job
    <3>2. entries' \in [EntryIds -> EntryRow]
      BY <2>17 DEF ReviewCommit, SettledBy, EntryRow, TimesheetStatus
    <3>3. QED
      BY <2>17, <3>1, <3>2, FinishType DEF ReviewCommit
  <2>18. CASE RequestRead(w)
    <3>1. \A e \in Used \cup {None}, p \in {"nothing", "checkIn", "checkOut"} :
            [Idle EXCEPT !.at = "request",
                         !.what = [status |-> "PENDING", entry |-> e, proposes |-> p]] \in Job
      BY IdleIsJob DEF Job, Steps, CorrectionRow, TimesheetStatus, Used
    <3>2. job' \in [Workers -> Job]
      BY <2>18, <3>1, GotoType DEF RequestRead
    <3>3. QED
      BY <2>18, <3>2 DEF RequestRead
  <2>19. CASE RequestCommit(w)
    <3>1. corrections' \in [CorrectionIds -> CorrectionRow]
      BY <2>19 DEF RequestCommit, Job
    <3>2. sheet' \in SheetRow
      BY <2>19 DEF RequestCommit, SheetRow
    <3>3. QED
      BY <2>19, <3>1, <3>2, FinishType DEF RequestCommit
  <2>20. CASE DecideRead(w)
    <3>1. \A c \in CorrectionIds, verdict \in TimesheetStatus,
            closed \in SUBSET EntryIds, ok \in BOOLEAN :
            [Idle EXCEPT !.at = "decide", !.id = c, !.say = verdict,
                         !.pick = closed, !.flag = ok] \in Job
      BY IdleIsJob DEF Job, Steps
    <3>2. job' \in [Workers -> Job]
      BY <2>20, <3>1, GotoType DEF DecideRead, Pending, Used, Submittable
    <3>3. QED
      BY <2>20, <3>2 DEF DecideRead
  <2>21. CASE DecideCommit(w)
    <3>1. corrections' \in [CorrectionIds -> CorrectionRow]
      <4>1. corrections' = [corrections EXCEPT ![job[w].id].status = job[w].say]
        BY <2>21 DEF DecideCommit
      <4>2. \A row \in CorrectionRow : [row EXCEPT !.status = job[w].say] \in CorrectionRow
        BY DEF CorrectionRow, Job
      <4>3. QED
        BY <4>1, <4>2
    <3>2. entries' \in [EntryIds -> EntryRow]
      BY <2>21 DEF DecideCommit, Corrected, EntryRow, TimesheetStatus
    <3>3. sheet' \in SheetRow
      BY <2>21 DEF DecideCommit, SheetRow, Job
    <3>4. QED
      BY <2>21, <3>1, <3>2, <3>3, FinishType DEF DecideCommit
  <2>22. CASE PayrollRead(w)
    <3>1. [Idle EXCEPT !.at = "payroll", !.pick = Payable] \in Job
      BY IdleIsJob DEF Job, Steps, Payable, Used
    <3>2. QED
      BY <2>22, <3>1, GotoType DEF PayrollRead
  <2>26. CASE PayrollLook(w)
    <3>1. [job[w] EXCEPT !.at = "payroll.write"] \in Job
      BY DEF Job, Steps
    <3>2. job' \in [Workers -> Job]
      BY <2>26, <3>1, GotoType, FinishType DEF PayrollLook
    <3>3. QED
      BY <2>26, <3>2 DEF PayrollLook
  <2>23. CASE PayrollCreate(w)
    <3>1. payrolls' \in Seq(SUBSET EntryIds)
      BY <2>23 DEF PayrollCreate, Job
    <3>2. QED
      BY <2>23, <3>1, FinishType DEF PayrollCreate
  <2>24. QED
    BY <1>3, <2>1, <2>2, <2>3, <2>4, <2>5, <2>6, <2>7, <2>8, <2>9, <2>10, <2>11, <2>12,
       <2>13, <2>14, <2>15, <2>16, <2>17, <2>18, <2>19, <2>20, <2>21, <2>22, <2>23, <2>25,
       <2>26
       DEF Step
<1>4. CASE UNCHANGED vars
  BY <1>4 DEF vars
<1>5. QED
  BY <1>1, <1>2, <1>3, <1>4 DEF Next

\* The initial state is well typed.
LEMMA InitType ==
  ASSUME Init
  PROVE  TypeOK
<1>1. now \in 1..(Horizon + 1) /\ cronDue \in BOOLEAN /\ sheet \in SheetRow
  <2>1. 1 \in 1..(Horizon + 1)
    BY BoundsAssumption
  <2>2. QED
    BY <2>1, SheetRows DEF Init
<1>2. entries \in [EntryIds -> EntryRow]
  BY BoundsAssumption DEF Init, EntryRow, TimesheetStatus
<1>3. corrections \in [CorrectionIds -> CorrectionRow]
  BY DEF Init, CorrectionRow, NoCorrection
<1>4. job \in [Workers -> Job]
  BY IdleIsJob DEF Init
<1>5. QED
  BY <1>1, <1>2, <1>3, <1>4 DEF Init, TypeOK

\* Every variable keeps its type, whatever the handlers do.
THEOREM TypeCorrect == Spec => []TypeOK
<1>1. Init => TypeOK
  BY InitType
<1>2. TypeOK /\ [Next]_vars => TypeOK'
  BY TypeStep
<1>3. QED
  BY <1>1, <1>2, PTL DEF Spec

-----------------------------------------------------------------------------
(* What holds however the handlers interleave *)

\* Rows of timesheet_entries are never deleted and never move to another
\* day, and time does not go back: what a worker learnt of them stays true.
LEMMA EntriesStay ==
  ASSUME TypeOK, [Next]_vars
  PROVE  /\ now' >= now
         /\ Used \subseteq Used'
         /\ \A e \in Used : entries'[e].day = entries[e].day
<1> USE DEF TypeOK, Used
<1>1. now \in Nat /\ now' >= now
  <2>1. now \in Nat
    BY BoundsAssumption
  <2>2. now' = now \/ now' = now + 1
    BY DEF Next, NextDay, Refresh, RefreshRead, RefreshWrite, RefreshFail, Step, vars,
       Abort, CreateSheet, BeginAttendance, CheckInFindSheet, CheckInCreateSheet,
       CheckInLook, CheckInEntry, CheckInSheet, CheckOutFindSheet, CheckOutLook,
       CheckOutEntry, CheckOutSheet, CronList, CronMark, SubmitRead, SubmitCommit,
       ReviewRead, ReviewCommit, RequestRead, RequestCommit, DecideRead, DecideCommit,
       PayrollRead, PayrollLook, PayrollCreate
  <2>3. QED
    BY <2>1, <2>2
<1>2. CASE UNCHANGED entries
  BY <1>1, <1>2
<1>3. ASSUME NEW w \in Workers, CheckInEntry(w) PROVE \A e \in Used : entries'[e].day = entries[e].day
  BY <1>3 DEF CheckInEntry
<1>4. ASSUME NEW w \in Workers, CheckOutEntry(w) PROVE \A e \in Used : entries'[e].day = entries[e].day
  BY <1>4 DEF CheckOutEntry, EntryRow
<1>5. ASSUME NEW w \in Workers, CronMark(w) PROVE \A e \in Used : entries'[e].day = entries[e].day
  BY <1>5 DEF CronMark, EntryRow
<1>6. ASSUME NEW w \in Workers, ReviewCommit(w) PROVE \A e \in Used : entries'[e].day = entries[e].day
  BY <1>6 DEF ReviewCommit, SettledBy, EntryRow
<1>7. ASSUME NEW w \in Workers, DecideCommit(w) PROVE \A e \in Used : entries'[e].day = entries[e].day
  BY <1>7 DEF DecideCommit, Corrected, EntryRow
<1>8. \/ UNCHANGED entries
      \/ \E w \in Workers : \/ CheckInEntry(w) \/ CheckOutEntry(w) \/ CronMark(w)
                            \/ ReviewCommit(w) \/ DecideCommit(w)
  BY DEF Next, NextDay, Refresh, RefreshRead, RefreshWrite, RefreshFail, Step, vars,
     Abort, CreateSheet, BeginAttendance, CheckInFindSheet, CheckInCreateSheet, CheckInLook,
     CheckInSheet, CheckOutFindSheet, CheckOutLook, CheckOutSheet, CronList,
     SubmitRead, SubmitCommit, ReviewRead, RequestRead, RequestCommit, DecideRead,
     PayrollRead, PayrollLook, PayrollCreate
<1>9. \A e \in Used : entries'[e].day = entries[e].day
  BY <1>2, <1>3, <1>4, <1>5, <1>6, <1>7, <1>8
<1>10. QED
  BY <1>1, <1>9

\* A step of one worker leaves what the others are doing alone.
LEMMA OthersWait ==
  ASSUME TypeOK, NEW w \in Workers, Step(w), NEW v \in Workers, v # w
  PROVE  job'[v] = job[v]
BY DEF TypeOK, Step, Goto, Finish, PartDone, CheckOutDone,
   Abort, CreateSheet, BeginAttendance, CheckInFindSheet, CheckInCreateSheet, CheckInLook,
   CheckInEntry, CheckInSheet, CheckOutFindSheet, CheckOutLook, CheckOutEntry,
   CheckOutSheet, CronList, CronMark, SubmitRead, SubmitCommit, ReviewRead, ReviewCommit,
   RequestRead, RequestCommit, DecideRead, DecideCommit, PayrollRead, PayrollLook,
   PayrollCreate

\* The six handlers that write the sheet keep its flags, its signature and its
\* lock consistent, whatever happened between their read and their write.
LEMMA SheetStep ==
  ASSUME IInv, [Next]_vars
  PROVE  (FlagsAgree /\ ApprovedIsSigned /\ LockedAfterPeriod)'
<1> USE DEF IInv, DecisionsStayTrue, FlagsAgree, ApprovedIsSigned, LockedAfterPeriod, TypeOK, Locked, SheetRow
<1>1. /\ now \in Nat /\ now' \in Nat /\ PeriodDays \in Nat
      /\ now' >= now /\ Used \subseteq Used'
  BY EntriesStay, TypeStep, BoundsAssumption
<1>2. CASE \/ UNCHANGED sheet
           \/ sheet' = [sheet EXCEPT !.canSubmit = sheet'.canSubmit]
  BY <1>1, <1>2
<1>3. CASE sheet' = DraftSheet \/ sheet' = Reopened(sheet)
  <2>1. sheet'.status = "DRAFT" /\ ~sheet'.isSubmitted
    <3>1. CASE sheet' = DraftSheet
      BY <3>1 DEF DraftSheet
    <3>2. CASE sheet' = Reopened(sheet)
      BY <3>2 DEF Reopened
    <3>3. QED
      BY <1>3, <3>1, <3>2
  <2>2. QED
    BY <2>1
<1>4. ASSUME NEW w \in Workers, SubmitCommit(w)
      PROVE  (FlagsAgree /\ ApprovedIsSigned /\ LockedAfterPeriod)'
  BY <1>1, <1>4 DEF SubmitCommit, At, Remembers
<1>5. ASSUME NEW w \in Workers, ReviewCommit(w)
      PROVE  (FlagsAgree /\ ApprovedIsSigned /\ LockedAfterPeriod)'
  BY <1>1, <1>5 DEF ReviewCommit, At, Remembers, Job
<1>6. QED
  BY <1>2, <1>3, <1>4, <1>5
     DEF Next, NextDay, Refresh, RefreshRead, RefreshWrite, RefreshFail, Step, vars,
        Abort, CreateSheet, BeginAttendance, CheckInFindSheet, CheckInCreateSheet,
        CheckInLook, CheckInEntry, CheckInSheet, CheckOutFindSheet, CheckOutLook,
        CheckOutEntry, CheckOutSheet, CronList, CronMark, SubmitRead, ReviewRead,
        RequestRead, RequestCommit, DecideRead, DecideCommit, PayrollRead, PayrollLook,
        PayrollCreate

\* Only the missed check-out job flags, and only entries of past days.
LEMMA FlaggedStep ==
  ASSUME IInv, [Next]_vars
  PROVE  FlaggedAfterItsDay'
<1> USE DEF IInv, DecisionsStayTrue, FlaggedAfterItsDay, TypeOK
<1>1. /\ now \in Nat /\ now' \in Nat /\ now' >= now
      /\ \A e \in EntryIds : entries[e].day \in Nat /\ entries'[e].day \in Nat
  BY EntriesStay, TypeStep, BoundsAssumption DEF EntryRow
<1>2. \A e \in EntryIds :
        entries'[e].day = entries[e].day /\ entries'[e].status = entries[e].status
           => (e \in Used' /\ entries'[e].status = "MISSING_OUT" => entries'[e].day < now')
  <2> SUFFICES ASSUME NEW e \in EntryIds, e \in Used', entries'[e].status = "MISSING_OUT",
                      entries'[e].day = entries[e].day, entries'[e].status = entries[e].status
               PROVE  entries'[e].day < now'
    OBVIOUS
  <2>1. e \in Used
    BY DEF Used
  <2>2. entries[e].day < now
    BY <2>1
  <2>3. QED
    BY <1>1, <2>2
<1>3. CASE UNCHANGED entries
  BY <1>2, <1>3 DEF Used
<1>4. ASSUME NEW w \in Workers, CheckInEntry(w) PROVE FlaggedAfterItsDay'
  BY <1>2, <1>4 DEF CheckInEntry, Used
<1>5. ASSUME NEW w \in Workers, CheckOutEntry(w) PROVE FlaggedAfterItsDay'
  <2>1. \A e \in EntryIds : entries'[e].day = entries[e].day /\ entries'[e].status = entries[e].status
    BY <1>5 DEF CheckOutEntry, EntryRow
  <2>2. QED
    BY <1>2, <2>1 DEF Used
<1>6. ASSUME NEW w \in Workers, CronMark(w) PROVE FlaggedAfterItsDay'
  <2>1. PICK e \in job[w].pick : entries' = [entries EXCEPT ![e].status = "MISSING_OUT"]
    BY <1>6 DEF CronMark
  <2>2. e \in EntryIds /\ entries[e].day < now
    BY <1>6, <2>1 DEF CronMark, At, Remembers, Used
  <2>3. \A f \in EntryIds : entries'[f].day = entries[f].day
                           /\ (f # e => entries'[f].status = entries[f].status)
    BY <2>1 DEF EntryRow
  <2>4. entries'[e].day < now'
    BY <1>1, <2>2, <2>3
  <2>5. QED
    BY <1>2, <2>3, <2>4 DEF Used
<1>7. ASSUME NEW w \in Workers, ReviewCommit(w) PROVE FlaggedAfterItsDay'
  <2>1. \A e \in EntryIds : /\ entries'[e].day = entries[e].day
                           /\ entries'[e].status \in {entries[e].status, "APPROVED", "PENDING"}
    BY <1>7 DEF ReviewCommit, SettledBy, EntryRow
  <2>2. QED
    BY <1>2, <2>1 DEF Used
<1>8. ASSUME NEW w \in Workers, DecideCommit(w) PROVE FlaggedAfterItsDay'
  <2>1. \A e \in EntryIds : /\ entries'[e].day = entries[e].day
                           /\ entries'[e].status \in {entries[e].status, "PENDING"}
    <3>1. ASSUME NEW e \in EntryIds, NEW proposes, NEW closed
          PROVE  /\ Corrected(entries[e], proposes, closed).day = entries[e].day
                 /\ Corrected(entries[e], proposes, closed).status = "PENDING"
      BY DEF Corrected, EntryRow
    <3>2. ASSUME NEW e \in EntryIds
          PROVE  \/ entries'[e] = entries[e]
                 \/ \E proposes, closed : entries'[e] = Corrected(entries[e], proposes, closed)
      BY <1>8 DEF DecideCommit
    <3>3. QED
      BY <3>1, <3>2
  <2>2. QED
    BY <1>2, <2>1 DEF Used
<1>9. QED
  BY <1>3, <1>4, <1>5, <1>6, <1>7, <1>8
     DEF Next, NextDay, Refresh, RefreshRead, RefreshWrite, RefreshFail, Step, vars,
     Abort, CreateSheet, BeginAttendance, CheckInFindSheet, CheckInCreateSheet, CheckInLook,
     CheckInSheet, CheckOutFindSheet, CheckOutLook, CheckOutSheet, CronList,
     SubmitRead, SubmitCommit, ReviewRead, RequestRead, RequestCommit, DecideRead,
     PayrollRead, PayrollLook, PayrollCreate

\* A payroll is created from a read of an approved sheet, hence after the period.
LEMMA PaidStep ==
  ASSUME IInv, [Next]_vars
  PROVE  PaidAfterPeriod'
<1> USE DEF IInv, DecisionsStayTrue, PaidAfterPeriod
<1>1. /\ now \in Nat /\ now' \in Nat /\ PeriodDays \in Nat
      /\ now' >= now /\ Used \subseteq Used'
  BY EntriesStay, TypeStep, BoundsAssumption DEF TypeOK
<1>2. CASE UNCHANGED payrolls
  BY <1>1, <1>2
<1>3. ASSUME NEW w \in Workers, PayrollCreate(w) PROVE PaidAfterPeriod'
  BY <1>1, <1>3 DEF PayrollCreate, At, Remembers
<1>4. QED
  BY <1>2, <1>3
     DEF Next, NextDay, Refresh, RefreshRead, RefreshWrite, RefreshFail, Step, vars,
        Abort, CreateSheet, BeginAttendance, CheckInFindSheet, CheckInCreateSheet,
        CheckInLook, CheckInEntry, CheckInSheet, CheckOutFindSheet, CheckOutLook,
        CheckOutEntry, CheckOutSheet, CronList, CronMark, SubmitRead, SubmitCommit,
        ReviewRead, ReviewCommit, RequestRead, RequestCommit, DecideRead, DecideCommit,
        PayrollRead, PayrollLook

\* What a worker relies on when it writes stays true under every step.
LEMMA RemembersStep ==
  ASSUME IInv, [Next]_vars, NEW v \in Workers
  PROVE  Remembers(v)'
<1> USE DEF IInv, DecisionsStayTrue
<1>1. /\ now \in Nat /\ now' \in Nat /\ PeriodDays \in Nat
      /\ now' >= now /\ Used \subseteq Used'
      /\ \A e \in Used : entries'[e].day = entries[e].day /\ entries[e].day \in Nat
  BY EntriesStay, TypeStep, BoundsAssumption DEF TypeOK, EntryRow, Used
<1>2. CASE job'[v] = job[v]
  BY <1>1, <1>2 DEF Remembers
<1>3. CASE job'[v].at \notin {"submit", "review", "payroll", "payroll.write", "cron"}
  BY <1>3 DEF Remembers
<1>4. CASE SubmitRead(v)
  <2>1. job'[v].at = "submit" /\ now > PeriodDays /\ Used # {}
    BY <1>1, <1>4 DEF SubmitRead, InWindow, Submittable, Goto, TypeOK, Idle
  <2>2. QED
    BY <1>1, <2>1 DEF Remembers
<1>5. CASE ReviewRead(v)
  <2>1. job'[v].at = "review" /\ now > PeriodDays /\ Used # {}
    BY <1>5 DEF ReviewRead, FlagsAgree, LockedAfterPeriod, Goto, TypeOK, Idle
  <2>2. QED
    BY <1>1, <2>1 DEF Remembers
<1>6. CASE PayrollRead(v)
  <2>1. job'[v].at = "payroll" /\ now > PeriodDays /\ Used # {}
    BY <1>6 DEF PayrollRead, LockedAfterPeriod, Locked, Goto, TypeOK, Idle
  <2>2. QED
    BY <1>1, <2>1 DEF Remembers
<1>12. CASE PayrollLook(v)
  <2>1. job'[v].at # "idle" => job'[v].at = "payroll.write"
    BY <1>12 DEF PayrollLook, Finish, Goto, TypeOK, Job, Idle
  <2>2. now > PeriodDays /\ Used # {}
    BY <1>12 DEF PayrollLook, At, Remembers
  <2>3. QED
    BY <1>1, <2>1, <2>2 DEF Remembers
<1>7. CASE CronList(v)
  <2>1. job'[v] = job[v] \/
          /\ job'[v].at = "cron"
          /\ \A e \in job'[v].pick : e \in Used /\ entries[e].day < now
    <3> DEFINE missed == {e \in Used : /\ entries[e].day < now
                                       /\ ~entries[e].out
                                       /\ entries[e].status # "MISSING_OUT"}
    <3>1. UNCHANGED job \/ job' = [job EXCEPT ![v] = [Idle EXCEPT !.at = "cron", !.pick = missed]]
      BY <1>7 DEF CronList, Goto
    <3>2. [Idle EXCEPT !.at = "cron", !.pick = missed].at = "cron"
      BY DEF Idle
    <3>3. [Idle EXCEPT !.at = "cron", !.pick = missed].pick = missed
      BY DEF Idle
    <3>4. QED
      BY <3>1, <3>2, <3>3 DEF TypeOK
  <2>2. QED
    BY <1>1, <1>2, <2>1 DEF Remembers
<1>8. CASE CronMark(v)
  <2>1. job'[v].at # "idle" => job'[v].at = "cron" /\ job'[v].pick \subseteq job[v].pick
    BY <1>8 DEF CronMark, At, Goto, TypeOK, Job, Idle
  <2>2. \A e \in job[v].pick : e \in Used /\ entries[e].day < now
    BY <1>8 DEF CronMark, At, Remembers
  <2>3. QED
    BY <1>1, <2>1, <2>2 DEF Remembers
<1>9. ASSUME NEW w \in Workers, Step(w), w # v PROVE job'[v] = job[v]
  BY <1>9, OthersWait
<1>10. ASSUME Step(v),
              ~SubmitRead(v), ~ReviewRead(v), ~PayrollRead(v), ~PayrollLook(v),
              ~CronList(v), ~CronMark(v)
       PROVE  job'[v] = job[v] \/ job'[v].at \notin {"submit", "review", "payroll", "payroll.write", "cron"}
  <2> USE DEF TypeOK, Job, At, Goto
  <2> DEFINE elsewhere == job'[v] = job[v] \/ job'[v].at \notin {"submit", "review", "payroll", "payroll.write", "cron"}
  <2>1. CASE Finish(v)
    BY <2>1 DEF Finish, Idle
  <2>2. ASSUME NEW part \in {"entry", "sheet"}, PartDone(v, part),
               At(v, "checkIn.write") \/ At(v, "checkOut.write")
        PROVE  elsewhere
    BY <2>2 DEF PartDone, Idle
  <2>3. CASE Abort(v) \/ SubmitCommit(v) \/ ReviewCommit(v) \/ RequestCommit(v)
             \/ DecideCommit(v) \/ PayrollCreate(v) \/ CreateSheet(v)
    BY <2>1, <2>3 DEF Abort, SubmitCommit, ReviewCommit, RequestCommit, DecideCommit,
                      PayrollCreate, CreateSheet
  <2>4. CASE CheckInEntry(v) \/ CheckInSheet(v) \/ CheckOutEntry(v) \/ CheckOutSheet(v)
    BY <2>2, <2>4 DEF CheckInEntry, CheckInSheet, CheckOutEntry, CheckOutSheet, CheckOutDone
  <2>5. CASE \/ CheckInFindSheet(v) \/ CheckInCreateSheet(v) \/ CheckInLook(v)
             \/ CheckOutFindSheet(v) \/ CheckOutLook(v)
    <3> job[v] \in Job
      OBVIOUS
    <3>1. CASE CheckInFindSheet(v)
      <4>1. \A s, x : [job[v] EXCEPT !.at = s, !.seen = x].at = s
        OBVIOUS
      <4>2. job'[v].at \in {"checkIn.create", "checkIn.look"}
        BY <3>1, <4>1 DEF CheckInFindSheet
      <4>3. QED
        BY <4>2
    <3>2. CASE CheckInCreateSheet(v)
      BY <3>2 DEF CheckInCreateSheet
    <3>3. CASE CheckInLook(v)
      <4>1. \A x : [job[v] EXCEPT !.at = "checkIn.write", !.todo = x].at = "checkIn.write"
        OBVIOUS
      <4>2. CASE EntriesOn(job[v].day) # {}
        BY <2>1, <3>3, <4>2 DEF CheckInLook
      <4>3. CASE EntriesOn(job[v].day) = {}
        <5>1. job' = [job EXCEPT ![v] =
                        [job[v] EXCEPT
                           !.at = "checkIn.write",
                           !.todo = IF job[v].seen = "NONE" THEN {"entry"} ELSE {"entry", "sheet"}]]
          BY <3>3, <4>3 DEF CheckInLook
        <5>2. QED
          BY <4>1, <5>1
      <4>4. QED
        BY <4>2, <4>3
    <3>4. CASE CheckOutLook(v)
      <4>1. \A x, z : [job[v] EXCEPT !.at = "checkOut.write", !.pick = x,
                                     !.todo = z].at = "checkOut.write"
        OBVIOUS
      <4>2. CASE Finish(v)
        BY <2>1, <4>2
      <4>3. CASE ~Finish(v)
        <5>1. \E e \in EntryIds :
                job' = [job EXCEPT ![v] =
                  [job[v] EXCEPT
                     !.at = "checkOut.write", !.pick = {e},
                     !.todo = IF job[v].seen \in Locked THEN {"entry", "sheet"} ELSE {"entry"}]]
          BY <3>4, <4>3 DEF CheckOutLook, EntriesOn, Used
        <5>2. QED
          BY <4>1, <5>1
      <4>4. QED
        BY <4>2, <4>3
    <3>5. CASE CheckOutFindSheet(v)
      <4>1. \A x : [job[v] EXCEPT !.at = "checkOut.look", !.seen = x].at = "checkOut.look"
        OBVIOUS
      <4>2. CASE sheet.status = "NONE"
        BY <2>1, <3>5, <4>2 DEF CheckOutFindSheet
      <4>3. CASE sheet.status # "NONE"
        <5>1. job' = [job EXCEPT ![v] = [job[v] EXCEPT !.at = "checkOut.look",
                                                       !.seen = sheet.status]]
          BY <3>5, <4>3 DEF CheckOutFindSheet
        <5>2. QED
          BY <4>1, <5>1
      <4>4. QED
        BY <4>2, <4>3
    <3>6. QED
      BY <2>5, <3>1, <3>2, <3>3, <3>4, <3>5
  <2>6. ASSUME NEW step \in {"checkIn", "checkOut"}, BeginAttendance(v, step) PROVE elsewhere
    BY <2>6 DEF BeginAttendance, Idle
  <2>7. CASE RequestRead(v) \/ DecideRead(v)
    <3>1. \A c : [Idle EXCEPT !.at = "request", !.what = c].at = "request"
      BY DEF Idle
    <3>2. \A c, verdict, closed, ok :
            [Idle EXCEPT !.at = "decide", !.id = c, !.say = verdict,
                         !.pick = closed, !.flag = ok].at = "decide"
      BY DEF Idle
    <3>3. CASE RequestRead(v)
      BY <3>1, <3>3 DEF RequestRead
    <3>4. CASE DecideRead(v)
      BY <3>2, <3>4 DEF DecideRead
    <3>5. QED
      BY <2>7, <3>3, <3>4
  <2>8. QED
    BY <1>10, <2>3, <2>4, <2>5, <2>6, <2>7 DEF Step
<1>11. QED
  BY <1>2, <1>3, <1>4, <1>5, <1>6, <1>7, <1>8, <1>9, <1>10, <1>12
     DEF Next, NextDay, Refresh, RefreshRead, RefreshWrite, RefreshFail, vars

\* The invariant of the concurrent system, for any number of workers and
\* refreshes, any length of period and window, any reviewers.
THEOREM Concurrent == Spec => []IInv
<1>1. Init => IInv
  <2> SUFFICES ASSUME Init PROVE IInv
    OBVIOUS
  <2>1. TypeOK
    BY InitType
  <2>2. QED
    BY <2>1 DEF Init, IInv, FlagsAgree, ApprovedIsSigned, LockedAfterPeriod,
       PaidAfterPeriod, FlaggedAfterItsDay, DecisionsStayTrue, Remembers, Locked, NoSheet,
       DraftSheet, Idle, Used
<1>2. IInv /\ [Next]_vars => IInv'
  BY TypeStep, SheetStep, FlaggedStep, PaidStep, RemembersStep DEF IInv, DecisionsStayTrue
<1>3. QED
  BY <1>1, <1>2, PTL DEF Spec

\* isSubmitted and status agree under every interleaving of the handlers.
THEOREM FlagsAlwaysAgree == Spec => []FlagsAgree
<1>1. IInv => FlagsAgree
  BY DEF IInv
<1>2. QED
  BY <1>1, Concurrent, PTL

\* An approved sheet names its reviewer under every interleaving.
THEOREM ApprovalIsSigned == Spec => []ApprovedIsSigned
<1>1. IInv => ApprovedIsSigned
  BY DEF IInv
<1>2. QED
  BY <1>1, Concurrent, PTL

\* A sheet is locked, and paid, only after its period and with entries.
THEOREM LockAfterPeriod == Spec => [](LockedAfterPeriod /\ PaidAfterPeriod)
<1>1. IInv => LockedAfterPeriod /\ PaidAfterPeriod
  BY DEF IInv
<1>2. QED
  BY <1>1, Concurrent, PTL

\* No entry is flagged as a missed check-out during its own day.
THEOREM FlagAfterDay == Spec => []FlaggedAfterItsDay
<1>1. IInv => FlaggedAfterItsDay
  BY DEF IInv
<1>2. QED
  BY <1>1, Concurrent, PTL

\* No worker submits, reviews, pays or flags on a read that has become false.
THEOREM DecisionsAlwaysTrue == Spec => []DecisionsStayTrue
<1>1. IInv => DecisionsStayTrue
  BY DEF IInv
<1>2. QED
  BY <1>1, Concurrent, PTL


-----------------------------------------------------------------------------
(* Frame: what a worker at rest, and the world around a worker, leave alone *)

\* A worker that has finished has nothing left that could be disturbed.
LEMMA IdleUndisturbed ==
  ASSUME OneAtATime, TypeOK, NEW w \in Workers, Finish(w)
  PROVE  NothingDisturbed'
<1>1. \A v \in Workers : job'[v] = Idle
  BY DEF OneAtATime, TypeOK, Finish, Goto
<1>2. QED
  BY <1>1 DEF NothingDisturbed, Undisturbed, At, Idle

\* A step that leaves the sheet's status, the other tables and the worker
\* alone keeps the whole invariant.
LEMMA StillUndisturbed ==
  ASSUME SInv, sheet'.status = sheet.status,
         UNCHANGED <<entries, corrections, payrolls, job>>
  PROVE  SInv'
BY DEF SInv, SettledWhenLocked, OneEntryPerDay, ApprovedDaysPayable, PaidOnceInFull,
   NothingDisturbed, Undisturbed, At, Payable, Pending, Used, EntriesOn

\* Midnight, the refreshes and stuttering only touch what nothing relies on.
LEMMA WorldStep ==
  ASSUME TypeOK, SInv,
         NextDay \/ (\E r \in Refreshers : Refresh(r)) \/ UNCHANGED vars
  PROVE  SInv'
<1>1. UNCHANGED <<entries, corrections, payrolls, job>> /\ sheet'.status = sheet.status
  BY DEF NextDay, Refresh, RefreshRead, RefreshWrite, RefreshFail, vars, TypeOK, SheetRow
<1>2. QED
  BY <1>1, StillUndisturbed

\* A step that changes only what the worker is doing keeps the invariant when
\* it leaves the worker undisturbed.
LEMMA ReadStep ==
  ASSUME SInv, UNCHANGED <<sheet, entries, corrections, payrolls>>, NothingDisturbed'
  PROVE  SInv'
BY DEF SInv, SettledWhenLocked, OneEntryPerDay, ApprovedDaysPayable, PaidOnceInFull,
   Payable, Pending, Used

\* With one worker, what holds of it holds of all.
LEMMA OnlyWorker ==
  ASSUME OneAtATime, NEW w \in Workers, Undisturbed(w)'
  PROVE  NothingDisturbed'
BY DEF OneAtATime, NothingDisturbed

-----------------------------------------------------------------------------
(* The steps that read *)

\* An attendance request begins in the period, before the sheet can be locked.
LEMMA AttendanceReads ==
  ASSUME OneAtATime, IInv, SInv, NEW w \in Workers,
         \/ \E step \in {"checkIn", "checkOut"} : BeginAttendance(w, step)
         \/ CheckInFindSheet(w) \/ CheckInLook(w) \/ CheckOutFindSheet(w) \/ CheckOutLook(w)
  PROVE  NothingDisturbed'
<1> USE DEF IInv, TypeOK, SInv, NothingDisturbed, Undisturbed, At, Goto
<1> job[w] \in Job
  OBVIOUS
<1>1. ASSUME NEW step \in {"checkIn", "checkOut"}, BeginAttendance(w, step)
      PROVE  NothingDisturbed'
  <2>1. sheet.status \notin Locked
    BY <1>1, BoundsAssumption DEF BeginAttendance, InPeriod, LockedAfterPeriod
  <2>2. /\ job'[w].at = step /\ job'[w].seen = "NONE" /\ sheet' = sheet
    BY <1>1 DEF BeginAttendance, Idle
  <2>3. Undisturbed(w)'
    BY <2>1, <2>2 DEF Locked
  <2>4. QED
    BY <2>3, OnlyWorker
<1>2. CASE CheckInFindSheet(w)
  <2> DEFINE s == IF sheet.status = "NONE" THEN "checkIn.create" ELSE "checkIn.look"
  <2>1. \A t, x : /\ [job[w] EXCEPT !.at = t, !.seen = x].at = t
                  /\ [job[w] EXCEPT !.at = t, !.seen = x].seen = x
    BY DEF Job
  <2>2. job'[w].at = s /\ job'[w].seen = sheet.status /\ sheet' = sheet
    BY <1>2, <2>1 DEF CheckInFindSheet
  <2>3. sheet.status \notin Locked
    BY <1>2 DEF CheckInFindSheet
  <2>4. Undisturbed(w)'
    BY <2>2, <2>3
  <2>5. QED
    BY <2>4, OnlyWorker
<1>3. CASE CheckInLook(w)
  <2>1. CASE EntriesOn(job[w].day) # {}
    BY <1>3, <2>1, IdleUndisturbed DEF CheckInLook
  <2>2. CASE EntriesOn(job[w].day) = {}
    <3> DEFINE todo == IF job[w].seen = "NONE" THEN {"entry"} ELSE {"entry", "sheet"}
    <3> DEFINE next == [job[w] EXCEPT !.at = "checkIn.write", !.todo = todo]
    <3>1. next.at = "checkIn.write" /\ next.seen = job[w].seen /\ next.day = job[w].day
      BY DEF Job
    <3>2. /\ job'[w].at = "checkIn.write" /\ job'[w].seen = job[w].seen
          /\ job'[w].day = job[w].day /\ sheet' = sheet /\ entries' = entries
      <4>1. job' = [job EXCEPT ![w] = next]
        BY <1>3, <2>2 DEF CheckInLook
      <4>2. job'[w] = next
        BY <4>1
      <4>3. sheet' = sheet /\ entries' = entries
        BY <1>3 DEF CheckInLook
      <4>4. QED
        BY <3>1, <4>2, <4>3
    <3>3. sheet.status \notin Locked /\ job[w].seen \notin Locked
      BY <1>3 DEF CheckInLook
    <3>4. EntriesOn(job[w].day)' = {}
      BY <2>2, <3>2 DEF EntriesOn, Used
    <3>5. Undisturbed(w)'
      BY <3>2, <3>3, <3>4
    <3>6. QED
      BY <3>5, OnlyWorker
  <2>3. QED
    BY <2>1, <2>2
<1>4. CASE CheckOutLook(w)
  <2>1. CASE Finish(w)
    BY <2>1, IdleUndisturbed
  <2>2. CASE ~Finish(w)
    <3>1. sheet.status \notin Locked /\ job[w].seen \notin Locked /\ sheet' = sheet
      BY <1>4 DEF CheckOutLook
    <3> DEFINE next(e) ==
          [job[w] EXCEPT
             !.at = "checkOut.write", !.pick = {e},
             !.todo = IF job[w].seen \in Locked THEN {"entry", "sheet"} ELSE {"entry"}]
    <3>2. PICK e \in EntriesOn(job[w].day) : job' = [job EXCEPT ![w] = next(e)]
      BY <1>4, <2>2 DEF CheckOutLook
    <3>3. /\ next(e).at = "checkOut.write" /\ next(e).seen = job[w].seen
          /\ next(e).todo = {"entry"} /\ next(e).pick = {e}
      BY <3>1 DEF Job
    <3>4. /\ job'[w].at = "checkOut.write" /\ job'[w].seen = job[w].seen
          /\ job'[w].todo = {"entry"} /\ job'[w].pick = {e}
      <4>1. job'[w] = next(e)
        BY <3>2
      <4>2. QED
        BY <3>3, <4>1
    <3>5. Undisturbed(w)'
      <4>1. e \in Used /\ entries' = entries
        BY <1>4 DEF CheckOutLook, EntriesOn
      <4>2. e \in Used'
        BY <4>1 DEF Used
      <4>3. QED
        BY <3>1, <3>4, <4>2
    <3>6. QED
      BY <3>5, OnlyWorker
  <2>3. QED
    BY <2>1, <2>2
<1>6. CASE CheckOutFindSheet(w)
  <2>1. CASE sheet.status = "NONE"
    BY <1>6, <2>1, IdleUndisturbed DEF CheckOutFindSheet
  <2>2. CASE sheet.status # "NONE"
    <3> DEFINE next == [job[w] EXCEPT !.at = "checkOut.look", !.seen = sheet.status]
    <3>1. next.at = "checkOut.look" /\ next.seen = sheet.status
      BY DEF Job
    <3>2. job' = [job EXCEPT ![w] = next] /\ sheet' = sheet
      BY <1>6, <2>2 DEF CheckOutFindSheet
    <3>3. job'[w] = next
      BY <3>2
    <3>4. job'[w].at = "checkOut.look" /\ job'[w].seen = sheet.status
      BY <3>1, <3>3
    <3>5. sheet.status \notin Locked
      BY <1>6 DEF CheckOutFindSheet
    <3>6. Undisturbed(w)'
      BY <3>2, <3>4, <3>5
    <3>7. QED
      BY <3>6, OnlyWorker
  <2>3. QED
    BY <2>1, <2>2
<1>5. QED
  BY <1>1, <1>2, <1>3, <1>4, <1>6

\* The other handlers, and the job, start from what they have just checked.
LEMMA HandlerReads ==
  ASSUME OneAtATime, IInv, SInv, NEW w \in Workers,
         \/ CronList(w) \/ SubmitRead(w) \/ ReviewRead(w) \/ RequestRead(w)
         \/ DecideRead(w) \/ PayrollRead(w) \/ PayrollLook(w)
  PROVE  NothingDisturbed'
<1> USE DEF IInv, TypeOK, SInv, NothingDisturbed, Undisturbed, At, Goto
<1>1. CASE CronList(w)
  <2> DEFINE missed == {e \in Used : /\ entries[e].day < now
                                     /\ ~entries[e].out
                                     /\ entries[e].status # "MISSING_OUT"}
  <2> DEFINE next == [Idle EXCEPT !.at = "cron", !.pick = missed]
  <2>1. next.at = "cron" /\ next.pick = missed
    BY DEF Idle
  <2>2. job' = job \/ job' = [job EXCEPT ![w] = next]
    BY <1>1 DEF CronList
  <2>3. entries' = entries /\ job[w].at = "idle"
    BY <1>1 DEF CronList
  <2>4. CASE job' = job
    BY <2>3, <2>4, OnlyWorker
  <2>5. CASE job' = [job EXCEPT ![w] = next]
    <3>1. job'[w].at = "cron" /\ job'[w].pick = missed
      BY <2>1, <2>5
    <3>2. Undisturbed(w)'
      BY <2>3, <3>1
    <3>3. QED
      BY <3>2, OnlyWorker
  <2>6. QED
    BY <2>2, <2>4, <2>5
<1>2. CASE SubmitRead(w)
  <2>1. job'[w].at = "submit"
    BY <1>2 DEF SubmitRead, Idle
  <2>2. sheet'.status \notin Locked /\ Pending' = {}
    BY <1>2 DEF SubmitRead, Submittable, Pending
  <2>3. Undisturbed(w)'
    BY <2>1, <2>2
  <2>4. QED
    BY <2>3, OnlyWorker
<1>3. CASE ReviewRead(w)
  <2>1. job'[w].at = "review"
    <3>1. PICK accept \in BOOLEAN :
            job' = [job EXCEPT ![w] = [Idle EXCEPT !.at = "review", !.flag = accept]]
      BY <1>3 DEF ReviewRead
    <3>2. [Idle EXCEPT !.at = "review", !.flag = accept].at = "review"
      BY DEF Idle
    <3>3. QED
      BY <3>1, <3>2
  <2>2. sheet'.status = "SUBMITTED"
    BY <1>3 DEF ReviewRead, FlagsAgree, Locked
  <2>3. Undisturbed(w)'
    BY <2>1, <2>2
  <2>4. QED
    BY <2>3, OnlyWorker
<1>4. CASE RequestRead(w)
  <2>1. \A c : /\ [Idle EXCEPT !.at = "request", !.what = c].at = "request"
               /\ [Idle EXCEPT !.at = "request", !.what = c].what = c
    BY DEF Idle
  <2>2. job'[w].at = "request" /\ job'[w].what.status = "PENDING"
    <3>1. \E e, p : job' = [job EXCEPT ![w] =
             [Idle EXCEPT !.at = "request",
                          !.what = [status |-> "PENDING", entry |-> e, proposes |-> p]]]
      BY <1>4 DEF RequestRead
    <3>2. QED
      BY <2>1, <3>1
  <2>3. sheet'.status \notin Locked
    BY <1>4 DEF RequestRead
  <2>4. Undisturbed(w)'
    BY <2>2, <2>3
  <2>5. QED
    BY <2>4, OnlyWorker
<1>5. CASE DecideRead(w)
  <2> DEFINE closed(c) == {e \in Used : e = corrections[c].entry /\ entries[e].out}
  <2> DEFINE next(c, verdict) ==
        [Idle EXCEPT
           !.at = "decide", !.id = c, !.say = verdict, !.pick = closed(c),
           !.flag = Submittable(sheet.status,
                                IF verdict = "PENDING" THEN Pending ELSE Pending \ {c})]
  <2>1. PICK c \in Pending, verdict \in TimesheetStatus : job' = [job EXCEPT ![w] = next(c, verdict)]
    BY <1>5 DEF DecideRead
  <2>2. job'[w].at = "decide" /\ job'[w].id = c /\ job'[w].pick = closed(c)
    <3>1. job'[w] = next(c, verdict)
      BY <2>1
    <3>2. next(c, verdict).at = "decide" /\ next(c, verdict).id = c
          /\ next(c, verdict).pick = closed(c)
      BY DEF Idle
    <3>3. QED
      BY <3>1, <3>2
  <2>3. sheet' = sheet /\ entries' = entries /\ corrections' = corrections
        /\ sheet.status # "APPROVED"
    BY <1>5 DEF DecideRead
  <2>4. Undisturbed(w)'
    BY <2>2, <2>3 DEF Pending, Used
  <2>5. QED
    BY <2>4, OnlyWorker
<1>6. CASE PayrollRead(w)
  <2> DEFINE next == [Idle EXCEPT !.at = "payroll", !.pick = Payable]
  <2>1. next.at = "payroll" /\ next.pick = Payable
    BY DEF Idle
  <2>2. job'[w].at = "payroll" /\ job'[w].pick = Payable
    BY <1>6, <2>1 DEF PayrollRead
  <2>3. sheet'.status = "APPROVED" /\ Payable' = Payable
    BY <1>6 DEF PayrollRead, Payable, Used
  <2>4. Undisturbed(w)'
    BY <2>2, <2>3
  <2>5. QED
    BY <2>4, OnlyWorker
<1>8. CASE PayrollLook(w)
  <2>1. CASE payrolls # <<>>
    BY <1>8, <2>1, IdleUndisturbed DEF PayrollLook
  <2>2. CASE payrolls = <<>>
    <3> DEFINE next == [job[w] EXCEPT !.at = "payroll.write"]
    <3>1. next.at = "payroll.write" /\ next.pick = job[w].pick
      BY DEF Job
    <3>2. job' = [job EXCEPT ![w] = next] /\ UNCHANGED <<sheet, entries, payrolls>>
      BY <1>8, <2>2 DEF PayrollLook
    <3>3. job'[w] = next
      BY <3>2
    <3>4. job'[w].at = "payroll.write" /\ job'[w].pick = job[w].pick
      BY <3>1, <3>3
    <3>5. sheet.status = "APPROVED" /\ job[w].pick = Payable
      BY <1>8 DEF PayrollLook
    <3>6. Payable' = Payable
      BY <3>2 DEF Payable, Used
    <3>7. Undisturbed(w)'
      BY <2>2, <3>2, <3>4, <3>5, <3>6
    <3>8. QED
      BY <3>7, OnlyWorker
  <2>3. QED
    BY <2>1, <2>2
<1>7. QED
  BY <1>1, <1>2, <1>3, <1>4, <1>5, <1>6, <1>8
-----------------------------------------------------------------------------
(* The steps that write *)

\* What a worker writes while the sheet is neither submitted nor approved
\* keeps every property of locked, approved and paid sheets.
LEMMA UnlockedWrite ==
  ASSUME SInv, sheet.status \notin Locked, sheet'.status \notin Locked,
         UNCHANGED payrolls, OneEntryPerDay', NothingDisturbed'
  PROVE  SInv'
BY DEF SInv, SettledWhenLocked, ApprovedDaysPayable, PaidOnceInFull, Locked

\* Rows that keep their day keep one row per day.
LEMMA SameDays ==
  ASSUME TypeOK, OneEntryPerDay, \A e \in EntryIds : entries'[e].day = entries[e].day
  PROVE  OneEntryPerDay' /\ Used' = Used
BY DEF OneEntryPerDay, Used

\* Check-in, check-out and the creation of a sheet write only an unlocked one.
LEMMA AttendanceWrites ==
  ASSUME OneAtATime, IInv, SInv, NEW w \in Workers,
         \/ CreateSheet(w) \/ CheckInCreateSheet(w) \/ CheckInEntry(w)
         \/ CheckInSheet(w) \/ CheckOutEntry(w) \/ CheckOutSheet(w)
  PROVE  SInv'
<1> USE DEF IInv, TypeOK, At
<1> job[w] \in Job
  OBVIOUS
<1> Undisturbed(w) /\ OneEntryPerDay
  BY DEF SInv, NothingDisturbed
<1>1. CASE CreateSheet(w)
  <2>1. sheet.status \notin Locked /\ sheet'.status \notin Locked
    BY <1>1 DEF CreateSheet, DraftSheet, Locked
  <2>2. Undisturbed(w)'
    BY <1>1 DEF CreateSheet, Undisturbed
  <2>3. OneEntryPerDay'
    BY <1>1 DEF CreateSheet, OneEntryPerDay, Used
  <2>4. QED
    BY <1>1, <2>1, <2>2, <2>3, OnlyWorker, UnlockedWrite DEF CreateSheet
<1>2. CASE CheckInCreateSheet(w)
  <2>1. sheet.status \notin Locked /\ sheet'.status \notin Locked
    BY <1>2 DEF CheckInCreateSheet, DraftSheet, Locked
  <2>2. job'[w].at = "checkIn.look" /\ job'[w].seen = job[w].seen
    <3>1. job'[w] = [job[w] EXCEPT !.at = "checkIn.look"]
      BY <1>2 DEF CheckInCreateSheet, Goto
    <3>2. QED
      BY <3>1 DEF Job
  <2>3. Undisturbed(w)'
    BY <1>2, <2>1, <2>2 DEF CheckInCreateSheet, Undisturbed
  <2>4. OneEntryPerDay'
    BY <1>2 DEF CheckInCreateSheet, OneEntryPerDay, Used
  <2>5. QED
    BY <1>2, <2>1, <2>3, <2>4, OnlyWorker, UnlockedWrite DEF CheckInCreateSheet
<1>3. CASE CheckInEntry(w)
  <2>1. sheet.status \notin Locked /\ job[w].seen \notin Locked
        /\ EntriesOn(job[w].day) = {} /\ sheet' = sheet
    BY <1>3 DEF CheckInEntry, Undisturbed
  <2>2. PICK e \in EntryIds \ Used :
          entries' = [entries EXCEPT ![e] =
                        [day |-> job[w].day, out |-> FALSE, status |-> "PENDING"]]
    BY <1>3 DEF CheckInEntry
  <2>3. OneEntryPerDay'
    <3>1. entries'[e].day = job[w].day /\ \A f \in EntryIds : f # e => entries'[f] = entries[f]
      BY <2>2
    <3>2. \A f \in Used : entries[f].day # job[w].day
      BY <2>1 DEF EntriesOn
    <3>3. QED
      BY <3>1, <3>2 DEF OneEntryPerDay, Used
  <2>4. Undisturbed(w)'
    <3>1. CASE job[w].todo = {"entry"}
      BY <1>3, <3>1 DEF CheckInEntry, PartDone, Goto, Idle, Undisturbed
    <3>2. CASE job[w].todo # {"entry"}
      <4>1. job'[w] = [job[w] EXCEPT !.todo = @ \ {"entry"}]
        BY <1>3, <3>2 DEF CheckInEntry, PartDone, Goto
      <4>2. /\ job'[w].at = "checkIn.write" /\ job'[w].seen = job[w].seen
            /\ "entry" \notin job'[w].todo
        BY <1>3, <4>1 DEF CheckInEntry, Job
      <4>3. QED
        BY <2>1, <4>2 DEF Undisturbed
    <3>3. QED
      BY <3>1, <3>2
  <2>5. QED
    BY <1>3, <2>1, <2>3, <2>4, OnlyWorker, UnlockedWrite DEF CheckInEntry
<1>4. CASE CheckInSheet(w)
  <2>1. sheet.status \notin Locked /\ job[w].seen \notin Locked
    BY <1>4 DEF CheckInSheet, Undisturbed
  <2>2. sheet'.status = sheet.status
    BY <1>4, <2>1 DEF CheckInSheet, SheetRow
  <2>3. OneEntryPerDay'
    BY <1>4 DEF CheckInSheet, OneEntryPerDay, Used
  <2>4. Undisturbed(w)'
    <3>1. CASE job[w].todo = {"sheet"}
      BY <1>4, <3>1 DEF CheckInSheet, PartDone, Goto, Idle, Undisturbed
    <3>2. CASE job[w].todo # {"sheet"}
      <4>1. job'[w] = [job[w] EXCEPT !.todo = @ \ {"sheet"}]
        BY <1>4, <3>2 DEF CheckInSheet, PartDone, Goto
      <4>2. /\ job'[w].at = "checkIn.write" /\ job'[w].seen = job[w].seen
            /\ job'[w].day = job[w].day /\ job'[w].todo \subseteq job[w].todo
        BY <1>4, <4>1 DEF CheckInSheet, Job
      <4>3. entries' = entries
        BY <1>4 DEF CheckInSheet
      <4>4. "entry" \in job'[w].todo => EntriesOn(job[w].day)' = {}
        BY <1>4, <4>2, <4>3 DEF CheckInSheet, Undisturbed, EntriesOn, Used
      <4>5. QED
        BY <2>1, <2>2, <4>2, <4>4 DEF Undisturbed
    <3>3. QED
      BY <3>1, <3>2
  <2>5. QED
    BY <1>4, <2>1, <2>2, <2>3, <2>4, OnlyWorker, UnlockedWrite DEF CheckInSheet
<1>5. CASE CheckOutEntry(w)
  <2>1. sheet.status \notin Locked /\ job[w].todo = {"entry"} /\ sheet' = sheet
    BY <1>5 DEF CheckOutEntry, Undisturbed
  <2>2. \A e \in EntryIds : entries'[e].day = entries[e].day
    BY <1>5 DEF CheckOutEntry, EntryRow
  <2>3. Finish(w)
    BY <1>5, <2>1 DEF CheckOutEntry, CheckOutDone, PartDone, Finish
  <2>4. QED
    BY <1>5, <2>1, <2>2, <2>3, SameDays, IdleUndisturbed, UnlockedWrite DEF CheckOutEntry
<1>6. CASE CheckOutSheet(w)
  BY <1>6 DEF CheckOutSheet, Undisturbed
<1>7. QED
  BY <1>1, <1>2, <1>3, <1>4, <1>5, <1>6

\* The missed check-out job flags open entries only, which nobody pays.
LEMMA CronWrites ==
  ASSUME OneAtATime, IInv, SInv, NEW w \in Workers, CronMark(w)
  PROVE  SInv'
<1> USE DEF IInv, TypeOK, At
<1> job[w] \in Job
  OBVIOUS
<1>1. PICK e \in job[w].pick :
        /\ entries' = [entries EXCEPT ![e].status = "MISSING_OUT"]
        /\ Goto(w, IF job[w].pick = {e} THEN Idle ELSE [job[w] EXCEPT !.pick = @ \ {e}])
  BY DEF CronMark
<1>2. e \in EntryIds /\ \A f \in job[w].pick : f \in EntryIds /\ ~entries[f].out
  BY DEF CronMark, SInv, NothingDisturbed, Undisturbed, Job
<1>3. \A f \in EntryIds : /\ entries'[f].day = entries[f].day
                          /\ entries'[f].out = entries[f].out
                          /\ f # e => entries'[f] = entries[f]
  BY <1>1, <1>2 DEF EntryRow
<1>4. OneEntryPerDay' /\ Used' = Used
  BY <1>3, SameDays DEF SInv
<1>5. Payable' = Payable
  BY <1>2, <1>3, <1>4 DEF Payable, Used
<1>6. sheet'.status = sheet.status /\ Pending' = Pending /\ payrolls' = payrolls
  BY DEF CronMark, SheetRow, Pending
<1>7. Undisturbed(w)'
  <2>1. CASE job[w].pick = {e}
    BY <1>1, <2>1 DEF Goto, Idle, Undisturbed
  <2>2. CASE job[w].pick # {e}
    <3>1. job'[w] = [job[w] EXCEPT !.pick = @ \ {e}]
      BY <1>1, <2>2 DEF Goto
    <3>2. job'[w].at = "cron" /\ job'[w].pick \subseteq job[w].pick
      BY <3>1 DEF CronMark, Job
    <3>3. \A f \in job'[w].pick : ~entries'[f].out
      BY <1>2, <1>3, <3>2
    <3>4. QED
      BY <3>2, <3>3 DEF Undisturbed
  <2>3. QED
    BY <2>1, <2>2
<1>8. ApprovedDaysPayable'
  BY <1>3, <1>4, <1>5, <1>6 DEF SInv, ApprovedDaysPayable, Used
<1>9. QED
  BY <1>4, <1>5, <1>6, <1>7, <1>8, OnlyWorker DEF SInv, SettledWhenLocked, PaidOnceInFull

\* The transactions and payroll write on what they read a step before.
LEMMA HandlerWrites ==
  ASSUME OneAtATime, IInv, SInv, NEW w \in Workers,
         \/ SubmitCommit(w) \/ ReviewCommit(w) \/ RequestCommit(w)
         \/ DecideCommit(w) \/ PayrollCreate(w)
  PROVE  SInv'
<1> USE DEF IInv, TypeOK, At
<1> job[w] \in Job
  OBVIOUS
<1> Undisturbed(w) /\ OneEntryPerDay
  BY DEF SInv, NothingDisturbed
<1> NothingDisturbed'
  BY IdleUndisturbed DEF SubmitCommit, ReviewCommit, RequestCommit, DecideCommit, PayrollCreate
<1>1. CASE SubmitCommit(w)
  <2>1. sheet.status \notin Locked /\ Pending = {} /\ sheet'.status = "SUBMITTED"
    BY <1>1 DEF SubmitCommit, Undisturbed, SheetRow
  <2>2. UNCHANGED <<entries, corrections, payrolls>>
    BY <1>1 DEF SubmitCommit
  <2>3. payrolls = <<>>
    BY <2>1 DEF SInv, PaidOnceInFull, Locked
  <2>4. QED
    BY <2>1, <2>2, <2>3 DEF SInv, SettledWhenLocked, OneEntryPerDay, ApprovedDaysPayable,
                            PaidOnceInFull, Pending, Used
<1>2. CASE ReviewCommit(w)
  <2>1. sheet.status = "SUBMITTED" /\ Pending = {} /\ payrolls = <<>>
    BY <1>2 DEF ReviewCommit, Undisturbed, SInv, SettledWhenLocked, PaidOnceInFull, Locked
  <2>2. UNCHANGED <<corrections, payrolls>>
    BY <1>2 DEF ReviewCommit
  <2>3. \A e \in EntryIds : entries'[e].day = entries[e].day /\ entries'[e].out = entries[e].out
    BY <1>2 DEF ReviewCommit, EntryRow
  <2>4. OneEntryPerDay' /\ Used' = Used
    BY <2>3, SameDays
  <2>5. ApprovedDaysPayable'
    <3>1. CASE job[w].flag
      <4>1. \A e \in Used : entries[e].out => entries'[e].status = "APPROVED"
        BY <1>2, <3>1 DEF ReviewCommit, SettledBy, Used, EntryRow
      <4>2. QED
        BY <2>3, <2>4, <4>1 DEF ApprovedDaysPayable, Payable, Used
    <3>2. CASE ~job[w].flag
      BY <1>2, <3>2 DEF ReviewCommit, ApprovedDaysPayable
    <3>3. QED
      BY <3>1, <3>2
  <2>6. Pending' = {} /\ payrolls' = <<>>
    BY <2>1, <2>2 DEF Pending
  <2>7. QED
    BY <2>4, <2>5, <2>6 DEF SInv, SettledWhenLocked, PaidOnceInFull
<1>3. CASE RequestCommit(w)
  <2>1. sheet.status \notin Locked /\ sheet'.status = sheet.status
    BY <1>3 DEF RequestCommit, Undisturbed, SheetRow
  <2>2. OneEntryPerDay' /\ payrolls' = payrolls
    BY <1>3 DEF RequestCommit, OneEntryPerDay, Used
  <2>3. QED
    BY <2>1, <2>2, UnlockedWrite
<1>4. CASE DecideCommit(w)
  <2>1. sheet.status \notin Locked /\ sheet'.status = sheet.status
    BY <1>4 DEF DecideCommit, Undisturbed, SInv, SettledWhenLocked, Locked, SheetRow
  <2>2. \A e \in EntryIds : entries'[e].day = entries[e].day
    BY <1>4 DEF DecideCommit, Corrected, EntryRow
  <2>3. QED
    BY <1>4, <2>1, <2>2, SameDays, UnlockedWrite DEF DecideCommit
<1>5. CASE PayrollCreate(w)
  <2>1. sheet.status = "APPROVED" /\ payrolls = <<>> /\ job[w].pick = Payable
    BY <1>5 DEF PayrollCreate, Undisturbed
  <2>2. payrolls' = <<job[w].pick>> /\ UNCHANGED <<sheet, entries, corrections>>
    BY <1>5, <2>1 DEF PayrollCreate
  <2>3. PaidOnceInFull'
    <3>1. Len(payrolls') = 1 /\ payrolls'[1] = job[w].pick
      BY <2>2
    <3>2. Payable' = Payable
      BY <2>2 DEF Payable, Used
    <3>3. QED
      BY <2>1, <2>2, <3>1, <3>2 DEF PaidOnceInFull
  <2>4. QED
    BY <2>2, <2>3 DEF SInv, SettledWhenLocked, OneEntryPerDay, ApprovedDaysPayable, Payable,
                      Pending, Used
<1>6. QED
  BY <1>1, <1>2, <1>3, <1>4, <1>5
-----------------------------------------------------------------------------
(* The theorems *)

\* Every step keeps the invariant of requests handled one at a time.
LEMMA SerialStep ==
  ASSUME OneAtATime, IInv, SInv, [Next]_vars
  PROVE  SInv'
<1>1. ASSUME NEW w \in Workers, Abort(w) PROVE SInv'
  BY <1>1, IdleUndisturbed, ReadStep DEF Abort, IInv
<1>2. ASSUME NEW w \in Workers,
             \/ \E step \in {"checkIn", "checkOut"} : BeginAttendance(w, step)
             \/ CheckInFindSheet(w) \/ CheckInLook(w) \/ CheckOutFindSheet(w) \/ CheckOutLook(w)
      PROVE  SInv'
  <2>1. NothingDisturbed'
    BY <1>2, AttendanceReads
  <2>2. UNCHANGED <<sheet, entries, corrections, payrolls>>
    BY <1>2 DEF BeginAttendance, CheckInFindSheet, CheckInLook, CheckOutFindSheet, CheckOutLook
  <2>3. QED
    BY <2>1, <2>2, ReadStep
<1>3. ASSUME NEW w \in Workers,
             \/ CronList(w) \/ SubmitRead(w) \/ ReviewRead(w) \/ RequestRead(w)
             \/ DecideRead(w) \/ PayrollRead(w) \/ PayrollLook(w)
      PROVE  SInv'
  <2>1. NothingDisturbed'
    BY <1>3, HandlerReads
  <2>2. UNCHANGED <<sheet, entries, corrections, payrolls>>
    BY <1>3 DEF CronList, SubmitRead, ReviewRead, RequestRead, DecideRead, PayrollRead,
       PayrollLook
  <2>3. QED
    BY <2>1, <2>2, ReadStep
<1>4. QED
  BY <1>1, <1>2, <1>3, WorldStep, AttendanceWrites, CronWrites, HandlerWrites DEF Next,
     Step, IInv

\* The invariant, for any length of period and window, any number of
\* refreshes, entries and corrections.
THEOREM Serial ==
  ASSUME OneAtATime
  PROVE  Spec => [](IInv /\ SInv)
<1>1. Init => SInv
  <2> SUFFICES ASSUME Init PROVE SInv
    OBVIOUS
  <2>1. Used = {} /\ Pending = {} /\ sheet.status = "NONE" /\ payrolls = <<>>
    BY DEF Init, Used, Pending, NoCorrection, NoSheet, DraftSheet
  <2>2. NothingDisturbed
    BY DEF Init, NothingDisturbed, Undisturbed, At, Idle
  <2>3. QED
    BY <2>1, <2>2 DEF SInv, SettledWhenLocked, OneEntryPerDay, ApprovedDaysPayable,
                      PaidOnceInFull, Locked
<1>2. IInv /\ SInv /\ [Next]_vars => SInv'
  BY SerialStep
<1>3. QED
  BY <1>1, <1>2, Concurrent, PTL DEF Spec

\* "Pending corrections block monthly timesheet submission", handled one at a
\* time: a locked sheet has no pending correction.
THEOREM LockedIsSettled ==
  ASSUME OneAtATime
  PROVE  Spec => []SettledWhenLocked
<1>1. SInv => SettledWhenLocked
  BY DEF SInv
<1>2. QED
  BY <1>1, Serial, PTL

\* Check-in, handled one at a time, opens one entry per day.
THEOREM OneEntryEachDay ==
  ASSUME OneAtATime
  PROVE  Spec => []OneEntryPerDay
<1>1. SInv => OneEntryPerDay
  BY DEF SInv
<1>2. QED
  BY <1>1, Serial, PTL

\* Handled one at a time, an approved sheet is paid at most once, and the
\* payroll is what the sheet's entries say at any later time.
THEOREM PayrollAgrees ==
  ASSUME OneAtATime
  PROVE  Spec => [](PaidOnceInFull /\ ApprovedDaysPayable)
<1>1. SInv => PaidOnceInFull /\ ApprovedDaysPayable
  BY DEF SInv
<1>2. QED
  BY <1>1, Serial, PTL

\* Six statements write the status of the sheet.
LEMMA StatusWriters ==
  ASSUME TypeOK, NEW w \in Workers, Step(w)
  PROVE  \/ sheet'.status = sheet.status /\ sheet'.approvedBy = sheet.approvedBy
         \/ CreateSheet(w) \/ CheckInCreateSheet(w) \/ CheckInSheet(w) \/ CheckOutSheet(w)
         \/ SubmitCommit(w) \/ ReviewCommit(w)
<1> USE DEF TypeOK, SheetRow
<1>1. CASE \/ Abort(w) \/ \E step \in {"checkIn", "checkOut"} : BeginAttendance(w, step)
  BY <1>1 DEF Abort, BeginAttendance
<1>2. CASE \/ CheckInFindSheet(w) \/ CheckInLook(w) \/ CheckInEntry(w)
           \/ CheckOutFindSheet(w) \/ CheckOutLook(w) \/ CheckOutEntry(w)
  BY <1>2 DEF CheckInFindSheet, CheckInLook, CheckInEntry, CheckOutFindSheet,
     CheckOutLook, CheckOutEntry
<1>3. CASE CronList(w) \/ CronMark(w) \/ SubmitRead(w) \/ ReviewRead(w)
  BY <1>3 DEF CronList, CronMark, SubmitRead, ReviewRead
<1>4. CASE RequestRead(w) \/ RequestCommit(w) \/ DecideRead(w) \/ DecideCommit(w)
  BY <1>4 DEF RequestRead, RequestCommit, DecideRead, DecideCommit
<1>5. CASE PayrollRead(w) \/ PayrollLook(w) \/ PayrollCreate(w)
  BY <1>5 DEF PayrollRead, PayrollLook, PayrollCreate
<1>6. QED
  BY <1>1, <1>2, <1>3, <1>4, <1>5 DEF Step

\* Handled one at a time, nothing takes an approval back: a review and a
\* submission refuse, and attendance never meets a locked sheet.
THEOREM ApprovalIsFinal ==
  ASSUME OneAtATime
  PROVE  Spec => ApprovedIsFinal
<1>1. ASSUME IInv, SInv, [Next]_vars, sheet.status = "APPROVED"
      PROVE  sheet'.status = "APPROVED"
  <2> USE <1>1 DEF IInv, TypeOK, SheetRow, At, Locked
  <2>1. CASE UNCHANGED sheet \/ sheet'.status = sheet.status
    BY <2>1
  <2>2. \A w \in Workers : Undisturbed(w)
    BY DEF SInv, NothingDisturbed
  <2>3. ASSUME NEW w \in Workers,
               \/ CheckInSheet(w) \/ CheckOutSheet(w) \/ SubmitCommit(w) \/ ReviewCommit(w)
               \/ CreateSheet(w) \/ CheckInCreateSheet(w)
        PROVE  FALSE
    BY <2>2, <2>3 DEF CheckInSheet, CheckOutSheet, SubmitCommit, ReviewCommit,
       CreateSheet, CheckInCreateSheet, Undisturbed
  <2>4. CASE NextDay \/ (\E r \in Refreshers : Refresh(r)) \/ UNCHANGED vars
    <3>1. UNCHANGED sheet \/ sheet'.status = sheet.status
      BY <2>4 DEF NextDay, Refresh, RefreshRead, RefreshWrite, RefreshFail, vars
    <3>2. QED
      BY <2>1, <3>1
  <2>5. ASSUME NEW w \in Workers, Step(w)
        PROVE  \/ sheet'.status = sheet.status
               \/ CheckInSheet(w) \/ CheckOutSheet(w) \/ SubmitCommit(w) \/ ReviewCommit(w)
               \/ CreateSheet(w) \/ CheckInCreateSheet(w)
    BY <2>5, StatusWriters
  <2>6. QED
    BY <1>1, <2>1, <2>3, <2>4, <2>5 DEF Next
<1>2. IInv /\ SInv /\ [Next]_vars =>
        [sheet.status = "APPROVED" => sheet.status' = "APPROVED"]_sheet
  BY <1>1
<1>3. QED
  BY <1>2, Serial, PTL DEF Spec, ApprovedIsFinal

\* Handled one at a time, a correction request is decided once.
THEOREM DecisionIsFinal ==
  ASSUME OneAtATime
  PROVE  Spec => DecidedOnce
<1>1. ASSUME IInv, SInv, [Next]_vars, NEW c \in CorrectionIds,
             corrections[c].status \notin {"NONE", "PENDING"}
      PROVE  corrections'[c].status = corrections[c].status
  <2> USE <1>1 DEF IInv, TypeOK, At
  <2>1. CASE UNCHANGED corrections
    BY <2>1
  <2>2. ASSUME NEW w \in Workers, RequestCommit(w) PROVE corrections'[c] = corrections[c]
    BY <2>2 DEF RequestCommit
  <2>3. ASSUME NEW w \in Workers, DecideCommit(w) PROVE corrections'[c] = corrections[c]
    <3>1. job[w].id \in Pending
      BY <2>3 DEF DecideCommit, SInv, NothingDisturbed, Undisturbed
    <3>2. job[w].id # c
      BY <3>1 DEF Pending
    <3>3. QED
      BY <2>3, <3>2 DEF DecideCommit
  <2>4. QED
    BY <2>1, <2>2, <2>3
       DEF Next, NextDay, Refresh, RefreshRead, RefreshWrite, RefreshFail, Step, vars,
          Abort, CreateSheet, BeginAttendance, CheckInFindSheet, CheckInCreateSheet,
          CheckInLook, CheckInEntry, CheckInSheet, CheckOutFindSheet, CheckOutLook,
          CheckOutEntry, CheckOutSheet, CronList, CronMark, SubmitRead, SubmitCommit,
          ReviewRead, ReviewCommit, RequestRead, DecideRead, PayrollRead, PayrollLook,
          PayrollCreate
<1>2. IInv /\ SInv /\ [Next]_vars =>
        [\A c \in CorrectionIds :
           corrections[c].status \notin {"NONE", "PENDING"} =>
             corrections'[c].status = corrections[c].status]_corrections
  BY <1>1
<1>3. QED
  BY <1>2, Serial, PTL DEF Spec, DecidedOnce

\* Handled one at a time, a recorded check-out is never erased.
THEOREM CheckOutStays ==
  ASSUME OneAtATime
  PROVE  Spec => CheckOutKept
<1>1. ASSUME IInv, SInv, [Next]_vars, NEW e \in Used, entries[e].out
      PROVE  entries'[e].out
  <2> USE <1>1 DEF IInv, TypeOK, At, EntryRow, Used
  <2>1. CASE UNCHANGED entries
    BY <2>1
  <2>2. ASSUME NEW w \in Workers,
               CheckInEntry(w) \/ CheckOutEntry(w) \/ CronMark(w) \/ ReviewCommit(w)
        PROVE  entries'[e].out
    <3>1. CASE CheckInEntry(w)
      BY <3>1 DEF CheckInEntry
    <3>2. CASE CheckOutEntry(w)
      BY <3>2 DEF CheckOutEntry
    <3>3. CASE CronMark(w)
      BY <3>3 DEF CronMark
    <3>4. CASE ReviewCommit(w)
      BY <3>4 DEF ReviewCommit
    <3>5. QED
      BY <2>2, <3>1, <3>2, <3>3, <3>4
  <2>3. ASSUME NEW w \in Workers, DecideCommit(w) PROVE entries'[e].out
    <3>1. e = corrections[job[w].id].entry => e \in job[w].pick
      BY <2>3 DEF DecideCommit, SInv, NothingDisturbed, Undisturbed
    <3>2. QED
      BY <2>3, <3>1 DEF DecideCommit, Corrected
  <2>4. QED
    BY <2>1, <2>2, <2>3
       DEF Next, NextDay, Refresh, RefreshRead, RefreshWrite, RefreshFail, Step, vars,
       Abort, CreateSheet, BeginAttendance, CheckInFindSheet, CheckInCreateSheet, CheckInLook,
       CheckInSheet, CheckOutFindSheet, CheckOutLook, CheckOutSheet, CronList,
       SubmitRead, SubmitCommit, ReviewRead, RequestRead, RequestCommit, DecideRead,
       PayrollRead, PayrollLook, PayrollCreate
<1>2. IInv /\ SInv /\ [Next]_vars => [\A e \in Used : entries[e].out => entries'[e].out]_entries
  BY <1>1
<1>3. QED
  BY <1>2, Serial, PTL DEF Spec, CheckOutKept

-----------------------------------------------------------------------------
(* The life of a sheet *)

\* Nothing is booked, asked for or under way about a sheet that nobody made.
Founded ==
    sheet.status = "NONE" =>
       /\ Used = {} /\ Pending = {}
       /\ \A w \in Workers : job[w].at \in {"idle", "checkIn", "checkIn.create", "checkOut"}

\* A sheet that was made is never unmade, however the handlers interleave, and
\* what has to do with it begins after that.
LEMMA FoundedStep ==
  ASSUME IInv, Founded, [Next]_vars
  PROVE  Founded'
<1> SUFFICES ASSUME sheet'.status = "NONE" PROVE Founded'
  BY DEF Founded
<1> USE DEF IInv, TypeOK, SheetRow, At
<1>1. sheet.status = "NONE"
  <2>1. CASE sheet'.status = sheet.status
    BY <2>1
  <2>2. ASSUME NEW w \in Workers,
               \/ CreateSheet(w) \/ CheckInCreateSheet(w) \/ CheckInSheet(w) \/ CheckOutSheet(w)
               \/ SubmitCommit(w) \/ ReviewCommit(w)
        PROVE  sheet'.status = sheet.status
    <3>1. CASE CreateSheet(w) \/ CheckInCreateSheet(w)
      BY <3>1 DEF CreateSheet, CheckInCreateSheet, DraftSheet
    <3>2. CASE CheckInSheet(w) \/ CheckOutSheet(w)
      BY <3>2 DEF CheckInSheet, CheckOutSheet, Reopened
    <3>3. CASE SubmitCommit(w)
      BY <3>3 DEF SubmitCommit
    <3>4. CASE ReviewCommit(w)
      <4>1. sheet'.status \in {"APPROVED", "REJECTED"}
        BY <3>4 DEF ReviewCommit
      <4>2. QED
        BY <4>1
    <3>5. QED
      BY <2>2, <3>1, <3>2, <3>3, <3>4
  <2>3. ASSUME NEW w \in Workers, Step(w)
        PROVE  \/ sheet'.status = sheet.status
               \/ CreateSheet(w) \/ CheckInCreateSheet(w) \/ CheckInSheet(w) \/ CheckOutSheet(w)
               \/ SubmitCommit(w) \/ ReviewCommit(w)
    BY <2>3, StatusWriters
  <2>4. CASE NextDay \/ (\E r \in Refreshers : Refresh(r)) \/ UNCHANGED vars
    BY <2>4 DEF NextDay, Refresh, RefreshRead, RefreshWrite, RefreshFail, vars
  <2>5. QED
    BY <2>1, <2>2, <2>3, <2>4 DEF Next
<1>2. /\ Used = {} /\ Pending = {}
      /\ \A w \in Workers : job[w].at \in {"idle", "checkIn", "checkIn.create", "checkOut"}
  BY <1>1 DEF Founded
<1>3. CASE UNCHANGED <<entries, corrections, job>>
  BY <1>2, <1>3 DEF Founded, Used, Pending
<1>4. ASSUME NEW w \in Workers, Step(w) PROVE Founded'
  <2>1. ~sheet.isSubmitted
    BY <1>1 DEF FlagsAgree, Locked
  <2>2. \/ Abort(w) \/ CheckInFindSheet(w) \/ CheckOutFindSheet(w) \/ CronList(w)
        \/ \E step \in {"checkIn", "checkOut"} : BeginAttendance(w, step)
    <3>1. ~CreateSheet(w) /\ ~CheckInCreateSheet(w)
      BY DEF CreateSheet, CheckInCreateSheet, DraftSheet
    <3>2. ~SubmitRead(w) /\ ~ReviewRead(w) /\ ~RequestRead(w) /\ ~DecideRead(w) /\ ~PayrollRead(w)
      BY <1>1, <1>2, <2>1 DEF SubmitRead, ReviewRead, RequestRead, DecideRead, PayrollRead
    <3>3. /\ ~CheckInLook(w) /\ ~CheckInEntry(w) /\ ~CheckInSheet(w)
          /\ ~CheckOutLook(w) /\ ~CheckOutEntry(w) /\ ~CheckOutSheet(w) /\ ~CronMark(w)
      BY <1>2 DEF CheckInLook, CheckInEntry, CheckInSheet, CheckOutLook, CheckOutEntry,
                  CheckOutSheet, CronMark
    <3>4. /\ ~SubmitCommit(w) /\ ~ReviewCommit(w) /\ ~RequestCommit(w)
          /\ ~DecideCommit(w) /\ ~PayrollLook(w) /\ ~PayrollCreate(w)
      BY <1>2 DEF SubmitCommit, ReviewCommit, RequestCommit, DecideCommit, PayrollLook,
                  PayrollCreate
    <3>5. QED
      BY <1>4, <3>1, <3>2, <3>3, <3>4 DEF Step
  <2>3. UNCHANGED <<entries, corrections>>
    BY <2>2 DEF Abort, CheckInFindSheet, CheckOutFindSheet, CronList, BeginAttendance
  <2>4. job'[w].at \in {"idle", "checkIn", "checkIn.create", "checkOut"}
    <3>1. CASE Abort(w) \/ CheckOutFindSheet(w)
      BY <1>1, <1>2, <3>1 DEF Abort, CheckOutFindSheet, Finish, Goto, Idle
    <3>2. CASE CheckInFindSheet(w)
      <4>1. job' = [job EXCEPT ![w] = [job[w] EXCEPT !.at = "checkIn.create", !.seen = "NONE"]]
        BY <1>1, <3>2 DEF CheckInFindSheet, Goto
      <4>2. job[w] \in Job
        OBVIOUS
      <4>3. QED
        BY <4>1, <4>2 DEF Job
    <3>3. CASE CronList(w)
      BY <1>2, <3>3 DEF CronList
    <3>4. ASSUME NEW step \in {"checkIn", "checkOut"}, BeginAttendance(w, step)
          PROVE  job'[w].at = step
      BY <3>4 DEF BeginAttendance, Goto, Idle
    <3>5. QED
      BY <2>2, <3>1, <3>2, <3>3, <3>4
  <2>5. \A v \in Workers : job'[v].at \in {"idle", "checkIn", "checkIn.create", "checkOut"}
    BY <1>2, <1>4, <2>4, OthersWait
  <2>6. QED
    BY <1>2, <2>3, <2>5 DEF Founded, Used, Pending
<1>5. QED
  BY <1>3, <1>4 DEF Next, NextDay, Refresh, RefreshRead, RefreshWrite, RefreshFail, vars

\* A step that changes neither the life nor what is booked is none of the life's.
LEMMA Stutters ==
  ASSUME /\ sheet'.status = sheet.status /\ sheet'.approvedBy = sheet.approvedBy
         /\ \A e \in EntryIds : /\ entries'[e].day # 0 /\ entries'[e].out
                                <=> entries[e].day # 0 /\ entries[e].out
         /\ UNCHANGED <<corrections, payrolls>>
  PROVE  UNCHANGED Life!vars
BY DEF Life!vars, Closed, Answered, Used

\* Handled one at a time, a sheet that is not approved bears no signature.
Unsigned == sheet.status # "APPROVED" => sheet.approvedBy = Nobody

LEMMA UnsignedStep ==
  ASSUME IInv, SInv, Unsigned, [Next]_vars
  PROVE  Unsigned'
<1> USE DEF IInv, TypeOK, SheetRow, At, Unsigned
<1>1. CASE sheet'.status = sheet.status /\ sheet'.approvedBy = sheet.approvedBy
  BY <1>1
<1>2. ASSUME NEW w \in Workers, CreateSheet(w) \/ CheckInCreateSheet(w) PROVE Unsigned'
  BY <1>2 DEF CreateSheet, CheckInCreateSheet, DraftSheet
<1>3. ASSUME NEW w \in Workers, CheckInSheet(w) \/ CheckOutSheet(w) PROVE Unsigned'
  BY <1>3 DEF CheckInSheet, CheckOutSheet, Reopened
<1>4. ASSUME NEW w \in Workers, SubmitCommit(w) PROVE Unsigned'
  <2>1. sheet.status # "APPROVED"
    BY <1>4 DEF SubmitCommit, SInv, NothingDisturbed, Undisturbed, Locked
  <2>2. QED
    BY <1>4, <2>1 DEF SubmitCommit
<1>5. ASSUME NEW w \in Workers, ReviewCommit(w) PROVE Unsigned'
  BY <1>5 DEF ReviewCommit
<1>6. CASE NextDay \/ (\E r \in Refreshers : Refresh(r)) \/ UNCHANGED vars
  BY <1>1, <1>6 DEF NextDay, Refresh, RefreshRead, RefreshWrite, RefreshFail, vars
<1>7. QED
  BY <1>1, <1>2, <1>3, <1>4, <1>5, <1>6, StatusWriters DEF Next

\* What the correspondence with the life of a sheet rests on.
LInv == IInv /\ SInv /\ Founded /\ Unsigned

\* Refreshes, midnight and the steps that only read are no step of the life.
LEMMA WorldStutters ==
  ASSUME TypeOK, NextDay \/ (\E r \in Refreshers : Refresh(r)) \/ UNCHANGED vars
  PROVE  UNCHANGED Life!vars
<1>1. /\ UNCHANGED <<entries, corrections, payrolls>>
      /\ sheet'.status = sheet.status /\ sheet'.approvedBy = sheet.approvedBy
  BY DEF NextDay, Refresh, RefreshRead, RefreshWrite, RefreshFail, vars, TypeOK, SheetRow
<1>2. QED
  BY <1>1, Stutters

LEMMA ReadsStutter ==
  ASSUME NEW w \in Workers,
         \/ Abort(w) \/ (\E step \in {"checkIn", "checkOut"} : BeginAttendance(w, step))
         \/ CheckInFindSheet(w) \/ CheckInLook(w) \/ CheckOutFindSheet(w) \/ CheckOutLook(w)
         \/ CronList(w)
         \/ SubmitRead(w) \/ ReviewRead(w) \/ RequestRead(w) \/ DecideRead(w)
         \/ PayrollRead(w) \/ PayrollLook(w)
  PROVE  UNCHANGED Life!vars
<1>1. UNCHANGED <<sheet, entries, corrections, payrolls>>
  BY DEF Abort, BeginAttendance, CheckInFindSheet, CheckInLook, CheckOutFindSheet,
     CheckOutLook, CronList, SubmitRead, ReviewRead, RequestRead, DecideRead, PayrollRead,
     PayrollLook
<1>2. QED
  BY <1>1, Stutters

\* Attendance makes the sheet and closes entries, while it is unlocked.
LEMMA AttendanceLives ==
  ASSUME OneAtATime, LInv, NEW w \in Workers,
         \/ CreateSheet(w) \/ CheckInCreateSheet(w) \/ CheckInEntry(w) \/ CheckInSheet(w)
         \/ CheckOutEntry(w) \/ CheckOutSheet(w) \/ CronMark(w)
  PROVE  [Life!Next]_(Life!vars)
<1> USE DEF LInv, IInv, TypeOK, SheetRow, At
<1> Undisturbed(w)
  BY DEF SInv, NothingDisturbed
<1>1. CASE CreateSheet(w) \/ CheckInCreateSheet(w)
  <2>1. /\ sheet.status = "NONE" /\ sheet'.status = "DRAFT"
        /\ sheet.approvedBy = Nobody /\ sheet'.approvedBy = Nobody
        /\ UNCHANGED <<entries, corrections, payrolls>>
    BY <1>1 DEF CreateSheet, CheckInCreateSheet, DraftSheet, Unsigned
  <2>2. Life!Open
    BY <2>1 DEF Life!Open, Closed, Answered, Used
  <2>3. QED
    BY <2>2 DEF Life!Next
<1>2. CASE CheckInEntry(w)
  <2>1. /\ UNCHANGED <<sheet, corrections, payrolls>>
        /\ \E e \in EntryIds \ Used :
              entries' = [entries EXCEPT ![e] = [day |-> job[w].day, out |-> FALSE, status |-> "PENDING"]]
    BY <1>2 DEF CheckInEntry
  <2>2. \A e \in EntryIds : (entries'[e].day # 0 /\ entries'[e].out)
                            <=> (entries[e].day # 0 /\ entries[e].out)
    BY <2>1 DEF Used
  <2>3. QED
    BY <2>1, <2>2, Stutters
<1>3. CASE CheckInSheet(w)
  <2>1. /\ UNCHANGED <<entries, corrections, payrolls>>
        /\ sheet'.status = sheet.status /\ sheet'.approvedBy = sheet.approvedBy
    BY <1>3 DEF CheckInSheet, Undisturbed
  <2>2. QED
    BY <2>1, Stutters
<1>4. CASE CheckOutEntry(w)
  <2>1. PICK e \in Used : job[w].pick = {e}
    BY <1>4 DEF CheckOutEntry, Undisturbed
  <2>2. /\ UNCHANGED <<sheet, corrections, payrolls>>
        /\ entries' = [f \in EntryIds |-> IF f = e THEN [entries[f] EXCEPT !.out = TRUE] ELSE entries[f]]
    BY <1>4, <2>1 DEF CheckOutEntry
  <2>3. \A f \in EntryIds : /\ entries'[f].day = entries[f].day
                            /\ entries'[f].out = (f = e \/ entries[f].out)
    BY <2>2 DEF EntryRow
  <2>4. Closed' = Closed \cup {e}
    BY <2>1, <2>3 DEF Closed, Used
  <2>5. sheet.status \in {"DRAFT", "REJECTED"}
    BY <1>4 DEF CheckOutEntry, Undisturbed, Founded, Locked, SheetStatus
  <2>6. e \in EntryIds
    BY <2>1 DEF Used
  <2>7. Life!Close(e)
    BY <2>2, <2>4, <2>5 DEF Life!Close, Life!Unlocked, Answered
  <2>8. QED
    BY <2>6, <2>7 DEF Life!Next
<1>5. CASE CheckOutSheet(w)
  BY <1>5 DEF CheckOutSheet, Undisturbed
<1>6. CASE CronMark(w)
  <2>1. \A e \in EntryIds : entries'[e].day = entries[e].day /\ entries'[e].out = entries[e].out
    BY <1>6 DEF CronMark, EntryRow
  <2>2. /\ UNCHANGED <<corrections, payrolls>>
        /\ sheet'.status = sheet.status /\ sheet'.approvedBy = sheet.approvedBy
    BY <1>6 DEF CronMark
  <2>3. QED
    BY <2>1, <2>2, Stutters
<1>7. QED
  BY <1>1, <1>2, <1>3, <1>4, <1>5, <1>6

\* Each commit of a transaction, and payroll, is one step of the life.
LEMMA TransactionsLive ==
  ASSUME OneAtATime, LInv, NEW w \in Workers,
         \/ SubmitCommit(w) \/ ReviewCommit(w) \/ RequestCommit(w)
         \/ DecideCommit(w) \/ PayrollCreate(w)
  PROVE  [Life!Next]_(Life!vars)
<1> USE DEF LInv, IInv, TypeOK, SheetRow, At
<1> job[w] \in Job
  OBVIOUS
<1> Undisturbed(w)
  BY DEF SInv, NothingDisturbed
<1>0. \A c \in CorrectionIds : Answered[c] = corrections[c].status
  BY DEF Answered
<1>1. CASE SubmitCommit(w)
  <2>1. sheet.status \in {"DRAFT", "REJECTED"} /\ Pending = {}
    BY <1>1 DEF SubmitCommit, Undisturbed, Founded, Locked, SheetStatus
  <2>2. /\ sheet'.status = "SUBMITTED" /\ sheet'.approvedBy = sheet.approvedBy
        /\ UNCHANGED <<entries, corrections, payrolls>>
    BY <1>1 DEF SubmitCommit
  <2>3. Life!HandIn
    BY <2>1, <2>2 DEF Life!HandIn, Life!Unlocked, Closed, Answered, Used, Pending
  <2>4. QED
    BY <2>3 DEF Life!Next
<1>2. CASE ReviewCommit(w)
  <2>1. sheet.status = "SUBMITTED" /\ sheet.approvedBy = Nobody /\ UNCHANGED <<corrections, payrolls>>
    BY <1>2 DEF ReviewCommit, Undisturbed, Unsigned
  <2>2. \A e \in EntryIds : entries'[e].day = entries[e].day /\ entries'[e].out = entries[e].out
    BY <1>2 DEF ReviewCommit, EntryRow
  <2>3. Closed' = Closed
    BY <2>2 DEF Closed, Used
  <2>4. CASE job[w].flag
    <3>1. PICK r \in Reviewers : sheet'.status = "APPROVED" /\ sheet'.approvedBy = r
      BY <1>2, <2>4 DEF ReviewCommit
    <3>2. Life!Sign(r)
      BY <2>1, <2>3, <3>1 DEF Life!Sign, Answered
    <3>3. QED
      BY <3>2 DEF Life!Next
  <2>5. CASE ~job[w].flag
    <3>1. sheet'.status = "REJECTED" /\ sheet'.approvedBy = Nobody
      BY <1>2, <2>5 DEF ReviewCommit
    <3>2. Life!GiveBack
      BY <2>1, <2>3, <3>1 DEF Life!GiveBack, Answered
    <3>3. QED
      BY <3>2 DEF Life!Next
  <2>6. QED
    BY <2>4, <2>5
<1>3. CASE RequestCommit(w)
  <2>1. /\ UNCHANGED <<entries, payrolls>>
        /\ sheet'.status = sheet.status /\ sheet'.approvedBy = sheet.approvedBy
    BY <1>3 DEF RequestCommit
  <2>2. sheet.status \in {"DRAFT", "REJECTED"}
    BY <1>3 DEF RequestCommit, Undisturbed, Founded, Locked, SheetStatus
  <2>3. PICK c \in CorrectionIds : /\ corrections[c].status = "NONE"
                                   /\ corrections' = [corrections EXCEPT ![c] = job[w].what]
    BY <1>3 DEF RequestCommit
  <2>4. job[w].what.status = "PENDING"
    BY <1>3 DEF RequestCommit, Undisturbed
  <2>5. Answered' = [Answered EXCEPT ![c] = "PENDING"]
    BY <2>3, <2>4 DEF Answered
  <2>6. Life!Ask(c)
    BY <2>1, <2>2, <2>3, <2>5 DEF Life!Ask, Life!Unlocked, Closed, Used, Answered
  <2>7. QED
    BY <2>6 DEF Life!Next
<1>4. CASE DecideCommit(w)
  <2> DEFINE c == job[w].id
             e == corrections[c].entry
             closes == job[w].say = "APPROVED" /\ corrections[c].proposes = "checkOut" /\ e \in Used
  <2>1. /\ c \in Pending /\ c \in CorrectionIds
        /\ job[w].pick = {f \in Used : f = e /\ entries[f].out}
    BY <1>4 DEF DecideCommit, Undisturbed, Pending
  <2>2. sheet.status \in {"DRAFT", "REJECTED"}
    BY <2>1 DEF SInv, SettledWhenLocked, Founded, Locked, SheetStatus
  <2>3. /\ payrolls' = payrolls
        /\ sheet'.status = sheet.status /\ sheet'.approvedBy = sheet.approvedBy
    BY <1>4 DEF DecideCommit
  <2>4. \A f \in EntryIds : /\ entries'[f].day = entries[f].day
                            /\ f \in Used => entries'[f].out = (entries[f].out \/ (closes /\ f = e))
    <3>1. SUFFICES ASSUME NEW f \in EntryIds
                   PROVE  /\ entries'[f].day = entries[f].day
                          /\ f \in Used => entries'[f].out = (entries[f].out \/ (closes /\ f = e))
      OBVIOUS
    <3>2. entries'[f] = IF job[w].say = "APPROVED" /\ corrections[c].proposes # "nothing" /\ f = e
                        THEN Corrected(entries[f], corrections[c].proposes, f \in job[w].pick)
                        ELSE entries[f]
      BY <1>4 DEF DecideCommit
    <3>3. corrections[c].proposes \in {"nothing", "checkIn", "checkOut"}
      BY <2>1 DEF CorrectionRow
    <3>4. entries[f] \in EntryRow
      OBVIOUS
    <3>5. QED
      BY <2>1, <3>2, <3>3, <3>4 DEF Corrected, EntryRow
  <2>5. Closed' = IF closes THEN Closed \cup {e} ELSE Closed
    <3>1. closes => e \in Used
      OBVIOUS
    <3> HIDE DEF closes, e
    <3>2. \A f \in EntryIds : f \in Used' <=> f \in Used
      BY <2>4 DEF Used
    <3>3. \A f \in EntryIds : f \in Closed' <=> f \in Closed \/ (closes /\ f = e)
      BY <2>4, <3>1, <3>2 DEF Closed
    <3>4. Used \subseteq EntryIds /\ Used' \subseteq EntryIds
      BY DEF Used
    <3>5. QED
      BY <3>1, <3>3, <3>4 DEF Closed
  <2>6. Answered' = [Answered EXCEPT ![c] = job[w].say]
    <3>1. corrections' = [corrections EXCEPT ![c].status = job[w].say]
      BY <1>4 DEF DecideCommit
    <3>2. \A b \in CorrectionIds : corrections'[b].status = IF b = c THEN job[w].say
                                                           ELSE corrections[b].status
      BY <3>1 DEF CorrectionRow
    <3>3. QED
      BY <2>1, <3>2 DEF Answered
  <2>7. Answered[c] = "PENDING"
    BY <2>1 DEF Pending, Answered
  <2>8. CASE job[w].say = "PENDING"
    <3>1. Answered' = Answered /\ Closed' = Closed
      BY <2>5, <2>6, <2>7, <2>8 DEF Answered
    <3>2. QED
      BY <2>3, <3>1 DEF Life!vars
  <2>9. CASE job[w].say # "PENDING"
    <3>1. job[w].say \in Life!Answers
      BY <2>9 DEF Life!Answers, Job, TimesheetStatus
    <3>2. \/ UNCHANGED Closed
          \/ job[w].say = "APPROVED" /\ \E f \in EntryIds : Closed' = Closed \cup {f}
      BY <2>5 DEF Used
    <3>3. Life!Answer(c, job[w].say)
      BY <2>2, <2>3, <2>6, <2>7, <3>2 DEF Life!Answer, Life!Unlocked
    <3>4. QED
      BY <2>1, <3>1, <3>3 DEF Life!Next
  <2>10. QED
    BY <2>8, <2>9
<1>5. CASE PayrollCreate(w)
  <2>1. sheet.status = "APPROVED" /\ payrolls = <<>> /\ job[w].pick = Payable
    BY <1>5 DEF PayrollCreate, Undisturbed
  <2>2. Payable = Closed
    BY <2>1 DEF SInv, ApprovedDaysPayable, Payable, Closed
  <2>3. payrolls' = <<Closed>> /\ UNCHANGED <<sheet, entries, corrections>>
    BY <1>5, <2>1, <2>2 DEF PayrollCreate
  <2>4. Closed' = Closed /\ Answered' = Answered
    BY <2>3 DEF Closed, Answered, Used
  <2>5. Life!Pay
    BY <2>1, <2>3, <2>4 DEF Life!Pay
  <2>6. QED
    BY <2>5 DEF Life!Next
<1>6. QED
  BY <1>1, <1>2, <1>3, <1>4, <1>5

\* Handled one at a time, the requests of any number of days, entries and
\* corrections make up the life of a sheet as SheetLife has it: nothing that
\* runs beside them, fails or comes late shows in it.
THEOREM SheetImplementsLife ==
  ASSUME OneAtATime
  PROVE  Spec => ImplementsSheetLife
<1>1. Init => Life!Init /\ Founded /\ Unsigned
  <2> SUFFICES ASSUME Init PROVE Life!Init /\ Founded /\ Unsigned
    OBVIOUS
  <2>1. Used = {} /\ Pending = {} /\ sheet.status = "NONE" /\ sheet.approvedBy = Nobody
    BY DEF Init, Used, Pending, NoCorrection, NoSheet, DraftSheet
  <2>2. \A w \in Workers : job[w].at = "idle"
    BY DEF Init, Idle
  <2>3. Closed = {} /\ Answered = [c \in CorrectionIds |-> "NONE"] /\ payrolls = <<>>
    BY <2>1 DEF Init, Closed, Answered, NoCorrection
  <2>4. QED
    BY <2>1, <2>2, <2>3 DEF Life!Init, Life!Nobody, Nobody, Founded, Unsigned
<1>2. IInv /\ SInv /\ Founded /\ Unsigned /\ [Next]_vars => Founded' /\ Unsigned'
  BY FoundedStep, UnsignedStep
<1>3. IInv /\ SInv /\ Founded /\ Unsigned /\ [Next]_vars => [Life!Next]_(Life!vars)
  BY WorldStutters, ReadsStutter, AttendanceLives, TransactionsLive DEF LInv, IInv, Next, Step
<1>4. QED
  BY <1>1, <1>2, <1>3, Serial, PTL DEF Spec, ImplementsSheetLife, Life!Spec
=============================================================================

# Timesheet Pro: specifications, model checking and proofs

TLA+ specifications of *Timesheet Pro*: its back end (`src/backend`: NestJS,
Prisma, PostgreSQL) and the pages that rely on it (`src/frontend`: React), the
configurations with which TLC checks them on small instances, and theorems that
TLAPS proves for every value of their constants.

## 1. The system

Employees check in and out; each month (17th to 16th) they submit a timesheet
that their manager approves or rejects; wrong entries are repaired by correction
requests that a manager decides; HR generates the payroll of approved
timesheets. Beside these run a midnight job for forgotten check-outs, leave
applications with a yearly balance, accounts with refresh-token sessions and
reset codes by mail, departments that change managers, and notifications.

The back end is one Node process (or several) before one database. Between two
`await`s of a handler other handlers run. Transactions use PostgreSQL's default
isolation, READ COMMITTED, and no handler locks what it reads: what a handler
computes in JavaScript from a read may be stale when it is written. Check-in,
check-out, payroll, the leave creation and the canSubmit refresh after a check-out
use no transaction at all.

The front end keeps a session in the browser's storage, which all tabs share, and
in every page a copy of what the server told it last. Its requests are given up
after 15 seconds, whatever the server still does with them, and their answers
overtake each other. What a page shows decides what its user can ask for.

### Inventory

| component | state it keeps | operations | interacts with | hard part | correct when |
|---|---|---|---|---|---|
| attendance (`attendance-module`) | `timesheet_entries` | check-in, check-out | monthly timesheet (reopens it, starts a refresh) | no transaction; two statements side by side; decides on a stale status | one entry a day; a recorded check-out stays; no approved sheet is reopened |
| missed check-out job (`missedCheckout.ts`) | entry status | midnight job | entries, sheet, warnings, mail | acts on a list it read long ago; overlaps the next run | flags only entries of past days; flagged sheets wait for an explanation |
| monthly timesheet (`monthly-time-sheet`) | `monthly_timesheets` | create, refresh canSubmit, submit, review | entries, corrections, notifications, mail | `status`, `isSubmitted`, `canSubmit`, `approvedById` written by many handlers | flags agree; locked only after its period; nothing pending when locked; approval is final |
| corrections (`request-correction`) | `request_corrections` | create, decide | entry, sheet, notifications | decided on an unlocked read | decided once; never changes a locked sheet |
| payroll (`payroll`) | `payrolls` | generate, export | approved sheets | look-then-create without a unique key | one payroll per sheet, equal to what the sheet says |
| leave (`leave-application`) | `leave_applications`, `users.remainDaysofLeave` | apply, review, expiry job, yearly reset | users, entries, notifications | balance computed in JavaScript; list read outside the transaction | balance = allowance - approved days; what has ended is decided |
| sessions (`auth`, front-end `apiClient.ts`, `authService.ts`, `authStore.ts`, `AppRouter.tsx`) | hashed refresh token; the stored session of the browser | login, SSO, refresh, logout, deactivation, verification on load | users, router | one refresh token is rotated by all tabs; answers are lost | both sides keep one session or none; nobody is logged out without a reason; no page hangs |
| passwords and reset codes (`auth`, `user`, `LoginForm.tsx`, `ProfileSection.tsx`) | password, reset code and its expiry | send, verify, reset, change | e-mail | a code is checked and cleared in different statements around a mail or a hash | a failed send leaves no code; a code works once; what is announced is so |
| users, departments (`user`, `department`) | `users`, `departments.managerID` | create, import, update, transfer manager, delete | every guard; every sign-in writes the row of its user | who leads what is stored three times | role, department and seat agree |
| roles, leave types | `roles`, `type_leaves` | create, update, soft delete | users, leave | look-then-create (a unique key decides) | unique names |
| notifications, warnings, realtime | `notifications`, `warnings`; the list and the badge of every tab | create, emit, load, mark read | called from most handlers | emitted before the outer transaction commits; loads overlap | nothing unreal is listed; in the end each tab lists what there is |
| guards (`auth/guards`, twelve controllers) | the claims of the token | allow or refuse | users, departments, every page | token and database are of two moments; who manages whom is asked in three ways | what a page sends is served; the seat decides |
| employee's timesheet pages (`EmployeeWorkspaceDashboard.tsx`, `TimesheetWorkspacePage.tsx`, `timesheetService.ts`) | caches of sheets, days, corrections; view | load, check in and out, submit, correct | the server's period rule | chains of requests and operations overlap on shared caches, answers are lost; the same dates are computed five times | a settled page shows and offers what the server has and accepts |
| manager's board, leave pages (`ManagerDashboard.tsx`, `LeavePage.tsx`, `leaveService.ts`) | rows, balances, the row in progress | load, approve, reject, apply | leave, sheets, corrections | rows are changed by answers, not by a new list; days are counted in two ways | what is shown was decided; the form lets through nothing that the server must refuse |
| seed (`seed.service.ts`, `npm run seed`) | everything | fill, rename, merge, clean up | every start of a server | older versions, crashes, decisions made since | seeding again changes nothing; decisions survive |
| system log | `system_logs` | append, mark, clean up | interceptor | none | append-only |
| reports, exports, Swagger | none | read, format, send | | none | formatting |

`PROJECT.json` lists the same components with their status, and under `hazards`
each place in the code where one of the hard parts bites.

## 2. Plan

The order put the behaviour that decides about people's pay first, then who
decides, then what people see of it.

Done:

1. `Timesheet`: attendance, corrections, submission, review, missed check-outs,
   payroll, step by step. Proofs for any interleaving and for requests handled one at
   a time (`TimesheetProofs`); handled so it implements `SheetLife`, the abstract life
   of a month.
2. `LeaveBalance`: applications, reviews, the expiry job and the yearly reset on
   the balance. Proofs likewise (`LeaveBalanceProofs`).
3. `OrgChart`: users, departments and who leads them; `Access` composes it with
   tokens, guards and pages (`OrgChartProofs` for both).
4. `Session`: both sides of a session, with liveness (`SessionProofs`); `Recovery`:
   reset codes and passwords (`RecoveryProofs`).
5. `Notify`, which implements the abstract `Inbox` (`NotifySeedProofs`).
6. `Periods` (pure operators on dates) and `Workspace`, the employee's pages built on
   them (`WorkspaceProofs` for both); `Boards`, the manager's board and leave pages
   (`BoardsProofs`).
7. `Seed`: starts of the server and `npm run seed` over older databases
   (`NotifySeedProofs`).

Next, in this order:

1. The HR desk: the forms of employees, departments and leave types, with the
   stale rows they save.
2. Reports and payroll arithmetic: hours, overtime and salary as functions checked
   against reference definitions.

## 3. Modules

### Timesheet

One employee, one month. The variables are the rows: `sheet` (the row of
`monthly_timesheets`), `entries`, `corrections`, `payrolls`; `now` counts days
from the first day of the period; `cronDue` is the midnight trigger; `job[w]` is
what worker `w` (a request in progress, or the midnight job) has read so far and
which step it is at; `refresh[r]` are the canSubmit refreshes that nobody awaits.

* A handler in a transaction has two steps: `...Read` (guards and reads) and
  `...Commit` (everything it writes). READ COMMITTED shows others nothing before
  the commit, and what was read is not locked, so anything may commit between.
* A handler without a transaction has one step per call to the database. Check-in:
  `BeginAttendance`, `CheckInFindSheet`, `CheckInCreateSheet`, `CheckInLook`, then
  `CheckInEntry` and `CheckInSheet` in either order (`Promise.all`). Check-out:
  `BeginAttendance`, `CheckOutFindSheet`, `CheckOutLook`, then `CheckOutEntry` and
  `CheckOutSheet` likewise. Payroll: `PayrollRead` (sheet and entries), `PayrollLook` (is
  there one already?), `PayrollCreate`.
* `Abort` ends a handler anywhere: an exception, a rolled back transaction, a
  refusal for lack of a department or manager, a crash.
* `RefreshRead`/`RefreshWrite` are `refreshCanSubmit` outside a transaction: a GET
  of the timesheet, or the call a check-out leaves running.
* The midnight job lists (`CronList`), then marks one entry per transaction
  (`CronMark`). A run may start while the last one is still mailing. The job is a worker
  like any other: with one worker it takes its turn between requests.

Attendance of the 17th and later belongs to the next month's sheet, so the branch
of check-in and check-out that reopens a locked sheet is taken only when midnight
and a submission fall between the handler's start and its read.

Abstracted: times of day (an entry has a check-out or not), hours, IP addresses,
`isWarning` and `canRequestCorrection`, reasons, mails, notifications, and other
employees (no row is shared between two employees' sheets). `DecideRead` takes
the reads of one transaction together.

Operators whose names end in `Mutant`, and `ReopenedUnsigned`, are wrong variants
of the operator that follows them; no specification uses them. Each names the bug
that a property must notice (`mutants` in `PROJECT.json`).

### Checked properties of Timesheet

For every interleaving (run `timesheet_concurrent`, two requests at a time):

* `FlagsAgree`: `isSubmitted` and `status` never part.
* `DecisionsStayTrue`: the part of its read that a handler relies on to lock, pay or
  flag nothing too early is still true at its last step.

What they serve is proved and not checked again: `ApprovedIsSigned` (an approved
sheet names its reviewer), `LockedAfterPeriod` and `PaidAfterPeriod` (nothing is
submitted or paid before the period is over, nor without entries) and
`FlaggedAfterItsDay` (nobody is flagged during the entry's own day).

For requests handled one at a time (run `timesheet_serial`; the midnight job takes its
turn as they do; refreshes, midnight and failures still interleave): `SettledWhenLocked`,
`OneEntryPerDay`, `PaidOnceInFull`, `CheckOutKept` and `ImplementsSheetLife`; proved only,
`ApprovedIsFinal`, `DecidedOnce` and `NothingDisturbed`, which says why.

`SheetLife` is what the handlers promise together. It knows of a month how far it has
come, who signed it, which entries are closed, what became of the corrections and what was
paid; days are closed and corrections asked for and answered, each once, while nobody has
locked the month; it is handed in with nothing left to answer, signed or given back, and
paid once, all of what was closed. `Life` maps the rows onto it (`Closed`, `Answered`, two
columns of `sheet`, `payrolls`); the workers, `canSubmit`, the flags of missed check-outs,
the calendar and refreshes are hidden. It says more than the invariants beside it: that
nothing but a reviewer's step may follow a submission, and nothing but a payroll an approval.

The rules of the serial run do not survive two requests at a time. Three witness
configurations show it where it matters most: `TimesheetRacePending.cfg` (a submitted
sheet with a pending correction), `TimesheetRacePayroll.cfg` (two payrolls) and
`TimesheetRaceApproved.cfg` (an entry of an approved sheet changes: by a correction that
is decided beside the approval, or by a `CronMark` whose list is older than the correction
that closed the entry and the approval, `missedCheckout.ts:50`). A refresh of canSubmit
that lands late only misleads the page: submission computes it again
(`monthly-time-sheet.service.ts:750`). Two check-ins, or
two decisions of one correction, break `OneEntryPerDay` and `DecidedOnce` in the same
way (look, then write). `TimesheetMissingOut.cfg` (a sheet with a missed check-out that
is not flagged yet can be submitted) and `TimesheetVerdict.cfg` (a review may write any
status) need no concurrency. Section 5 quotes the rules.

Bounds. Serial run: a period of two days and the day after it, on which the month may be
handed in, reviewed and paid; two entries, two corrections, so that two days, a second check-in, a correction beside
another and a rejected and resubmitted sheet all occur. Concurrent run: two
workers, a period of two days and a submission day, one entry, one correction; a
bug that needs three requests in progress, or two entries beside two requests, is
out of its reach and is what the theorems are for. `Workers` and `Refreshers` are
symmetric.

### LeaveBalance

One employee. The variables are the rows: `remain` is `users.remainDaysofLeave`,
`types` the rows of `type_leaves`, `applications` those of `leave_applications`;
`now` counts days, `expiryDue` and `resetDue` are the triggers of the two jobs,
`job[w]` is what worker `w` does and has read.

* Creation is not in a transaction, and each call to the database is a step: `Apply`
  (the dates and the row of the user), `ApplyType` (the type, and whether the days suffice),
  `ApplyLook` (the overlap query), `ApplyWrite` (the insert).
* A review is one transaction with two reads: `ReviewRead` (application and type),
  `ReviewBalance` (the applicant, and the check of the days), `ReviewWrite` (both
  rows). The balance is computed in JavaScript, so `Balance` uses the one it read.
* The expiry job reads its list before its transaction begins: `ExpireList`, then
  `ExpireWrite`. It runs at the end of each day (`ExpireDaily`, possibly late, or
  not at all) and whenever a server starts (`ExpireAtStartup`).
* `AnnualReset` is one statement. `NextDay` makes it due on the first of January,
  or not: the server may be down in that minute.
* `EditType` is an administrator who updates, activates or deactivates a type.
* `Abort` ends a handler anywhere, for a refusal, an exception or a crash.

Abstracted: reasons, the reviewer's identity, notifications, mails, the warning
about days on which work was logged; a type pays or does not. `duration` is a
column, but nothing changes it or the dates it was computed from, so `Duration`
computes it again. The working days are a constant set.

Properties for every interleaving (run `leave_concurrent`):

* `NeverNegative`: the balance never goes below zero, although reviews lose each
  other's updates.
* `CancelledAfterItsEnd`: the job, whose list may be a day old, cancels nothing
  before its last day.
What makes them inductive, `WorkersRemember` (what a worker carries from its read to its
write), is part of `IInv` and no claim of its own.

For requests and jobs handled one at a time, with no type edited (run
`leave_serial`; midnight, the reset and failures still interleave):

* `BalanceAccounts`: in the first year balance and charged days add up to the
  allowance; after the reset they never add up to less.
* `PendingDisjoint`: no two applications wait for the same day.
* `EndedIsDecided` (liveness): an application whose last day is over is decided or
  cancelled in the end, also when the run of the job that was due for it failed or was
  missed.

Witness configurations: `LeaveOverlap.cfg` (one request at a time: the second look
that approval does not take), `LeaveRaceApproval.cfg` (a lost subtraction) and
`LeaveRaceExpiry.cfg` (`ApprovedNotExpired`: an approved leave cancelled, as one that
"has not been approved yet", by a list that is out of date).

Fairness (`FairSpec`, for `EndedIsDecided` alone): a handler that has begun goes on
(`WF` of each worker's steps); the job's transaction does not fail for ever (`SF` of
`ExpireWrite`); the job runs again and again: every night, or, where the server was down that
night, when it starts (`SF` of "`ExpireDaily` or `ExpireAtStartup`",
`expired-leave-application.service.ts:16-23`).

Bounds. Serial run: one paid and one unpaid type, an allowance of three days, four
days with a day off and a new year after the second, two applications: a leave of
several days, one over a day off, a refusal for lack of days and the refund of last
year's leave all occur. Concurrent run: two workers on one application over the
new year, while its type is edited: two reviews, a review beside the expiry job and
a review beside an edit or the reset. Two reviews of different applications meet in
`LeaveRaceApproval.cfg`, and in the theorems, which have no such bound. `MaxBalance`
bounds the balance: racing refunds would let it grow for ever.

### OrgChart

Who works where and who leads what. `user` is role and department of every row of
`users`, `seat` the `managerID` of every department, `known` the departments that
exist; `job[w]` is a request in progress and what it has read.

* `Edit`, `UpdateBegin`, `UpdateWrite` are `updateUser`, which the employee form calls
  and also every login, refresh and logout (`Sign`): they send no role and no
  department, and write back those that were read at the start. `Vacates` and
  `Transfer` (`handleManagerTransfer`) are the branches in its transaction.
* `Create` and `CreateWrite` are apart because the department's manager is read before
  the password is hashed. `Import` checks a whole file (`Valid`) and then creates its
  rows one by one (`ImportRow`), each with a transaction of its own.
* `Appoint`, `AppointWrite` and `DeleteDepartment` are the administrator's requests
  about departments.

A manager may be created without a department: `createUser` refuses an undefined name
only (`user.service.ts:262`), and an empty one makes a manager who holds no seat.

Two histories: `drift` says that a request was made which the code lets through
although the seats do not follow it (`Strays`), `raced` that two requests overlapped.
Without either, `SeatsAgree` (who holds a seat works there and is no employee, and a
manager who has a department holds its seat) and `IdleUpdateKeepsOrg` (a sign-in, or a form
saved as loaded, changes nothing) hold. While requests do not overlap, `ManagersStayPut`
(nobody is moved from manager to manager elsewhere) holds whatever the forms ask, and so does
`DemotedWhenReplaced`: who falls to employee either has the own row edited or no longer holds
the seat. Only under drift may somebody keep the seat and be demoted all the same, when
another becomes manager there: that is what `OrgPromotion.cfg` shows.

Bounds: two workers, an administrator, a manager, an employee and two people to be
created, three departments of which two are seeded, two requests of administrators
beside any number of sign-ins: every pair of requests, in order and overlapping.
Workers, and the people to be created, are symmetric.

Witness configuration: `OrgPromotion.cfg`, `EditGivesTheSeat`. The comment at
`user.service.ts:688` hands the transfer to `handleManagerTransfer`, but the employee
form's promotion demotes the old manager and leaves the seat to him or her.

### Access

Extends OrgChart. `token[u]` is what the access token of `u` claims, valid for a quarter of
an hour whatever happens to the row meanwhile. It is handed out by the same update that
OrgChart describes (`SignDone`); an SSO login hands it out and a logout drops it even if
that update fails, as they do not look at its result (`SignFails`,
`auth.service.ts:296`, `:512`).

The permissions of every guarded route are sets of pairs (`UserReads` ..
`WarningRoutes`), the checks behind them operators (`CheckAuthIsAdmin` ..
`CanReviewRequest`), and what the pages of each role send is `Sent`. Three ways to ask
who manages whom meet here: the role and department of the row, the department of the
token, and the seat. `StaffOf` .. `ReportOf` are the people whose papers the five lists
of a manager's page hold.

* `PagesServed`: nothing that a page sends is refused to somebody with a fresh token.
* `GuardsFollowTheSeats`: for a fresh token all three ways, and all five lists, mean
  the holder of the seat.
* `OldTokensNeedASeat`: however old the token, it opens the papers of others only to
  administrators and to those who hold a seat now. Which seat is another matter: the
  department that a token names, and its claim to be an administrator, are believed until it
  expires.

A manager without a department (`Unplaced`) is left out of all three: such an
account can sign in through Google or Microsoft only, and leads nobody.

Bounds: one worker at a time for the organisation (OrgChart has two), three people,
two departments, two requests of administrators. The role names
are assumed to stay as seeded. The two reads of a login are taken as one. Three requests
that the pages swallow are left out of `Sent`: the employee page asks for the row of its
manager and is refused, `createHrUser` falls back to a route `POST /auth/register` that
the back end does not have, and the page of a manager offers no route but its dashboard.
Guards do not look at a deactivation: it takes effect when the token expires. What may
happen between the check in the transaction of a review and its commit is not modelled here.

Witness configuration: `AccessLeave.cfg`, `LeaveHasAReviewer`. `API_CONTRACT.md:123`
gives the review of a leave to the "manager of sender department";
`leave-application.controller.ts:174` asks for the role manager, which an administrator
who holds the seat, as the seeded one does, has not: nobody can review.

### Session

One account on the server (`token`: the hashed refresh token, `active`) and one browser:
`stored` is the session that all tabs share, `tab[t]` route, auth store and page requests
of a tab, `call` the refresh that a tab's requests share, its verification and what its
user asked for. A call that the browser gave up may be carried out later (`Late`).

`Check`/`Save` are the two statements of a sign-in or refresh, `SsoUnsaved` an SSO
sign-in whose token is not stored, `LogsOut`, `Looks` and `SetActive` the other handlers;
`Answered` .. `NotRenewed` the interceptor (`apiClient.ts`), `Verify` .. `Verified`
`verifySessionOnServer`, `Guard` and `Enter` the router, `Reload` and `Go` the user.

`excused` is a history: calls crossed each other, one was lost or given up, the account
was closed or signed in elsewhere, or a session ran out. A page request that is rejected
for good is such a reason where it loads the login page (`RejectedForGood`): it then gives
up the sign-in, or the verification, that this tab had in progress. Without that:

* `SidesAgree`: a browser at rest stores the session that the server keeps.
* `SessionKept`: a session is dropped only by a logout.
* `NothingHangs` (liveness, with no excuse): a verification ends, and a page request that
  waits for a refresh is repeated or ends at the login page.

Fairness: the client gives every call up after 15 seconds (`config/api.ts`), so some call
always moves (`WF` of `Serve \/ Lose`), and the event loop of a tab runs what has been
settled (`WF` of its browser and router steps). Nothing is assumed of users and servers.
Timing: an access token that has just been issued is valid (`JustIssued`).

Bounds: two tabs, the late call, two sessions, three actions of people: rotation beside
rotation, logout beside refresh, deactivation between check and save. Witness
configuration: `SessionLoop.cfg`, `RouteSettles`. `docs/SMOKE_CHECKLIST.md:9` expects a
redirect by role at `/login`; a tab whose store was emptied by another one while the
storage still holds a token is sent between `LoginPage.tsx:14` and `ProtectedRoute.tsx:19`
for ever.

### Recovery

The password and the reset code of one account, the browsers of its owner (`form`), and
one request for each of them plus a late one (`req`). `IssueCode`, `SendMail`, `Revert` are
`sendResetCode`, whose provider may fail, or report a failure for a mail that arrives;
`VerifyResetCode`, `CheckReset`/`SaveReset` and `CheckChange`/`SaveChange` are apart by a
hash; `Crash` ends whatever is under way, `Lose` is a client that gives up.

* `FailedSendLeavesNothing` (the comment at `auth.service.ts:570`): a code whose mail was
  reported failed does not count.
* `SentCodeIsGood`: the latest code, reported sent, is the one in the row until it is used
  or runs out.
* `CodeWorksOnce`: a code sets a password once, while it is the code of the row.
* `AnnouncedIsSet`: the password is the one that a page last called set.

The middle two are for codes of requests that no other was carried out beside
(`crossed`), the last for changes none of which was lost: a reset that ends beside a later
send clears the later code, and a change given up may land over one announced since.
The buttons "Cancel" and back stay enabled, so a late answer moves a form on that its user
has left (`Receive`). A password of six spaces is set by a reset, refused by the login
form, and announced but not set by the profile (`user.service.ts` asks for `trim() !== ''`).
Witness configuration: `RecoveryBlank.cfg`, `AnnouncedIsAlwaysSet`
(`ProfileSection.tsx:123`).

Bounds: two browsers, two codes, two passwords, five operations; browsers are symmetric.
The run ends when the operations are used up (`CHECK_DEADLOCK FALSE`). Codes are distinct;
six random digits may of course repeat.

### Inbox and Notify

`Inbox` is what notifications promise: a note is posted once, read once, each tab shows
only posted notes and in the end all of them. `Notify` is the code: a note may be inserted
in the transaction of a handler that commits later or rolls back (`Joined`), clients are
told of it before (`Tell`), a load is two requests answered at different times
(`AnswerItems`, `AnswerCount`, `Land`), loads overlap, a click is shown before the server
knows (`Click`, `MarkAsRead`, `MarkFails`), and a socket may join any subset of rooms.

* `NothingUnreal`: no tab lists a note of a transaction that has not committed.
* `TabsSettle` (liveness): list and badge of every tab become what the rows are.
* `ImplementsInbox`: Notify implements Inbox under the refinement mapping at its end.

Fairness: every tab polls each minute, whatever the socket does; transactions end within
30 seconds; requests are answered or given up. Bounds: two notes, one of each kind, one tab,
two loads under way together, one lost request or restart. The theorems have no bounds.

### Periods and Workspace

`Periods` holds the date rules as operators on days of a calendar of any shape: the
server's (`PeriodOf`, `InWindow`, `SubmittableMonth`) and those of the pages
(`MonthRange`, `WeekRange`, `DefaultAnchor`, `LoadedMonth`, `SummaryMonth`). Days and months
are numbered through, so the wrap of the year and the time zone are abstracted.

`Workspace` is the dashboard or the timesheet page of an employee over it. A load is a
chain of requests (`job[s]`, one per slot); the caches that all chains write are one
summary per month (`cache`) but one list of days (`days`); `view` is what the page shows.

An operation is a request like the others: a click sends it (`Punch`, `Submit`, `Correct`),
the server carries it out or refuses it whenever it arrives (`CarryOut`, `Refuse`), the page
learns of that from the answer (`LandAccepted`, `LandRefused`), and `Lose` may take the
request or the answer away, the latter of something that was carried out. A button stays off
while the request it sent holds it (`held`); "reload" beside the message about today's record
may be pressed while a check-in is under way. Two histories say what was not disturbed: `calm`
the load that led to what is shown, `sure` the record of today.

* `SettledViewIsRight`: when the chains have ended, the page shows the sheet and the days
  as the server has them, however they overlapped.
* `DefaultViewSubmits`: from the 17th to the 23rd the dashboard opens on the sheet that the
  server then accepts, and offers to hand it in just when the server would take it.
* `TodayIsShown`: what decides between check-in and check-out is the server's record,
  whenever nothing about it is under way. Not so after a request about it was lost, or after
  a reload crossed a check-in: its list, read before, may land after the check-in's own and
  leave "not started" on a page that is at rest. `sure` leaves these out until it is loaded anew.
* `NeverAhead`: no page shows as done what the server has not; a summary is changed to
  submitted when the server has said so and not before.

The first two are for loads that no operation or failure disturbed (`calm`). Bounds: December
to April, working days around three period ends, three dates, two chains at a time, two
clicks, one failure; slots are symmetric. One tab; the manager's decisions are in
Timesheet and Boards. A page open past midnight keeps yesterday's record.

Witness configuration: `WorkspacePeriod.cfg`, `PageShowsItsPeriod`. By the comment at
`period.helper.ts:6` the sheet of month X holds the days from the 17th to the 16th; shown
by month, from the 17th on, a page loads the month in which the range starts
(`EmployeeWorkspaceDashboard.tsx:155`) and shows another sheet under that name.

### Boards

The manager's board and the leave page over the papers of one employee: `server` has the
rows, `board`, `balance` and `processing` the board's state, `summary` the leave page's,
`calls` the requests of both. `Load`/`ReceiveList` replace a list; `Apply` ..
`ReceiveApply` are an application.

A decision is pressed (`Press`), goes through the steps of its transaction (`ReviewRead`,
`ReviewBalance` for the applicant of a leave, `ReviewWrite`) and is received
(`ReceiveReview`), after which the board changes its own row. `Lose` takes a request or an
answer away, `GiveUp` is the client that waits no longer for what the server is doing, and
`DecideElsewhere` is a decision of another tab or one given up that arrives late: so the same
leave may be approved twice side by side.

* `ShownWasDecided`: the board never shows a decision that the server has not made.
* `RefusedOnlyIfStale`: the page counts calendar days and the server weekdays, but the form
  never lets through what the server would refuse for want of days.

Facts the model keeps: a decision that repeats the status is answered without data, which
the page reports as an error; an approved leave may be rejected again; a stale list brings
decided rows back; any answer enables all buttons. Nothing is claimed of the balance: two
approvals of one leave that overlap charge it twice, two repeals refund it twice. Bounds: two
leaves (one over a weekend), one sheet, one correction, at most two of them in use, two days of
leave, two decisions begun, a balance of at most three, two
requests under way; the calls are symmetric. A load counts from its read, and one that fails changes
nothing. The window of 15 days for applications is abstracted; the dashboard's form asks
for the days only of paid types, LeavePage of all.

Witness configurations: `BoardsRepeat.cfg`, `DeductsOnlyOnChange`. The comment at
`leave-application.service.ts:343` deducts days when the status changes to approved; a repeat
that reads the row (`:257`) before the first approval has committed and the applicant (`:312`)
after it deducts them again. `BoardsBalance.cfg`, `ShortOnlyIfShort`. The board says that the days
do not suffice and does not let approve; the answer about corrections
(`request-correction.service.ts:520`) has no balance in it, `managerUtils.ts:87` makes that
zero, and merging it over the employee refuses an approval for which there are days.

### Seed

`Seedings` is the transaction of `SeedService` as a function from a database to the databases
that may come of it, one operator per helper in the order of `seedDemoData`: more than one
where `findFirst`, which has no order, finds several applications of the same person, type and
days (`seed.service.ts:750`). Around it servers start on an empty
database or one of an older version, crash, start again (one server at a time),
someone runs `npm run seed`, and people hire, apply for the days of the seed or for others,
decide, of their own and of the seeded leave, and rename.

* `SeedsOnce`: seeding again in the same month changes nothing, whatever the database held.
  Where somebody has two applications for one seeded leave (rejected and applied for again:
  `Doubled`), the second run may find the other of the two and write over it; then still no
  row is made or moved (`SameRows`).
* `DecisionsSurvive`: what people were told of their applications stays true and so do the
  days they cost, whenever servers start, stop or crash; only the command on a database in use
  takes them back.
* `ReferencesHold`: through merges and clean-ups no row refers to one that is gone - users,
  roles, departments and leave types, reviewers, approvers, senders and receivers of
  notifications, warnings, corrections - and no application is lost, pending or decided.

The helpers write fixed rows, so each is one assignment to a table: what `upsert` does to
the row it finds or makes (`SameLeave` says which are found) is written for all rows at
once. The days that are charged are a set of pairs of an application and a day. `Referred`
has all counts that stand before the old administrator is deleted.

Bounds: four applications, two requests that may be made any number of times (a stranger's
sick leave, and an annual leave of `employee1` on the seeded days), four inherited
databases. The month stands still: the seed of a new month adds sheets, payrolls and leave
of its own. The daily cancelling of old leave is left out, and nobody holds the role
"none Role" of an older version.

A crash within the transaction (its limit is 90 s) leaves nothing. The command on a database in use
resets balances and sheets, may give a manager two departments or unseat one, and fails on
a custom leave type with the code of a seeded one. `DB_SNAPSHOT_DEMO.md` lists four users,
the code seeds seven. Entries and times of day are abstracted.

### Fairness

`Session`, `Notify` and `LeaveBalance` (for `EndedIsDecided`) assume some, as said there. In
the other modules a request may always be refused or die, and no liveness is claimed: a missed
check-out is flagged by whichever midnight finds a server, and nothing in the code makes one
be up or makes the job run when it starts, as it does for expired leave.

## 4. Proofs

`TimesheetProofs` proves, for any number of workers and refreshes and any bounds:
`TypeCorrect`, and `Concurrent`: `Spec => []IInv`. `IInv` adds to the properties
above what each worker remembers (`Remembers`): a worker at the last step of a
submission, review or payroll knows that the period is over and that there are
entries; the job's list holds entries of past days. Neither can become false again,
because rows are never deleted or moved to another day and time does not go back
(`EntriesStay`). The properties alone are not inductive: `SubmitCommit` has no guard.

It also proves, under the hypothesis `OneAtATime` (any two workers
are the same), `Serial`: `Spec => [](IInv /\ SInv)`, where `SInv` says of each
step what is still as it was when the handler decided (`Undisturbed`), and from it
the rules of the serial run, among them the action properties `ApprovedIsFinal`,
`DecidedOnce` and `CheckOutKept`.

`SheetImplementsLife` is the refinement of `SheetLife`, step by step, under the same
hypothesis. Nearly all steps are stutters, as they touch only workers, refreshes and the
clock (`WorldStutters`, `ReadsStutter`); what is left is one step of each handler. It needs
of the invariant that a month with entries or corrections has a sheet (`Founded`), that what
the handler decided on is still so (`Undisturbed`, which here also names the entry that a
check-out closes and that a new request waits), and that a sheet which is not approved bears
no signature (`Unsigned`). A decision whose verdict is PENDING, which the DTO admits, is a
stutter; one that says MISSING_OUT is an answer like any other.

`LeaveBalanceProofs` proves `TypeCorrect` and `Concurrent` for any number of
workers, types, days and applications and any edits of the types. `NeverNegative`
is not inductive: a review writes the balance it computed. `Remembers` adds what
saves it: the review has seen at least the days it will take, and neither the dates
of an existing application (`RowsStay`) nor what it saw can change. In the same way
the expiry job's list holds applications that have ended, and time does not go back.

It also proves, under `OneAtATime` and `EditedTypes = {}`,
`Serial`: `Spec => [](IInv /\ SInv)`, and from it `BalanceAccounts` and
`PendingDisjoint`. The charged days are a set of pairs, so
that a deduction is a disjoint union (`OneMoreCharged`) and the books follow from the
library's theorems about cardinalities. The reset may fall in the middle of a review;
`Undisturbed` then still gives the inequality that `BalanceAccounts` needs.

`OrgChartProofs` proves for any people, departments and numbers of requests
`OrgTypeCorrect` and `PeopleHavePlaces` (who has a department has one that exists), under
every interleaving: what saves them is that an update that gives a department checks it
against `known` when it writes (the foreign key). `SeatsAlwaysAgree` rests on `Undrifted`:
while nothing has overlapped, what the request under way has read is still so (`ReadAgrees`),
and `Transfer` keeps the three records together whatever the seat was. The action properties
(`ManagersStay`, `DemotedOnlyWhenReplaced`, `IdleUpdatesKeepOrg`) need that a row that does
not exist yet works nowhere and that a request in progress always writes a role (`Nowhere`).

About Access it proves `AccessRefinesOrgChart`: every step of the tokens is one
of the organisation or leaves it alone, so that what is proved of OrgChart holds in Access
by citation. With `Claims` (a token is absent or claims one of the three roles) follow
`GuardsAlwaysFollowTheSeats` and `OldTokensAlwaysNeedASeat`, and `PagesAlwaysServed` from the
permissions of all routes, one role at a time.

`SessionProofs` proves the two safety properties of Session for any number of tabs,
sessions and actions. `Orderly` says what each slot may hold and that a session that was
just brought has not run out. `InTouch` is the argument: as long as nothing is excused at
most one call is in progress, and `CallInStep` says for each kind of call and each stage how
far it has brought the two sides apart; that a check which follows a refresh cannot be
unauthorized, and that a repeated request cannot be rejected, is where the order of expiry
(`JustIssued`) is needed. The proof attempt corrected the model: `SidesAgree` did not follow
for a tab whose rejected page request reloads the login page while a sign-in is in
progress. Six actions reach that, the run has three; `RejectedForGood` now counts what it
gives up as a reason.

`WorkspaceProofs` proves all four properties of Workspace, in any calendar of months of 28
to 31 days, for any number of chains and actions. About the date rules: `MonthRangeIsPeriod`
(the range of a day contains it and bears the name of the sheet on which the server books
it) and `DefaultWeekFits` (in the window the default week is loaded from, and looked up in,
the sheet that the server accepts), from which `DefaultViewAlwaysSubmits`. `NotAhead`: an
answer on its way was true and what was true then cannot be taken back, as a sheet is only
handed in when its days are over (`Closed`). `TodayKnown`: while the record is `sure`, a chain
that asks about today asks for the right month or nothing is booked today, and where the record
shown is behind the server, some chain will still bring it (`Bringer`). `Recovering` compares every chain with
`Truth(m)`, what the page should show: the view is right, or some chain will still make it
right (`Leads`), and a chain that cannot because another made the sheet first (`Stuck`) is
not the only one.

`BoardsProofs` proves `BoardsTypeCorrect` and both properties of Boards, for any
papers and calls. `AllTold`: rows of the server, of the board and of every answer on its
way show only decisions that were made, and an answer that says yes is about one of them. `RefusedOnlyIfStaleAlways` rests on a call remembering at least the weekdays
of its leave (`InHand`).

`NotifySeedProofs` proves `NothingUnrealAlways` of Notify from three facts that are inductive together:
lists, answers under way and clicks name only committed notes; a committed note stays so.
`StepsImplementInbox` is the refinement step by step, and from it the safety part of
`ImplementsInbox`; its liveness is TLC's.

Of Seed, which shares nothing with Notify but the module, it proves all three properties, for
whoever applies for whatever leave and whatever the transaction finds. `SeededTables` brings
each of `Seedings` to a form in which each table is a function of what was there before.
`SeededTwice` compares two of these, table by table, and does not need the database to be
seedable: after the merge every leave type of the seed has one row, which merging leaves alone
(`MergedOnce`), and an application that was found is found again, the same one unless it is
`Doubled` (`SeededAgain`). `ReferencesHold` is inductive with the
types; that the misspelt role and the old administrator go only when nobody needs them is
`CleanupStage`. `DecisionsSurvive` is not inductive: `SeedInv` adds that an application bears a
number of its own, so that a decision moves the days of that row alone (`DecisionBooks`), that
no application people heard of goes, even when the command is run (`HeardKept`), and that a
server about to seed finds nothing, or what the command has seeded since it looked
(`FirstSeed`), which `SeededTwice` makes harmless. That the books balance after the first seed
is `FirstBooks`.

`RecoveryProofs` proves all four properties of Recovery for any number of browsers, codes,
passwords and requests. `CodeInv` says what each half-done request knows of the code it
handles and that two which are half done cross each other; `WordInv` that every change on
its way is announced or makes the announcement unknown.

Assumptions: `BoundsAssumption` (period and window have at least a day, the other
bounds are natural numbers) and `ReviewersAssumption` (somebody may review) in
Timesheet; `DaysAssumption` (bounds are natural numbers, working days are days) and
`TypesAssumption` (there is a type; paid and edited types are types) in LeaveBalance;
`NoneAssumption` and `SeedAssumption` (the seeded organisation is consistent, and who is
not there yet works nowhere) in OrgChart; `SenderAssumption` (an employee) in Access; `GuestAssumption`
(a stranger to the seed), `NumbersAssumption`, `RequestsAssumption` and `InheritedAssumption`
(older databases obey their foreign keys and their books balance) in Seed;
`SessionAssumption`; `PapersAssumption` (weekdays are days, leaves have dates) in
Boards; `WorkspaceAssumption` (days are days, bounds numbers) and `UnknownAssumption` (what is
not loaded is no summary) in Workspace; `NotifyAssumption` (finitely many notes);
`PeriodsAssumption` (the shape of a calendar); `RecoveryAssumption`. Every run evaluates those of its modules.

Only model-checked: all liveness (`NothingHangs`, `TabsSettle`, `EndedIsDecided`, the liveness
of `ImplementsInbox`). Liveness under fairness and ENABLED are out of the prover's reach, and so
is what a fold or a recursion computes for every input; the modules with theorems use
neither. Induction over the naturals is in reach where it can be put as a
least member of a set (`LeastMember` in `WorkspaceProofs`, from the well-foundedness of <).

## 5. Where the code and its own words part

Each is shown by a configuration whose property TLC finds violated; none is among the
runs that must pass.

| configuration | the rule, and where it is stated | what happens |
|---|---|---|
| `TimesheetRacePending.cfg` | "Pending corrections block monthly timesheet submission" (`docs/ANALYSIS_DESIGN.md:92`, `request-correction.service.ts:65`) | a request and a submission that overlap both succeed |
| `TimesheetRacePayroll.cfg` | "Payroll for this timesheet already generated" (`payroll.service.ts:158`) | two generations that overlap pay twice |
| `TimesheetRaceApproved.cfg` | approval locks entries (`business-rules.spec.ts:407`, `request-correction.service.ts:307`) | a correction decided beside the approval, or the midnight job's old list (`missedCheckout.ts:50`), changes an entry |
| `TimesheetMissingOut.cfg` | the mail of `missedCheckout.ts:88`: no submission before the missed check-out is explained | `canSubmit` (`monthly-time-sheet.service.ts:117`) does not ask for it |
| `TimesheetVerdict.cfg` | a review is approved or rejected (`API_CONTRACT.md:110`) | its DTO admits any status |
| `LeaveOverlap.cfg` | the overlap message of `leave-application.service.ts:114` | approving a rejected application does not look again (`:339`) |
| `LeaveRaceApproval.cfg` | approval subtracts the days (`business-rules.spec.ts:851`) | one of two subtractions is lost (`leave-application.service.ts:354`) |
| `LeaveRaceExpiry.cfg` | the job cancels what was not decided (`expired-leave-application.service.ts:46`) | it cancels what was approved since its list (`:51`) |
| `OrgPromotion.cfg` | a promotion transfers the department (`user.service.ts:688`) | the old manager keeps the seat |
| `AccessLeave.cfg` | the manager of the sender's department reviews (`API_CONTRACT.md:123`) | not when an administrator holds the seat |
| `SessionLoop.cfg` | redirect by role (`docs/SMOKE_CHECKLIST.md:9`) | a tab is sent to and fro |
| `RecoveryBlank.cfg` | "the password has been updated" (`ProfileSection.tsx:123`) | it has not, when it is spaces |
| `WorkspacePeriod.cfg` | the period of month X (`period.helper.ts:6`) | a month shows another sheet |
| `BoardsRepeat.cfg` | days are deducted when the status changes to approved (`leave-application.service.ts:343`) | an approval repeated beside the first deducts them again |
| `BoardsBalance.cfg` | the days do not suffice (`ManagerDashboard.tsx`, `handleApproveLeave`) | they do |

Met on the way and not modelled: when the notification of a correction or a leave fails
the handler returns an error from inside the transaction, which then commits
(`request-correction.service.ts:186`, `:343`, `leave-application.service.ts:150`), while
submission and review of a month throw; the sent list leads HR from a leave note to
the employee's dashboard; a type may turn unpaid between an approval and its repeal.

## 6. Not modelled

* The HR desk's forms and lists (`HRUserManagement`, `HRDashboard`,
  `HRLeaveTypeManagement`): what they send is in Access, what it does in OrgChart and
  LeaveBalance; the form of employees saves the balance it loaded over whatever reviews
  have written (`user.service.ts:708`), so no property about it would hold.
* Reports, exports and the arithmetic of hours and salary: they read once and change
  nothing.
* What comes between the check of the seat in the transaction of a review and its commit; two
  servers that start at once on an empty database.
* The row locks of the transactions: Timesheet's are atomic. A deadlock
  (`monthly-time-sheet.service.ts:910`) is broken by the database, which fails one.
* The system log, the text of mails, the exchange with OAuth providers, token
  signatures, style sheets, migrations.
* Code that no route reaches (`EmployeeDashboard.tsx`, `EmployeeDashboardView`,
  `TimesheetPage`, `timesheetApiService`, `mockData`, the export functions of `hrService`).

----------------------------- MODULE Workspace -----------------------------
(***************************************************************************)
(* The timesheet pages of an employee: EmployeeWorkspaceDashboard.tsx and  *)
(* TimesheetWorkspacePage.tsx with services/timesheetService.ts and        *)
(* services/attendanceService.ts.                                          *)
(*                                                                         *)
(* A page shows a period that its controls choose.  To load it is a chain  *)
(* of requests (the sheet, made if there is none; its days; the            *)
(* corrections), and what is shown is then put together from caches that   *)
(* all chains write: one summary per month, but one list of days.  Chains  *)
(* overlap: the dashboard starts two when it opens, one more after each    *)
(* operation, on a click, on a change of the controls and when a           *)
(* notification arrives.  An operation is a request like the others: what  *)
(* it changed on the server is known to the page only by its answer, which *)
(* may arrive long after it was given, or never.                           *)
(*                                                                         *)
(* The server is as far as these pages see it: what it books, accepts and  *)
(* refuses.  Others change nothing here: reviews are in Timesheet.tla.     *)
(***************************************************************************)
EXTENDS Periods, FiniteSets

CONSTANTS
    Workdays,   \* the days on which the employee works
    Todays,     \* the days on which the page may be opened
    Anchors,    \* the days that the employee may choose in the controls
    Pages,      \* the pages that may be open: "dashboard", "timesheet"
    Slots,      \* BOUND: chains of requests under way together
    Unknown,    \* no answer yet, nothing cached yet
    MaxOps,     \* BOUND: clicks, choices and notifications in a behaviour
    MaxFaults   \* BOUND: requests that fail in a behaviour

ASSUME WorkspaceAssumption ==
    /\ Workdays \subseteq Days /\ Todays \subseteq Days /\ Anchors \subseteq Days
    /\ Pages \subseteq {"dashboard", "timesheet"}
    /\ MaxOps \in Nat /\ MaxFaults \in Nat

VARIABLES
    today,      \* the date
    entry,      \* the server's entry of each workday
    sheet,      \* the server's sheet of each month
    pending,    \* the workdays with a correction request that is not decided
    page,       \* the page that is open
    mode,       \* its controls: the kind of period ...
    anchor,     \* ... and a day of it
    job,        \* the chains of requests under way
    cache,      \* the summary cached for each month
    days,       \* the one cached list of days
    todayRecord,\* what the dashboard says of today, and on which day it loaded that
    view,       \* what the page shows
    loading,    \* does the dashboard say that it loads today's record?
    trouble,    \* does it say that it could not?
    calm,       \* history: was the last view loaded without being disturbed?
    sure,       \* history: was the last record of today?
    ops,        \* clicks, choices and notifications so far
    faults      \* failed requests so far

server == <<entry, sheet, pending>>
controls == <<mode, anchor>>
caches == <<cache, days, todayRecord, view>>
panel == <<loading, trouble>>
history == <<calm, sure>>
vars == <<today, server, page, controls, job, caches, panel, history, ops, faults>>

States == {"none", "in", "out"}
Modes == {"week", "month", "last_month"}
Summaries == [month: Months \cup {0}, status: {"draft", "submitted"}, canSubmit: BOOLEAN]
ASSUME UnknownAssumption == Unknown \notin Summaries /\ Unknown \notin BOOLEAN
NoSheet == [month |-> 0, status |-> "draft", canSubmit |-> FALSE]
NoView == [mode |-> "none", anchor |-> 0, rows |-> {}, summary |-> NoSheet, fixes |-> {}]

\* The steps of a chain: an operation, if it begins with one; the refresh of a check-in or
\* check-out; the record of today; the sheet, its creation, its days, the corrections.
Punches == {"checkIn", "checkOut"}
Asks == Punches \cup {"submit", "correct"}
Steps == Asks \cup {"refresh", "today", "sheet", "create", "days", "fixes"}

\* A chain has the controls of the click that started it; one that began with an operation
\* on a row has its day, and one is held while the button pressed stays off because of it.
Idle == [at |-> "idle", month |-> 0, mode |-> "none", anchor |-> 0, day |-> 0,
         held |-> FALSE, got |-> Unknown]
Free == {s \in Slots : job[s] = Idle}
Quiet == Free = Slots
AboutToday == {s \in Slots : job[s].at \in Punches \cup {"refresh", "today"}}
Held == \E s \in Slots : job[s].held

\* The week is asked for as such; the timesheet page asks for anything else as a month.
Asked(p, m) == IF p = "timesheet" /\ m = "last_month" THEN "month" ELSE m
Chain(at, m, a) ==
    [at |-> at, mode |-> m, anchor |-> a, day |-> 0, held |-> FALSE, got |-> Unknown,
     month |-> IF at \in {"refresh", "today"} THEN PagePeriodOf(today) ELSE LoadedMonth(m, a)]

TypeOK ==
    /\ today \in Days
    /\ entry \in [Workdays -> States]
    /\ sheet \in [Months -> {"none", "draft", "submitted"}]
    /\ pending \subseteq Workdays
    /\ page \in Pages /\ mode \in Modes /\ anchor \in Days
    /\ \A s \in Slots : job[s].at \in Steps \cup {"idle"}
    /\ cache \in [Months -> Summaries \cup {Unknown}]
    /\ days \subseteq Workdays \X States
    /\ todayRecord \in [day: Days \cup {0}, state: States]
    /\ view.rows \subseteq Workdays \X States /\ view.summary \in Summaries
    /\ loading \in BOOLEAN /\ trouble \in BOOLEAN
    /\ calm \in BOOLEAN /\ sure \in BOOLEAN
    /\ ops \in 0..MaxOps /\ faults \in 0..MaxFaults

\* The entries of a sheet.
Booked(m) == {<<d, entry[d]>> : d \in {x \in Workdays : PeriodOf(x) = m /\ entry[x] # "none"}}

\* The page has just been opened, today perhaps checked in elsewhere.  The dashboard
\* loads today's record, and the sheet after it, and the sheet at once as well: two effects.
Init ==
    /\ today \in Todays
    /\ \E begun \in {"none", "in"} :
         entry = [d \in Workdays |->
                    IF d < today THEN "out" ELSE IF d = today THEN begun ELSE "none"]
    /\ sheet = [m \in Months |-> IF Booked(m) = {} THEN "none" ELSE "draft"]
    /\ pending = {}
    /\ page \in Pages
    /\ mode = IF page = "dashboard" THEN "week" ELSE "month"
    /\ anchor = IF page = "dashboard" THEN DefaultAnchor(today) ELSE today
    /\ \E one, two \in Slots :
         /\ one # two
         /\ job = [s \in Slots |->
                     CASE s = one -> Chain("sheet", mode, anchor)
                       [] s = two /\ page = "dashboard" -> Chain("today", mode, anchor)
                       [] OTHER -> Idle]
    /\ cache = [m \in Months |-> Unknown] /\ days = {}
    /\ todayRecord = [day |-> 0, state |-> "none"] /\ view = NoView
    /\ loading = (page = "dashboard") /\ trouble = FALSE
    /\ calm = TRUE /\ sure = TRUE /\ ops = 0 /\ faults = 0

-----------------------------------------------------------------------------
(* The server *)

CanSubmit(m) ==
    /\ Booked(m) # {}
    /\ \A d \in pending : PeriodOf(d) # m
    /\ sheet[m] # "submitted"
Summary(m) == [month |-> m, status |-> sheet[m], canSubmit |-> CanSubmit(m)]

AcceptsSheet(m) ==
    /\ m \in Months /\ sheet[m] = "draft" /\ CanSubmit(m)
    /\ InWindow(today) /\ m = SubmittableMonth(today)
AcceptsCorrection(m, d) ==
    /\ m \in Months /\ sheet[m] = "draft"
    /\ PeriodOf(d) = m /\ d \notin pending

\* What the server books as today's record.  Only workdays are booked here.
Expected(at) == IF at = "checkIn" THEN "none" ELSE "in"
AcceptsPunch(at) == today \in Workdays /\ entry[today] = Expected(at)
Accepts(j) ==
    CASE j.at \in Punches -> AcceptsPunch(j.at)
      [] j.at = "submit" -> AcceptsSheet(j.month)
      [] OTHER -> AcceptsCorrection(j.month, j.day)

\* The server carries out an operation, whenever its request arrives.  From then on what
\* the page has and loads may be behind; a record of today being loaded may be, too.
CarryOut(s) ==
    LET j == job[s]
    IN /\ j.at \in Asks /\ j.got = Unknown /\ Accepts(j)
       /\ entry' = IF j.at \in Punches
                     THEN [entry EXCEPT ![today] = IF j.at = "checkIn" THEN "in" ELSE "out"]
                     ELSE entry
       /\ sheet' = CASE j.at \in Punches -> [sheet EXCEPT ![PeriodOf(today)] = "draft"]
                     [] j.at = "submit" -> [sheet EXCEPT ![j.month] = "submitted"]
                     [] OTHER -> sheet
       /\ pending' = IF j.at = "correct" THEN pending \cup {j.day} ELSE pending
       /\ job' = [job EXCEPT ![s].got = TRUE]
       /\ calm' = FALSE
       /\ sure' = (sure /\ (j.at \in Punches => AboutToday = {s}))
       /\ UNCHANGED <<today, page, controls, caches, panel, ops, faults>>

Refuse(s) ==
    /\ job[s].at \in Asks /\ job[s].got = Unknown /\ ~Accepts(job[s])
    /\ job' = [job EXCEPT ![s].got = FALSE]
    /\ UNCHANGED <<today, server, page, controls, caches, panel, history, ops, faults>>

\* The server answers the request of a load at which a chain waits.
Answer(s) ==
    LET j == job[s]
        Give(answer) == job' = [job EXCEPT ![s].got = answer]
    IN /\ j.at \in Steps \ Asks /\ j.got = Unknown
       /\ CASE j.at \in {"refresh", "today", "days"} -> Give(Booked(j.month))
            [] j.at = "sheet" ->
                 Give(IF sheet[j.month] = "none" THEN NoSheet ELSE Summary(j.month))
            [] j.at = "create" ->
                 Give(IF sheet[j.month] = "none"
                        THEN [NoSheet EXCEPT !.month = j.month] ELSE NoSheet)
            [] OTHER -> Give(pending)
       /\ sheet' = IF j.at = "create" /\ sheet[j.month] = "none"
                     THEN [sheet EXCEPT ![j.month] = "draft"] ELSE sheet
       /\ UNCHANGED <<today, entry, pending, page, controls, caches, panel, history, ops, faults>>

-----------------------------------------------------------------------------
(* The page: answers *)

\* What the page shows for mode m and anchor a, from the caches and corrections f.  The
\* summary is looked up under the month of the anchor; without one a draft is made up.
CachedSummary(a) ==
    IF cache[SummaryMonth(a)] = Unknown THEN NoSheet ELSE cache[SummaryMonth(a)]
RowsIn(list, range) == {r \in list : r[1] \in range.start..range.end}
Composed(m, a, f) ==
    [mode |-> m, anchor |-> a, fixes |-> f, summary |-> CachedSummary(a),
     rows |-> RowsIn(days, PeriodConfig(Asked(page, m), a))]

Proceeds(s, at) ==
    job' = [job EXCEPT ![s] = [Chain(at, job[s].mode, job[s].anchor) EXCEPT !.held = job[s].held]]
Ends(s) == job' = [job EXCEPT ![s] = Idle]

RecordOf(records, d) ==
    [day |-> d, state |-> IF \E r \in records : r[1] = d
                            THEN (CHOOSE r \in records : r[1] = d)[2] ELSE "none"]

ToldSubmitted(m) == [month |-> m, status |-> "submitted", canSubmit |-> FALSE]

\* An operation was accepted: the list of days is loaded after a check-in, and the sheet
\* after the others, of which a submission first tells the cached summary.  Nothing disturbs
\* that if no other chain is under way and the controls are still those of the click.
LandAccepted(s) ==
    /\ job[s].at \in Asks /\ job[s].got = TRUE
    /\ cache' = IF job[s].at = "submit"
                  THEN [cache EXCEPT ![job[s].month] = ToldSubmitted(job[s].month)] ELSE cache
    /\ Proceeds(s, IF job[s].at \in Punches THEN "refresh" ELSE "sheet")
    /\ calm' = (Free = Slots \ {s} /\ <<job[s].mode, job[s].anchor>> = controls)
    /\ UNCHANGED <<days, todayRecord, view, panel, sure>>

\* It was refused: the page says so and loads nothing.
LandRefused(s) ==
    /\ job[s].at \in Asks /\ job[s].got = FALSE
    /\ Ends(s)
    /\ UNCHANGED <<caches, panel, history>>

\* The refresh of a check-in: the chain goes on only if it finds today's record; then the
\* dashboard loads the same list once more, which takes an earlier message away.
LandRefresh(s) ==
    /\ job[s].at = "refresh"
    /\ days' = job[s].got
    /\ IF RecordOf(job[s].got, today).state = "none"
         THEN Ends(s) /\ calm' = FALSE /\ sure' = FALSE /\ UNCHANGED trouble
         ELSE Proceeds(s, "today") /\ trouble' = FALSE /\ UNCHANGED history
    /\ UNCHANGED <<cache, todayRecord, view, loading>>

\* The load of today's record is over, its button on again; the sheet follows, except after
\* a click on the reload button.  A load after a check-in never said that it was loading.
TodayEnds(s) ==
    /\ job' = [job EXCEPT ![s] = IF job[s].mode = "none" THEN Idle
                                 ELSE Chain("sheet", job[s].mode, job[s].anchor)]
    /\ loading' = (loading /\ job[s].held)

\* Today's record is read from the list just cached.
LandTodayAlone(s) ==
    /\ job[s].at = "today"
    /\ days' = job[s].got
    /\ todayRecord' = RecordOf(job[s].got, today)
    /\ Ends(s)
    /\ loading' = (loading /\ job[s].held)
    /\ UNCHANGED <<cache, view, trouble, history>>
LandToday(s) ==
    /\ job[s].at = "today"
    /\ days' = job[s].got
    /\ todayRecord' = RecordOf(job[s].got, today)
    /\ TodayEnds(s)
    /\ UNCHANGED <<cache, view, trouble, history>>

\* A missing sheet is made; the summary of a sheet is cached.
LandSheet(s) ==
    /\ job[s].at = "sheet"
    /\ IF job[s].got = NoSheet
         THEN Proceeds(s, "create") /\ UNCHANGED cache
         ELSE Proceeds(s, "days") /\ cache' = [cache EXCEPT ![job[s].month] = job[s].got]
    /\ UNCHANGED <<days, todayRecord, view, panel, history>>

\* Made by another chain meanwhile: a conflict, which ends this chain.
LandCreate(s) ==
    /\ job[s].at = "create"
    /\ IF job[s].got = NoSheet
         THEN Ends(s) /\ UNCHANGED cache
         ELSE Proceeds(s, "days") /\ cache' = [cache EXCEPT ![job[s].month] = job[s].got]
    /\ UNCHANGED <<days, todayRecord, view, panel, history>>

LandDays(s) ==
    /\ job[s].at = "days"
    /\ days' = job[s].got
    /\ Proceeds(s, "fixes")
    /\ UNCHANGED <<cache, todayRecord, view, panel, history>>

LandFixes(s) ==
    /\ job[s].at = "fixes"
    /\ view' = Composed(job[s].mode, job[s].anchor, job[s].got)
    /\ Ends(s)
    /\ UNCHANGED <<cache, days, todayRecord, panel, history>>

Land(s) ==
    /\ job[s] # Idle /\ job[s].got # Unknown
    /\ \/ LandAccepted(s) \/ LandRefused(s) \/ LandRefresh(s) \/ LandToday(s)
       \/ LandSheet(s) \/ LandCreate(s) \/ LandDays(s) \/ LandFixes(s)
    /\ UNCHANGED <<today, server, page, controls, ops, faults>>

\* A request or its answer is lost, what it asked for carried out or not.  The sheet is
\* loaded even when today's record was not.
Lose(s) ==
    /\ job[s] # Idle /\ faults < MaxFaults
    /\ faults' = faults + 1
    /\ calm' = FALSE
    /\ sure' = (sure /\ s \notin AboutToday)
    /\ IF job[s].at = "today"
         THEN TodayEnds(s) /\ trouble' = TRUE
         ELSE Ends(s) /\ UNCHANGED panel
    /\ UNCHANGED <<today, server, page, controls, caches, ops>>

-----------------------------------------------------------------------------
(* The page: what the employee does *)

\* A chain starts, with the request of an operation or with a load.
Start(at, m, a) ==
    \E s \in Free : job' = [job EXCEPT ![s] = Chain(at, m, a)]
Ask(at, month, day, held) ==
    \E s \in Free :
      job' = [job EXCEPT ![s] = [at |-> at, mode |-> mode, anchor |-> anchor, month |-> month,
                                 day |-> day, held |-> held, got |-> Unknown]]
Counted == ops < MaxOps /\ ops' = ops + 1

\* New controls: chains that are under way ask for something else.
Choose(m, a) ==
    /\ <<m, a>> # controls /\ Counted
    /\ mode' = m /\ anchor' = a
    /\ Start("sheet", m, a)
    /\ calm' = Quiet
    /\ UNCHANGED <<today, server, page, caches, panel, sure, faults>>

\* The reload button, and on the dashboard a notification about a timesheet.  On a page
\* at rest it is not counted.
Reload ==
    /\ IF Quiet THEN UNCHANGED ops ELSE Counted
    /\ Start("sheet", mode, anchor)
    /\ calm' = (calm \/ Quiet)
    /\ UNCHANGED <<today, server, page, controls, caches, panel, sure, faults>>

\* The button beside the message that today's record could not be loaded.  It takes the
\* message away, and may be pressed while a check-in is under way.
ReloadToday ==
    /\ page = "dashboard" /\ trouble /\ Counted
    /\ Start("today", "none", anchor)
    /\ loading' = TRUE /\ trouble' = FALSE
    /\ calm' = FALSE
    /\ sure' = (sure \/ AboutToday = {})
    /\ UNCHANGED <<today, server, page, controls, caches, faults>>

\* Check-in and check-out, as the dashboard offers them by the record it shows, of whichever
\* day that is: no button while it says that it is loading, or until the last click is done.
Punch(at) ==
    /\ page = "dashboard" /\ ~loading /\ ~Held /\ Counted
    /\ today \in Workdays /\ todayRecord.state = Expected(at)
    /\ Ask(at, 0, 0, TRUE)
    /\ UNCHANGED <<today, server, page, controls, caches, panel, history, faults>>

\* The rows in the table: those loaded, and of a week those of the week now chosen.
Displayed ==
    IF mode = "month" \/ (mode = "last_month" /\ page = "dashboard")
      THEN view.rows ELSE RowsIn(view.rows, WeekRange(anchor))

\* Whether the page offers to hand in the sheet it shows.  The dashboard asks the summary,
\* the other page, and the dashboard without a summary, look at rows and corrections.
RowsAllow ==
    /\ view.rows # {} /\ view.summary.status # "submitted"
    /\ LET range == PeriodConfig(Asked(page, view.mode), view.anchor)
       IN \A d \in view.fixes : d \notin range.start..range.end
    /\ InWindow(today)
    /\ \E r \in view.rows : /\ \A q \in view.rows : q[1] <= r[1]
                            /\ MonthOf(r[1]) = MonthOf(today)
Offered ==
    /\ view # NoView
    /\ IF page = "dashboard" /\ view.summary.month # 0
         THEN view.summary.canSubmit /\ view.summary.status # "submitted" ELSE RowsAllow

\* The sheet shown is handed in.  On the page of its own the button stays off until the
\* sheet is loaded again.
SubmitHopefully ==
    /\ Offered /\ Counted /\ view.summary.month # 0
    /\ page = "timesheet" => ~Held
    /\ Ask("submit", view.summary.month, 0, page = "timesheet")
    /\ cache' = [cache EXCEPT ![view.summary.month] = ToldSubmitted(view.summary.month)]
    /\ UNCHANGED <<today, server, page, controls, days, todayRecord, view, panel, history, faults>>
Submit ==
    /\ Offered /\ Counted /\ view.summary.month # 0
    /\ page = "timesheet" => ~Held
    /\ Ask("submit", view.summary.month, 0, page = "timesheet")
    /\ UNCHANGED <<today, server, page, controls, caches, panel, history, faults>>

\* A correction of a row, for the sheet whose summary the page shows.
Correct(d) ==
    /\ Counted
    /\ \E r \in view.rows : r[1] = d
    /\ Ask("correct", view.summary.month, d, FALSE)
    /\ UNCHANGED <<today, server, page, controls, caches, panel, history, faults>>

\* The page stays open over midnight: nothing is loaded.
Midnight ==
    /\ Counted /\ today + 1 \in Days
    /\ today' = today + 1
    /\ UNCHANGED <<server, page, controls, job, caches, panel, history, faults>>

Next ==
    \/ \E s \in Slots : CarryOut(s) \/ Refuse(s) \/ Answer(s) \/ Land(s) \/ Lose(s)
    \/ \E m \in Modes, a \in Anchors \cup {DefaultAnchor(today)} : Choose(m, a)
    \/ Reload \/ ReloadToday \/ Submit \/ Midnight
    \/ \E at \in Punches : Punch(at)
    \/ \E d \in Workdays : Correct(d)

Spec == Init /\ [][Next]_vars

-----------------------------------------------------------------------------
(* Properties *)

Settled == Quiet /\ calm /\ view # NoView

\* A week shows one sheet when its Monday is booked on that sheet and the anchor lies in
\* the month of that name.
OneSheet == mode = "week" /\ \A d \in {WeekRange(anchor).start, anchor} :
                               MonthOf(d) = PeriodOf(WeekRange(anchor).start)

\* When the chains that were started without a disturbance have ended, however they
\* overlapped, such a week shows its sheet as the server has it, the days of that sheet
\* and no others, and the corrections: the list of days that other chains overwrite with
\* those of another month never stays (getMonthlyTimesheetPeriodData, getTimesheetByPeriod).
SettledViewIsRight ==
    (Settled /\ OneSheet) =>
        /\ view.summary = Summary(MonthOf(anchor))
        /\ Displayed = RowsIn(Booked(MonthOf(anchor)), WeekRange(anchor))
        /\ view.fixes = pending

\* From the 17th to the 23rd the dashboard, as it opens, shows the last days of the sheet
\* that the server then accepts, and offers to hand it in if the server would take it
\* (getDefaultAnchorDate and SubmitMonthlyTimesheet compute this apart from each other).
DefaultViewSubmits ==
    (Settled /\ page = "dashboard" /\ InWindow(today)
       /\ mode = "week" /\ anchor = DefaultAnchor(today)) =>
        LET m == SubmittableMonth(today)
        IN /\ view.summary.month = m
           /\ Displayed = {r \in Booked(m) : r[1] >= WeekRange(DayIn(m, 16)).start}
           /\ Offered <=> AcceptsSheet(m)

\* The record of today that the dashboard shows, which decides between check-in and
\* check-out, is the server's whenever nothing about it is under way, whatever the chains for
\* the sheet did to the list it was read from (loadAttendanceData).  Not so after a request
\* about it was lost, or a reload crossed a check-in, until it is loaded anew.
TodayIsShown ==
    (page = "dashboard" /\ AboutToday = {} /\ sure
       /\ todayRecord.day = today /\ today \in Workdays) =>
        todayRecord.state = entry[today]

\* No page shows a sheet as handed in, or a day as worked, that the server does not have:
\* summaries are changed before a load only when the server has accepted
\* (submitMonthlyTimesheetRequest, updateCachedMonthlyTimesheet).
NeverAhead ==
    /\ view.summary.status = "submitted" => sheet[view.summary.month] = "submitted"
    /\ \A r \in view.rows : r[2] = "out" => entry[r[1]] = "out"
    /\ \A m \in Months : cache[m] # Unknown /\ cache[m].status = "submitted"
                           => sheet[m] = "submitted"

\* A month is shown under the name of its period, so what is shown is the sheet of that
\* name: the days from the 17th to the 16th (dateUtils.ts, getCurrentMonthRange, the label
\* of the period; period.helper.ts, the comment on the period of month X).
PageShowsItsPeriod ==
    (Settled /\ mode = "month") =>
        /\ view.summary.month = MonthRange(anchor).month
        /\ Displayed = Booked(MonthRange(anchor).month)
=============================================================================

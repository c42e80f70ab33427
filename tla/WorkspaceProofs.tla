--------------------------- MODULE WorkspaceProofs --------------------------
(***************************************************************************)
(* Theorems about Periods, for every calendar: months of any length from   *)
(* 28 to 31 days, starting on any day of the week.  And about Workspace,   *)
(* for every calendar, any days worked and chosen, and any number of       *)
(* chains of requests under way together: what a page shows is never ahead *)
(* of the server, and it is right when the chains have ended.              *)
(***************************************************************************)
EXTENDS Workspace, WellFoundedInduction, TLAPS

-----------------------------------------------------------------------------
(* The calendar *)

\* The facts of the calendar for one month.
LEMMA MonthLengths ==
    ASSUME NEW m \in Months
    PROVE  /\ m \in Nat /\ LastMonth \in Nat
           /\ First[m] \in Nat /\ First[m + 1] \in Nat
           /\ First[m + 1] - First[m] \in 28..31
<1>1. LastMonth \in Nat /\ m \in 1..LastMonth  BY PeriodsAssumption DEF Months
<1>2. m \in 1..LastMonth + 1 /\ m + 1 \in 1..LastMonth + 1  BY <1>1
<1>3. First[m] \in Nat /\ First[m + 1] \in Nat  BY <1>2, PeriodsAssumption
<1>4. First[m + 1] - First[m] \in 28..31  BY <1>1, PeriodsAssumption
<1>5. QED  BY <1>1, <1>3, <1>4

\* A day has one month: the months of the calendar do not overlap (Date.getMonth).
LEMMA MonthIsUnique ==
    ASSUME NEW d \in Int, NEW m \in Months, d \in First[m]..First[m + 1] - 1
    PROVE  MonthOf(d) = m
<1>1. ASSUME NEW n \in Months, d \in First[n]..First[n + 1] - 1 PROVE n = m
  <2>1. /\ First[n] \in Nat /\ First[n + 1] \in Nat
        /\ First[m] \in Nat /\ First[m + 1] \in Nat
    BY <1>1, PeriodsAssumption DEF Months
  <2>2. First[n] <= d /\ d < First[n + 1] /\ First[m] <= d /\ d < First[m + 1]
    BY <1>1, <2>1
  <2>3. CASE n < m
    <3>1. n + 1 = m \/ n + 1 < m  BY <2>3 DEF Months
    <3>2. First[n + 1] <= First[m]
      <4>1. CASE n + 1 = m  BY <4>1, <2>1
      <4>2. CASE n + 1 < m
        <5>1. n + 1 \in 1..LastMonth + 1 /\ m \in 1..LastMonth + 1
          BY PeriodsAssumption DEF Months
        <5>2. First[n + 1] < First[m]  BY <4>2, <5>1, PeriodsAssumption
        <5>3. QED  BY <5>2, <2>1
      <4>3. QED  BY <3>1, <4>1, <4>2
    <3>3. QED  BY <3>2, <2>1, <2>2
  <2>4. CASE m < n
    <3>1. m + 1 = n \/ m + 1 < n  BY <2>4 DEF Months
    <3>2. First[m + 1] <= First[n]
      <4>1. CASE m + 1 = n  BY <4>1, <2>1
      <4>2. CASE m + 1 < n
        <5>1. m + 1 \in 1..LastMonth + 1 /\ n \in 1..LastMonth + 1
          BY PeriodsAssumption DEF Months
        <5>2. First[m + 1] < First[n]  BY <4>2, <5>1, PeriodsAssumption
        <5>3. QED  BY <5>2, <2>1
      <4>3. QED  BY <3>1, <4>1, <4>2
    <3>3. QED  BY <3>2, <2>1, <2>2
  <2>5. QED  BY <2>3, <2>4 DEF Months
<1>2. MonthOf(d) \in Months /\ d \in First[MonthOf(d)]..First[MonthOf(d) + 1] - 1
  BY DEF MonthOf
<1>3. QED  BY <1>1, <1>2

\* The nth day of a month, for an n that every month has, is in that month and is its nth.
LEMMA DayInMonth ==
    ASSUME NEW m \in Months, NEW n \in 1..28
    PROVE  /\ DayIn(m, n) \in Int
           /\ MonthOf(DayIn(m, n)) = m
           /\ DayOf(DayIn(m, n)) = n
<1>1. /\ First[m] \in Nat /\ First[m + 1] \in Nat
      /\ First[m + 1] - First[m] >= 28
  BY MonthLengths
<1>2. /\ DayIn(m, n) \in Int
      /\ DayIn(m, n) \in First[m]..First[m + 1] - 1
  BY <1>1 DEF DayIn
<1>3. MonthOf(DayIn(m, n)) = m  BY <1>2, MonthIsUnique
<1>4. DayOf(DayIn(m, n)) = n  BY <1>1, <1>3 DEF DayOf, DayIn
<1>5. QED  BY <1>2, <1>3, <1>4

\* Where a day lies in its month.
LEMMA DayFacts ==
    ASSUME NEW m \in Months, NEW d \in First[m]..First[m + 1] - 1
    PROVE  /\ d \in Int /\ First[m] \in Nat
           /\ MonthOf(d) = m
           /\ DayOf(d) = d - First[m] + 1
           /\ DayOf(d) \in 1..31
<1>1. First[m] \in Nat /\ First[m + 1] \in Nat /\ First[m + 1] - First[m] \in 28..31
  BY MonthLengths
<1>2. d \in Int  BY <1>1
<1>3. MonthOf(d) = m  BY <1>2, MonthIsUnique
<1>4. QED  BY <1>1, <1>2, <1>3 DEF DayOf

-----------------------------------------------------------------------------

\* The range that the pages show for a day by month is named after the sheet on which the
\* server books that day, and contains the day (getCurrentMonthRange, getTimesheetPeriod).
THEOREM MonthRangeIsPeriod ==
    ASSUME NEW m \in Months, m > 1, m < LastMonth, NEW d \in First[m]..First[m + 1] - 1
    PROVE  /\ MonthRange(d).month = PeriodOf(d)
           /\ d \in MonthRange(d).start..MonthRange(d).end
<1>1. /\ d \in Int /\ First[m] \in Nat /\ MonthOf(d) = m
      /\ DayOf(d) = d - First[m] + 1 /\ DayOf(d) \in 1..31
  BY DayFacts
<1>2. /\ First[m + 1] \in Nat /\ First[m - 1] \in Nat
      /\ First[m + 1] - First[m] \in 28..31
      /\ First[m] - First[m - 1] \in 28..31
  <2>1. m \in Nat /\ LastMonth \in Nat  BY MonthLengths
  <2>2. m - 1 \in Months /\ (m - 1) + 1 = m  BY <2>1 DEF Months
  <2>3. First[m - 1] \in Nat /\ First[(m - 1) + 1] - First[m - 1] \in 28..31
    BY <2>2, MonthLengths
  <2>4. QED  BY <2>2, <2>3, MonthLengths
<1>3. CASE DayOf(d) >= 17
  <2>1. /\ MonthRange(d).start = DayIn(m, 17) /\ MonthRange(d).end = DayIn(m + 1, 16)
        /\ MonthRange(d).month = m + 1
    BY <1>1, <1>3 DEF MonthRange
  <2>2. d \in DayIn(m, 17)..DayIn(m + 1, 16)
    <3>1. d < First[m + 1]  BY <1>1, <1>2
    <3>2. QED  BY <3>1, <1>1, <1>2, <1>3 DEF DayIn
  <2>3. QED  BY <2>1, <2>2, <1>1, <1>3 DEF PeriodOf
<1>4. CASE ~(DayOf(d) >= 17)
  <2>1. /\ MonthRange(d).start = DayIn(m - 1, 17) /\ MonthRange(d).end = DayIn(m, 16)
        /\ MonthRange(d).month = m
    BY <1>1, <1>4 DEF MonthRange
  <2>2. d \in DayIn(m - 1, 17)..DayIn(m, 16)
    <3>1. d >= First[m]  BY <1>1, <1>2
    <3>2. QED  BY <3>1, <1>1, <1>2, <1>4 DEF DayIn
  <2>3. QED  BY <2>1, <2>2, <1>1, <1>4 DEF PeriodOf
<1>5. QED  BY <1>3, <1>4

\* A week runs from the Monday on or before a day, at most six days back, and contains it.
LEMMA WeekContains ==
    ASSUME NEW d \in Int
    PROVE  /\ WeekRange(d).start \in d - 6..d
           /\ WeekRange(d).end = WeekRange(d).start + 6
<1>1. WeekDay(d) \in 0..6
  BY PeriodsAssumption DEF WeekDay
<1>2. CASE WeekDay(d) = 0  BY <1>2 DEF WeekRange
<1>3. CASE WeekDay(d) # 0  BY <1>1, <1>3 DEF WeekRange
<1>4. QED  BY <1>2, <1>3

\* In the days in which the server accepts a sheet, the dashboard opens on a week for which
\* it asks for the sheet that the server accepts, looks up the summary of that sheet, and
\* lies at the end of the period booked on it: in every month, whatever the weekday
\* (getDefaultAnchorDate, getPeriodConfig, SubmitMonthlyTimesheet).
THEOREM DefaultWeekFits ==
    ASSUME NEW m \in Months, NEW d \in First[m]..First[m + 1] - 1, InWindow(d)
    PROVE  LET a == DefaultAnchor(d)
           IN /\ LoadedMonth("week", a) = SubmittableMonth(d)
              /\ SummaryMonth(a) = SubmittableMonth(d)
              /\ PeriodOf(a) = SubmittableMonth(d)
              /\ PeriodOf(WeekRange(a).start) = SubmittableMonth(d)
<1> DEFINE a == DefaultAnchor(d)
           monday == WeekRange(a).start
<1>1. SubmittableMonth(d) = m  BY DayFacts DEF SubmittableMonth
<1>2. a = DayIn(m, 16)  BY DayFacts DEF DefaultAnchor
<1>3. a \in Int /\ MonthOf(a) = m /\ DayOf(a) = 16  BY <1>2, DayInMonth
<1>4. monday \in a - 6..a  BY <1>3, WeekContains
<1>5. PICK n \in 10..16 : monday = DayIn(m, n)
  <2>1. First[m] \in Nat  BY MonthLengths
  <2>2. a = First[m] + 15  BY <1>2, <2>1 DEF DayIn
  <2>3. monday \in First[m] + 9..First[m] + 15  BY <1>4, <2>1, <2>2
  <2>4. monday - First[m] + 1 \in 10..16 /\ monday = DayIn(m, monday - First[m] + 1)
    BY <2>1, <2>3 DEF DayIn
  <2>5. QED  BY <2>4
<1>6. MonthOf(monday) = m /\ DayOf(monday) = n  BY <1>5, DayInMonth
<1>7. LoadedMonth("week", a) = m  BY <1>6 DEF LoadedMonth, PeriodConfig
<1>8. PeriodOf(a) = m /\ PeriodOf(monday) = m  BY <1>3, <1>5, <1>6 DEF PeriodOf
<1>9. QED  BY <1>1, <1>3, <1>7, <1>8 DEF SummaryMonth

-----------------------------------------------------------------------------
(* Every day of the calendar has its month *)

\* A set of numbers that is not empty has a least member.
LEMMA LeastMember ==
    ASSUME NEW T, T \subseteq Nat, T # {}
    PROVE  \E n \in T : \A k \in T : n <= k
<1> DEFINE Below == {ss \in Nat \X Nat : ss[1] < ss[2]}
<1>1. IsWellFoundedOn(Below, Nat)  BY NatLessThanWellFounded DEF OpToRel
<1>2. ASSUME NEW n \in T, NEW k \in T, ~(<<k, n>> \in Below) PROVE n <= k  BY <1>2
<1> HIDE DEF Below
<1>3. PICK n \in T : \A k \in T : ~(<<k, n>> \in Below)  BY <1>1, WFMin
<1>4. QED  BY <1>2, <1>3

\* The month of a day is the last one that has begun (Date.getMonth).
LEMMA MonthOfDay ==
    ASSUME NEW d \in Days
    PROVE  /\ d \in Nat \ {0}
           /\ MonthOf(d) \in Months
           /\ d \in First[MonthOf(d)]..First[MonthOf(d) + 1] - 1
<1> DEFINE Later == {m \in 1..LastMonth + 1 : d < First[m]}
<1>1. LastMonth \in Nat \ {0} /\ \A m \in 1..LastMonth + 1 : First[m] \in Nat \ {0}
  BY PeriodsAssumption
<1>2. 1 \in 1..LastMonth + 1 /\ LastMonth + 1 \in 1..LastMonth + 1  BY <1>1
<1>3. d \in Nat \ {0} /\ First[1] <= d /\ d < First[LastMonth + 1]
  BY <1>1, <1>2 DEF Days
<1>4. Later \subseteq Nat /\ Later # {}  BY <1>1, <1>2, <1>3
<1>5. PICK n \in Later : \A k \in Later : n <= k
  <2> HIDE DEF Later
  <2>1. QED  BY <1>4, LeastMember
<1>6. n \in 1..LastMonth + 1 /\ n # 1 /\ d < First[n]  BY <1>1, <1>2, <1>3, <1>5
<1>7. n - 1 \in Months /\ n - 1 \in 1..LastMonth + 1 /\ n = (n - 1) + 1
  BY <1>1, <1>6 DEF Months
<1>8. ~(d < First[n - 1])
  <2>1. n - 1 \notin Later  BY <1>5, <1>6
  <2>2. QED  BY <1>7, <2>1
<1>9. d \in First[n - 1]..First[(n - 1) + 1] - 1
  BY <1>1, <1>3, <1>6, <1>7, <1>8
<1>10. MonthOf(d) = n - 1  BY <1>3, <1>7, <1>9, MonthIsUnique
<1>11. QED  BY <1>3, <1>7, <1>9, <1>10

\* The sheets that days are booked on follow each other as the days do.
LEMMA PeriodsAdvance ==
    ASSUME NEW d \in Days, d + 1 \in Days
    PROVE  PeriodOf(d) \in Int /\ PeriodOf(d + 1) \in Int /\ PeriodOf(d) <= PeriodOf(d + 1)
<1> DEFINE m == MonthOf(d)
           n == MonthOf(d + 1)
<1>1. d \in Nat /\ m \in Months /\ d \in First[m]..First[m + 1] - 1  BY MonthOfDay
<1>2. n \in Months /\ d + 1 \in First[n]..First[n + 1] - 1  BY MonthOfDay
<1> HIDE DEF m, n
<1>3. /\ m \in Nat /\ n \in Nat /\ LastMonth \in Nat
      /\ First[m] \in Nat /\ First[m + 1] \in Nat /\ First[n] \in Nat
      /\ First[m + 1] - First[m] \in 28..31
  BY <1>1, <1>2, MonthLengths
<1>4. DayOf(d) = d - First[m] + 1 /\ DayOf(d + 1) = d + 1 - First[n] + 1
  BY <1>1, <1>2, <1>3, DayFacts DEF DayOf, m, n
<1>5. /\ PeriodOf(d) = IF DayOf(d) >= 17 THEN m + 1 ELSE m
      /\ PeriodOf(d + 1) = IF DayOf(d + 1) >= 17 THEN n + 1 ELSE n
  BY DEF PeriodOf, m, n
<1>6. CASE d + 1 < First[m + 1]
  <2>1. d + 1 \in First[m]..First[m + 1] - 1  BY <1>1, <1>3, <1>6
  <2>2. n = m  BY <1>1, <2>1, MonthIsUnique DEF n
  <2>3. QED  BY <1>1, <1>3, <1>4, <1>5, <2>2
<1>7. CASE ~(d + 1 < First[m + 1])
  <2>1. d + 1 = First[m + 1]  BY <1>1, <1>3, <1>7
  <2>2. m + 1 \in Months
    <3>1. d + 1 < First[LastMonth + 1]
      <4>1. LastMonth + 1 \in 1..LastMonth + 1  BY <1>3
      <4>2. First[LastMonth + 1] \in Nat /\ First[1] \in Nat
        BY <4>1, PeriodsAssumption
      <4>3. QED  BY <4>2 DEF Days
    <3>2. m # LastMonth  BY <1>3, <2>1, <3>1
    <3>3. QED  BY <1>1, <1>3, <3>2 DEF Months
  <2>3. d + 1 \in First[m + 1]..First[(m + 1) + 1] - 1
    <3>1. First[(m + 1) + 1] \in Nat /\ First[(m + 1) + 1] - First[m + 1] \in 28..31
      BY <2>2, MonthLengths
    <3>2. QED  BY <1>3, <2>1, <3>1
  <2>4. n = m + 1  BY <1>1, <2>2, <2>3, MonthIsUnique DEF n
  <2>5. DayOf(d + 1) = 1  BY <1>1, <1>3, <1>4, <2>1, <2>4
  <2>6. QED  BY <1>3, <1>5, <2>4, <2>5
<1>8. QED  BY <1>6, <1>7

\* The day on which the dashboard opens is a day of the calendar (getDefaultAnchorDate).
LEMMA DefaultAnchorIsDay ==
    ASSUME NEW d \in Days
    PROVE  DefaultAnchor(d) \in Days
<1> DEFINE m == MonthOf(d)
<1>1. d \in Nat /\ m \in Months /\ d \in First[m]..First[m + 1] - 1  BY MonthOfDay
<1> HIDE DEF m
<1>2. /\ m \in Nat /\ First[m] \in Nat /\ First[m + 1] \in Nat
      /\ First[m + 1] - First[m] \in 28..31
  BY <1>1, MonthLengths
<1>3. CASE InWindow(d)
  <2>1. DefaultAnchor(d) = First[m] + 15  BY <1>2, <1>3 DEF DefaultAnchor, DayIn, m
  <2>2. DayOf(d) = d - First[m] + 1 /\ DayOf(d) \in 17..23
    BY <1>1, <1>3, DayFacts DEF InWindow
  <2>3. First[m] + 15 < d  BY <1>1, <1>2, <2>2
  <2>4. First[1] \in Nat /\ First[1] <= First[m]
    <3>1. LastMonth \in Nat \ {0} /\ 1 \in 1..LastMonth + 1 /\ m \in 1..LastMonth + 1
      BY <1>1, PeriodsAssumption DEF Months
    <3>2. First[1] \in Nat  BY <3>1, PeriodsAssumption
    <3>3. 1 = m \/ 1 < m  BY <3>1
    <3>4. QED  BY <1>2, <3>1, <3>2, <3>3, PeriodsAssumption
  <2>5. First[LastMonth + 1] \in Nat
    <3>1. LastMonth \in Nat /\ LastMonth + 1 \in 1..LastMonth + 1  BY PeriodsAssumption
    <3>2. QED  BY <3>1, PeriodsAssumption
  <2>6. d < First[LastMonth + 1]  BY <2>4, <2>5 DEF Days
  <2>7. QED  BY <1>1, <1>2, <2>1, <2>3, <2>4, <2>5, <2>6 DEF Days
<1>4. CASE ~InWindow(d)  BY <1>4 DEF DefaultAnchor
<1>5. QED  BY <1>3, <1>4

-----------------------------------------------------------------------------
(* What is known of the chains of requests *)

Record(j) == [at |-> j.at, month |-> j.month, mode |-> j.mode, anchor |-> j.anchor,
              day |-> j.day, held |-> j.held, got |-> j.got]

\* What the server may have answered at each step of a chain.
AnswerFits(j) ==
    /\ j.at \in {"refresh", "today", "days"} => j.got \subseteq Workdays \X States
    /\ j.at \in {"sheet", "create"} =>
         \/ j.got = NoSheet
         \/ /\ j.got.month = j.month
            /\ j.month \in Months => j.got \in Summaries
    /\ j.at = "fixes" => j.got \subseteq Workdays

IsChain(j) ==
    /\ j = Record(j)
    /\ j.at \in Steps /\ j.anchor \in Days
    /\ j.mode \in Modes \/ (j.at = "today" /\ j.mode = "none")
    /\ j.at = "correct" => j.day \in Workdays
    /\ j.got # Unknown => AnswerFits(j)

Chains ==
    /\ job = [s \in Slots |-> job[s]]
    /\ \A s \in Slots : job[s] = Idle \/ IsChain(job[s])

Typed == TypeOK /\ Chains

\* A request of a chain that has just been sent.
Sent(k, at, m, a) ==
    /\ k = Record(k) /\ k.at = at /\ k.mode = m /\ k.anchor = a /\ k.got = Unknown
    /\ at \notin Asks =>
         k.month = IF at \in {"refresh", "today"} THEN PagePeriodOf(today) ELSE LoadedMonth(m, a)

LEMMA StepNames ==
    /\ \A at \in {"refresh", "today", "sheet", "create", "days", "fixes"} :
         at \in Steps /\ at \notin Asks /\ at # "correct" /\ at # "idle"
    /\ Asks \subseteq Steps /\ Punches \subseteq Asks /\ "idle" \notin Steps
    /\ "submit" \in Asks /\ "correct" \in Asks
    /\ \A at \in Asks : at \in Punches \/ at = "submit" \/ at = "correct"
    /\ \A at \in Punches : at # "correct" /\ at # "submit"
    /\ \A at \in Steps : at \in Asks \/ at \in {"refresh", "today", "sheet", "create", "days", "fixes"}
BY DEF Steps, Asks, Punches

LEMMA IdleIsNoChain ==
    ASSUME NEW j, IsChain(j)
    PROVE  j # Idle
<1>1. Idle.at = "idle"  BY DEF Idle
<1>2. QED  BY <1>1, StepNames DEF IsChain

LEMMA ChainFields ==
    ASSUME NEW at, NEW m, NEW a
    PROVE  Sent(Chain(at, m, a), at, m, a) /\ Chain(at, m, a).day = 0
BY DEF Chain, Record, Sent

LEMMA HeldFields ==
    ASSUME NEW at, NEW m, NEW a, NEW h
    PROVE  /\ Sent([Chain(at, m, a) EXCEPT !.held = h], at, m, a)
           /\ [Chain(at, m, a) EXCEPT !.held = h].day = 0
BY DEF Chain, Record, Sent

\* A request that is sent is a chain.
LEMMA SentIsChain ==
    ASSUME NEW at \in Steps, NEW m, NEW a \in Days, NEW k, Sent(k, at, m, a),
           m \in Modes \/ (at = "today" /\ m = "none"),
           at = "correct" => k.day \in Workdays
    PROVE  IsChain(k) /\ k # Idle
<1>1. IsChain(k)  BY DEF IsChain, Sent
<1>2. QED  BY <1>1, IdleIsNoChain

\* An answer changes what the chain has got and nothing else of it.
LEMMA GotOnly ==
    ASSUME NEW s \in Slots, NEW answer, Chains, IsChain(job[s]),
           job' = [job EXCEPT ![s].got = answer]
    PROVE  /\ job' = [t \in Slots |-> job'[t]]
           /\ \A t \in Slots : t # s => job'[t] = job[t]
           /\ job'[s] = Record(job'[s])
           /\ job'[s].at = job[s].at /\ job'[s].month = job[s].month
           /\ job'[s].mode = job[s].mode /\ job'[s].anchor = job[s].anchor
           /\ job'[s].day = job[s].day /\ job'[s].got = answer
<1> DEFINE j == job[s]
<1>1. j = Record(j) /\ job = [t \in Slots |-> job[t]]  BY DEF IsChain, Chains
<1>2. job' = [job EXCEPT ![s] = [job[s] EXCEPT !.got = answer]]
  OBVIOUS
<1>3. [Record(j) EXCEPT !.got = answer] =
        [at |-> j.at, month |-> j.month, mode |-> j.mode, anchor |-> j.anchor,
         day |-> j.day, held |-> j.held, got |-> answer]
  BY DEF Record
<1>4. job'[s] = [at |-> j.at, month |-> j.month, mode |-> j.mode, anchor |-> j.anchor,
                 day |-> j.day, held |-> j.held, got |-> answer]
  BY <1>1, <1>2, <1>3
<1>5. job' = [t \in Slots |-> job'[t]] /\ \A t \in Slots : t # s => job'[t] = job[t]
  BY <1>1, <1>2
<1>6. QED  BY <1>4, <1>5 DEF Record

LEMMA ChainsNext ==
    ASSUME job' = [t \in Slots |-> job'[t]],
           \A t \in Slots : job'[t] = Idle \/ IsChain(job'[t])
    PROVE  Chains'
BY DEF Chains, Idle, IsChain, Record, AnswerFits, NoSheet

\* Nothing else of the chains changes when a chain starts, goes on or ends.
LEMMA OneMoves ==
    ASSUME NEW s \in Slots, NEW j, Chains, job' = [job EXCEPT ![s] = j],
           j = Idle \/ IsChain(j)
    PROVE  /\ Chains' /\ job'[s] = j
           /\ \A t \in Slots : t # s => job'[t] = job[t]
<1>1. /\ job' = [t \in Slots |-> job'[t]] /\ job'[s] = j
      /\ \A t \in Slots : t # s => job'[t] = job[t]
  BY DEF Chains
<1>2. \A t \in Slots : job'[t] = Idle \/ IsChain(job'[t])
  BY <1>1 DEF Chains
<1>3. QED  BY <1>1, <1>2, ChainsNext

\* The same of a chain that sends its next request, and of one that ends.
LEMMA Sending ==
    ASSUME Typed, NEW s \in Slots, NEW at \in Steps, NEW m, NEW a \in Days, NEW k,
           job' = [job EXCEPT ![s] = k], Sent(k, at, m, a),
           m \in Modes \/ (at = "today" /\ m = "none"),
           at = "correct" => k.day \in Workdays
    PROVE  /\ Chains' /\ Sent(job'[s], at, m, a) /\ IsChain(job'[s])
           /\ \A t \in Slots : t # s => job'[t] = job[t]
<1>1. IsChain(k)  BY SentIsChain
<1>2. QED  BY <1>1, OneMoves DEF Typed

LEMMA Proceeding ==
    ASSUME Typed, NEW s \in Slots, NEW at \in Steps, at # "correct", Proceeds(s, at),
           IsChain(job[s]), job[s].mode \in Modes \/ at = "today"
    PROVE  /\ Chains' /\ Sent(job'[s], at, job[s].mode, job[s].anchor) /\ IsChain(job'[s])
           /\ \A t \in Slots : t # s => job'[t] = job[t]
<1> DEFINE m == job[s].mode
           a == job[s].anchor
           k == [Chain(at, m, a) EXCEPT !.held = job[s].held]
<1>1. a \in Days /\ (m \in Modes \/ (at = "today" /\ m = "none"))  BY DEF IsChain
<1>2. job' = [job EXCEPT ![s] = k]  BY DEF Proceeds
<1>3. Sent(k, at, m, a)  BY HeldFields
<1> HIDE DEF m, a, k
<1>4. /\ Chains' /\ Sent(job'[s], at, m, a) /\ IsChain(job'[s])
      /\ \A t \in Slots : t # s => job'[t] = job[t]
  BY <1>1, <1>2, <1>3, Sending
<1>5. QED  BY <1>4 DEF m, a

\* What the next request asks for.
LEMMA ProceedsSends ==
    ASSUME Typed, NEW s \in Slots, NEW at, Proceeds(s, at)
    PROVE  Sent(job'[s], at, job[s].mode, job[s].anchor)
<1> DEFINE k == [Chain(at, job[s].mode, job[s].anchor) EXCEPT !.held = job[s].held]
<1>1. job' = [job EXCEPT ![s] = k]  BY DEF Proceeds
<1>2. Sent(k, at, job[s].mode, job[s].anchor)  BY HeldFields
<1> HIDE DEF k
<1>3. job'[s] = k  BY <1>1 DEF Typed, Chains
<1>4. QED  BY <1>2, <1>3

LEMMA Ending ==
    ASSUME Typed, NEW s \in Slots, Ends(s)
    PROVE  /\ Chains' /\ job'[s] = Idle
           /\ \A t \in Slots : t # s => job'[t] = job[t]
BY OneMoves DEF Typed, Ends

\* The end of a load of today's record: the sheet follows, or nothing.
LEMMA EndingToday ==
    ASSUME Typed, NEW s \in Slots, TodayEnds(s), IsChain(job[s])
    PROVE  /\ Chains' /\ \A t \in Slots : t # s => job'[t] = job[t]
           /\ \/ job[s].mode = "none" /\ job'[s] = Idle
              \/ /\ job[s].mode \in Modes /\ IsChain(job'[s])
                 /\ Sent(job'[s], "sheet", job[s].mode, job[s].anchor)
<1> DEFINE m == job[s].mode
           a == job[s].anchor
           k == Chain("sheet", m, a)
<1>1. a \in Days /\ (m \in Modes \/ m = "none") /\ "none" \notin Modes  BY DEF IsChain, Modes
<1>2. job' = [job EXCEPT ![s] = IF m = "none" THEN Idle ELSE k]  BY DEF TodayEnds
<1>3. Sent(k, "sheet", m, a)  BY ChainFields
<1> HIDE DEF m, a, k
<1>4. CASE m = "none"
  <2>1. job' = [job EXCEPT ![s] = Idle]  BY <1>2, <1>4
  <2>2. QED  BY <1>4, <2>1, OneMoves DEF Typed, m
<1>5. CASE m # "none"
  <2>1. job' = [job EXCEPT ![s] = k]  BY <1>2, <1>5
  <2>2. /\ Chains' /\ Sent(job'[s], "sheet", m, a) /\ IsChain(job'[s])
        /\ \A t \in Slots : t # s => job'[t] = job[t]
    BY <1>1, <1>3, <1>5, <2>1, StepNames, Sending
  <2>3. QED  BY <1>1, <1>5, <2>2 DEF m, a
<1>6. QED  BY <1>4, <1>5

LEMMA Starting ==
    ASSUME Typed, NEW at \in Steps, at # "correct", NEW m, NEW a \in Days, Start(at, m, a),
           m \in Modes \/ (at = "today" /\ m = "none")
    PROVE  /\ Chains'
           /\ \E s \in Slots :
                /\ job[s] = Idle /\ Sent(job'[s], at, m, a) /\ IsChain(job'[s])
                /\ \A t \in Slots : t # s => job'[t] = job[t]
<1>1. PICK s \in Slots : job[s] = Idle /\ job' = [job EXCEPT ![s] = Chain(at, m, a)]
  BY DEF Start, Free
<1>2. Sent(Chain(at, m, a), at, m, a)  BY ChainFields
<1>3. /\ Chains' /\ Sent(job'[s], at, m, a) /\ IsChain(job'[s])
      /\ \A t \in Slots : t # s => job'[t] = job[t]
  BY <1>1, <1>2, Sending
<1>4. QED  BY <1>1, <1>3

\* A click on an operation only sends its request.
LEMMA Pressing ==
    ASSUME Typed, Submit \/ (\E at \in Punches : Punch(at)) \/ (\E d \in Workdays : Correct(d))
    PROVE  /\ Chains'
           /\ \E s \in Slots : \E at \in Asks :
                /\ job[s] = Idle /\ Sent(job'[s], at, mode, anchor) /\ IsChain(job'[s])
                /\ \A t \in Slots : t # s => job'[t] = job[t]
<1>1. PICK s \in Slots : \E k :
        /\ job[s] = Idle /\ job' = [job EXCEPT ![s] = k]
        /\ \E at \in Asks : Sent(k, at, mode, anchor) /\ (at = "correct" => k.day \in Workdays)
  <2>1. ASSUME NEW at \in Asks, NEW month, NEW day, NEW held, Ask(at, month, day, held),
               at = "correct" => day \in Workdays
        PROVE  \E s \in Slots : \E k :
                 /\ job[s] = Idle /\ job' = [job EXCEPT ![s] = k]
                 /\ Sent(k, at, mode, anchor) /\ (at = "correct" => k.day \in Workdays)
    <3> DEFINE k == [at |-> at, mode |-> mode, anchor |-> anchor, month |-> month,
                     day |-> day, held |-> held, got |-> Unknown]
    <3>1. PICK s \in Slots : job[s] = Idle /\ job' = [job EXCEPT ![s] = k]
      BY <2>1 DEF Ask, Free
    <3>2. Sent(k, at, mode, anchor) /\ k.day = day  BY DEF Record, Sent
    <3> HIDE DEF k
    <3>3. QED  BY <2>1, <3>1, <3>2
  <2>2. \E at \in Asks : \E month, day, held :
          Ask(at, month, day, held) /\ (at = "correct" => day \in Workdays)
    <3>1. CASE Submit  BY <3>1, StepNames DEF Submit
    <3>2. ASSUME NEW at \in Punches, Punch(at)
          PROVE  Ask(at, 0, 0, TRUE) /\ at \in Asks /\ at # "correct"
      BY <3>2, StepNames DEF Punch
    <3>3. ASSUME NEW d \in Workdays, Correct(d)
          PROVE  Ask("correct", view.summary.month, d, FALSE) /\ "correct" \in Asks
      BY <3>3, StepNames DEF Correct
    <3>4. QED  BY <3>1, <3>2, <3>3
  <2>3. QED  BY <2>1, <2>2
<1>2. PICK k : /\ job[s] = Idle /\ job' = [job EXCEPT ![s] = k]
              /\ \E at \in Asks : Sent(k, at, mode, anchor) /\ (at = "correct" => k.day \in Workdays)
  BY <1>1
<1>3. PICK at \in Asks : Sent(k, at, mode, anchor) /\ (at = "correct" => k.day \in Workdays)
  BY <1>2
<1>4. mode \in Modes /\ anchor \in Days /\ at \in Steps  BY StepNames DEF Typed, TypeOK
<1>5. /\ Chains' /\ Sent(job'[s], at, mode, anchor) /\ IsChain(job'[s])
      /\ \A t \in Slots : t # s => job'[t] = job[t]
  BY <1>2, <1>3, <1>4, Sending
<1>6. QED  BY <1>2, <1>5

-----------------------------------------------------------------------------
(* Type correctness *)

\* What the other definitions of the state need to know of the constants.
LEMMA ConstantFacts ==
    /\ Workdays \subseteq Days /\ Todays \subseteq Days /\ Anchors \subseteq Days
    /\ 0 \in 0..MaxOps /\ 0 \in 0..MaxFaults
    /\ NoSheet \in Summaries /\ NoView.rows = {} /\ NoView.summary = NoSheet
    /\ \A m \in Months : m # 0
<1>1. LastMonth \in Nat  BY PeriodsAssumption
<1>2. \A m \in Months : m # 0  BY <1>1 DEF Months
<1>3. QED  BY <1>2, WorkspaceAssumption DEF NoSheet, Summaries, NoView

LEMMA InitTyped == Init => Typed
<1> SUFFICES ASSUME Init PROVE Typed  OBVIOUS
<1>1. today \in Days  BY ConstantFacts DEF Init
<1>2. /\ entry \in [Workdays -> States] /\ sheet \in [Months -> {"none", "draft", "submitted"}]
      /\ pending \subseteq Workdays
  BY DEF Init, States
<1>3. page \in Pages /\ mode \in Modes /\ anchor \in Days
  BY <1>1, DefaultAnchorIsDay DEF Init, Modes
<1>4. /\ job = [s \in Slots |-> job[s]]
      /\ \A s \in Slots : job[s] = Idle \/ job[s] \in {Chain("sheet", mode, anchor), Chain("today", mode, anchor)}
  BY DEF Init
<1>5. Chains
  <2>1. /\ Sent(Chain("sheet", mode, anchor), "sheet", mode, anchor)
        /\ Sent(Chain("today", mode, anchor), "today", mode, anchor)
    BY ChainFields
  <2>2. IsChain(Chain("sheet", mode, anchor)) /\ IsChain(Chain("today", mode, anchor))
    BY <1>3, <2>1, StepNames, SentIsChain
  <2>3. QED  BY <1>4, <2>2 DEF Chains
<1>6. \A s \in Slots : job[s].at \in Steps \cup {"idle"}
  BY <1>5 DEF Chains, IsChain, Idle
<1>7. cache \in [Months -> Summaries \cup {Unknown}] /\ days \subseteq Workdays \X States
  BY DEF Init
<1>8. todayRecord \in [day: Days \cup {0}, state: States]
  BY DEF Init, States
<1>9. view.rows \subseteq Workdays \X States /\ view.summary \in Summaries
  BY ConstantFacts DEF Init
<1>10. /\ loading \in BOOLEAN /\ trouble \in BOOLEAN /\ calm \in BOOLEAN /\ sure \in BOOLEAN
       /\ ops \in 0..MaxOps /\ faults \in 0..MaxFaults
  BY ConstantFacts DEF Init
<1>11. QED  BY <1>1, <1>2, <1>3, <1>5, <1>6, <1>7, <1>8, <1>9, <1>10 DEF Typed, TypeOK

\* What the server gives fits the request.
LEMMA Answering ==
    ASSUME Typed, NEW s \in Slots, Answer(s)
    PROVE  /\ Chains' /\ IsChain(job[s]) /\ IsChain(job'[s]) /\ job[s].got = Unknown
           /\ \A t \in Slots : t # s => job'[t] = job[t]
           /\ job'[s].at = job[s].at /\ job'[s].month = job[s].month
           /\ job'[s].mode = job[s].mode /\ job'[s].anchor = job[s].anchor
           /\ job[s].at \in Steps /\ job[s].at \notin Asks
           /\ job[s].at \in {"refresh", "today", "days"} => job'[s].got = Booked(job[s].month)
           /\ job[s].at = "sheet" => job'[s].got =
                 IF sheet[job[s].month] = "none" THEN NoSheet ELSE Summary(job[s].month)
           /\ job[s].at = "create" => job'[s].got =
                 IF sheet[job[s].month] = "none"
                   THEN [NoSheet EXCEPT !.month = job[s].month] ELSE NoSheet
           /\ job[s].at = "fixes" => job'[s].got = pending
<1> DEFINE j == job[s]
<1>1. IsChain(j) /\ j.at \in Steps /\ j.at \notin Asks
  <2>1. j # Idle  BY StepNames DEF Answer, Idle
  <2>2. QED  BY <2>1 DEF Answer, Typed, Chains, IsChain
<1>2. PICK answer :
        /\ job' = [job EXCEPT ![s].got = answer]
        /\ j.at \in {"refresh", "today", "days"} => answer = Booked(j.month)
        /\ j.at = "sheet" => answer = IF sheet[j.month] = "none" THEN NoSheet ELSE Summary(j.month)
        /\ j.at = "create" => answer =
              IF sheet[j.month] = "none" THEN [NoSheet EXCEPT !.month = j.month] ELSE NoSheet
        /\ j.at = "fixes" => answer = pending
  <2>1. j.at \in {"refresh", "today", "sheet", "create", "days", "fixes"}
    BY <1>1, StepNames
  <2>2. QED  BY <2>1 DEF Answer
<1>3. /\ job' = [t \in Slots |-> job'[t]]
      /\ \A t \in Slots : t # s => job'[t] = job[t]
      /\ job'[s] = Record(job'[s])
      /\ job'[s].at = j.at /\ job'[s].month = j.month
      /\ job'[s].mode = j.mode /\ job'[s].anchor = j.anchor
      /\ job'[s].day = j.day /\ job'[s].got = answer
  BY <1>1, <1>2, GotOnly DEF Typed
<1>4. AnswerFits(job'[s])
  <2>1. entry \in [Workdays -> States] /\ pending \subseteq Workdays
        /\ sheet \in [Months -> {"none", "draft", "submitted"}]
    BY DEF Typed, TypeOK
  <2>2. \A m : Booked(m) \subseteq Workdays \X States
    BY <2>1 DEF Booked
  <2>3. ASSUME j.at = "sheet", answer # NoSheet
        PROVE  answer.month = j.month /\ (j.month \in Months => answer \in Summaries)
    <3>1. answer = [month |-> j.month, status |-> sheet[j.month], canSubmit |-> CanSubmit(j.month)]
          /\ sheet[j.month] # "none"
      BY <1>2, <2>3 DEF Summary
    <3>2. CanSubmit(j.month) \in BOOLEAN  BY DEF CanSubmit
    <3>3. QED  BY <2>1, <3>1, <3>2 DEF Summaries
  <2>4. ASSUME j.at = "create", answer # NoSheet
        PROVE  answer.month = j.month /\ (j.month \in Months => answer \in Summaries)
    <3>1. answer = [month |-> j.month, status |-> "draft", canSubmit |-> FALSE]
      BY <1>2, <2>4 DEF NoSheet
    <3>2. QED  BY <3>1 DEF Summaries
  <2>5. QED  BY <1>2, <1>3, <2>1, <2>2, <2>3, <2>4 DEF AnswerFits
<1>5. IsChain(job'[s])  BY <1>1, <1>3, <1>4 DEF IsChain
<1>6. Chains'
  <2>1. \A t \in Slots : job'[t] = Idle \/ IsChain(job'[t])
    BY <1>3, <1>5 DEF Typed, Chains
  <2>2. QED  BY <1>3, <2>1, ChainsNext
<1>7. j.got = Unknown  BY DEF Answer
<1>8. QED  BY <1>1, <1>2, <1>3, <1>5, <1>6, <1>7

\* The server carries an operation out or refuses it: the request is answered.
LEMMA Deciding ==
    ASSUME Typed, NEW s \in Slots, CarryOut(s) \/ Refuse(s)
    PROVE  /\ Chains' /\ IsChain(job[s]) /\ IsChain(job'[s])
           /\ job[s].at \in Asks /\ job[s].got = Unknown
           /\ \A t \in Slots : t # s => job'[t] = job[t]
           /\ job'[s].at = job[s].at /\ job'[s].month = job[s].month
           /\ job'[s].mode = job[s].mode /\ job'[s].anchor = job[s].anchor
           /\ job'[s].day = job[s].day
           /\ CarryOut(s) => job'[s].got = TRUE
           /\ Refuse(s) => job'[s].got = FALSE
<1> DEFINE j == job[s]
<1>1. IsChain(j) /\ j.at \in Asks /\ j.got = Unknown
  <2>1. j.at \in Asks /\ j.got = Unknown  BY DEF CarryOut, Refuse
  <2>2. j # Idle  BY <2>1, StepNames DEF Idle
  <2>3. QED  BY <2>1, <2>2 DEF Typed, Chains
<1>2. ASSUME NEW answer, job' = [job EXCEPT ![s].got = answer]
      PROVE  /\ Chains' /\ IsChain(job'[s])
             /\ \A t \in Slots : t # s => job'[t] = job[t]
             /\ job'[s].at = j.at /\ job'[s].month = j.month
             /\ job'[s].mode = j.mode /\ job'[s].anchor = j.anchor
             /\ job'[s].day = j.day /\ job'[s].got = answer
  <2>1. /\ job' = [t \in Slots |-> job'[t]]
        /\ \A t \in Slots : t # s => job'[t] = job[t]
        /\ job'[s] = Record(job'[s])
        /\ job'[s].at = j.at /\ job'[s].month = j.month
        /\ job'[s].mode = j.mode /\ job'[s].anchor = j.anchor
        /\ job'[s].day = j.day /\ job'[s].got = answer
    BY <1>1, <1>2, GotOnly DEF Typed
  <2>2. AnswerFits(job'[s])  BY <1>1, <2>1, StepNames DEF AnswerFits
  <2>3. IsChain(job'[s])  BY <1>1, <2>1, <2>2 DEF IsChain
  <2>4. \A t \in Slots : job'[t] = Idle \/ IsChain(job'[t])
    BY <2>1, <2>3 DEF Typed, Chains
  <2>5. QED  BY <2>1, <2>3, <2>4, ChainsNext
<1>3. CASE CarryOut(s)
  <2>1. job' = [job EXCEPT ![s].got = TRUE]  BY <1>3 DEF CarryOut
  <2>2. ~Refuse(s)  BY <1>3 DEF CarryOut, Refuse
  <2>3. QED  BY <1>1, <1>2, <2>1, <2>2
<1>4. CASE Refuse(s)
  <2>1. job' = [job EXCEPT ![s].got = FALSE]  BY <1>4 DEF Refuse
  <2>2. ~CarryOut(s)  BY <1>4 DEF CarryOut, Refuse
  <2>3. QED  BY <1>1, <1>2, <2>1, <2>2
<1>5. QED  BY <1>3, <1>4

\* A chain that lands was answered; it ends there or goes on.
LEMMA Landing ==
    ASSUME Typed, NEW s \in Slots, Land(s)
    PROVE  /\ IsChain(job[s]) /\ job[s].got # Unknown /\ AnswerFits(job[s])
           /\ Chains'
           /\ \A t \in Slots : t # s => job'[t] = job[t]
           /\ job'[s] = Idle \/
                /\ IsChain(job'[s]) /\ job[s].mode \in Modes
                /\ \E at \in Steps \ Asks : Sent(job'[s], at, job[s].mode, job[s].anchor)
<1>1. IsChain(job[s]) /\ job[s].got # Unknown /\ AnswerFits(job[s])
  BY DEF Land, Typed, Chains, IsChain
<1>2. \/ Ends(s) \/ TodayEnds(s)
      \/ job[s].mode \in Modes /\ \E at \in Steps \ Asks : Proceeds(s, at)
  <2>1. job[s].mode \in Modes \/ job[s].at = "today"  BY <1>1 DEF IsChain
  <2>2. CASE LandAccepted(s)
    <3>1. job[s].at # "today"  BY <2>2, StepNames DEF LandAccepted
    <3>2. Proceeds(s, "refresh") \/ Proceeds(s, "sheet")  BY <2>2 DEF LandAccepted
    <3>3. QED  BY <2>1, <3>1, <3>2, StepNames
  <2>3. CASE LandRefused(s)  BY <2>3 DEF LandRefused
  <2>4. CASE LandRefresh(s)  BY <2>1, <2>4, StepNames DEF LandRefresh
  <2>5. CASE LandToday(s)  BY <2>5 DEF LandToday
  <2>6. CASE LandSheet(s)  BY <2>1, <2>6, StepNames DEF LandSheet
  <2>7. CASE LandCreate(s)  BY <2>1, <2>7, StepNames DEF LandCreate
  <2>8. CASE LandDays(s)  BY <2>1, <2>8, StepNames DEF LandDays
  <2>9. CASE LandFixes(s)  BY <2>9 DEF LandFixes
  <2>10. QED  BY <2>2, <2>3, <2>4, <2>5, <2>6, <2>7, <2>8, <2>9 DEF Land
<1>3. CASE Ends(s)  BY <1>1, <1>3, Ending
<1>4. CASE TodayEnds(s)
  <2>1. "sheet" \in Steps \ Asks  BY StepNames
  <2>2. QED  BY <1>1, <1>4, <2>1, EndingToday
<1>5. CASE job[s].mode \in Modes /\ \E at \in Steps \ Asks : Proceeds(s, at)
  <2>1. PICK at \in Steps \ Asks : Proceeds(s, at)  BY <1>5
  <2>2. at # "correct"  BY <2>1, StepNames
  <2>3. /\ Chains' /\ Sent(job'[s], at, job[s].mode, job[s].anchor) /\ IsChain(job'[s])
        /\ \A t \in Slots : t # s => job'[t] = job[t]
    BY <1>1, <1>5, <2>1, <2>2, Proceeding
  <2>4. QED  BY <1>1, <1>5, <2>3
<1>6. QED  BY <1>2, <1>3, <1>4, <1>5

LEMMA Losing ==
    ASSUME Typed, NEW s \in Slots, Lose(s)
    PROVE  /\ IsChain(job[s]) /\ Chains'
           /\ \A t \in Slots : t # s => job'[t] = job[t]
           /\ \/ job'[s] = Idle
              \/ job[s].at = "today" /\ Sent(job'[s], "sheet", job[s].mode, job[s].anchor)
<1>1. IsChain(job[s])  BY DEF Lose, Typed, Chains
<1>2. CASE Ends(s)  BY <1>1, <1>2, Ending
<1>3. CASE job[s].at = "today" /\ TodayEnds(s)  BY <1>1, <1>3, EndingToday
<1>4. QED  BY <1>2, <1>3 DEF Lose

\* A value written where a function has no argument changes nothing.
LEMMA WrittenInside ==
    ASSUME NEW S, NEW T, NEW f \in [S -> T], NEW x, NEW y, x \in S => y \in T
    PROVE  /\ [f EXCEPT ![x] = y] \in [S -> T]
           /\ \A z \in S : [f EXCEPT ![x] = y][z] = IF z = x THEN y ELSE f[z]
OBVIOUS

LEMMA CachedSummaryTyped ==
    ASSUME Typed, NEW a \in Days
    PROVE  CachedSummary(a) \in Summaries /\ SummaryMonth(a) \in Months
<1>1. SummaryMonth(a) \in Months  BY MonthOfDay DEF SummaryMonth
<1>2. QED  BY <1>1, ConstantFacts DEF CachedSummary, Typed, TypeOK

LEMMA LandTyped ==
    ASSUME Typed, NEW s \in Slots, Land(s)
    PROVE  TypeOK'
<1>1. /\ IsChain(job[s]) /\ job[s].got # Unknown /\ AnswerFits(job[s]) /\ Chains'
  BY Landing
<1>2. \A t \in Slots : job'[t].at \in Steps \cup {"idle"}
  BY <1>1 DEF Chains, IsChain, Idle
<1>3. /\ today' \in Days
      /\ entry' \in [Workdays -> States]
      /\ sheet' \in [Months -> {"none", "draft", "submitted"}]
      /\ pending' \subseteq Workdays
      /\ page' \in Pages /\ mode' \in Modes /\ anchor' \in Days
      /\ ops' \in 0..MaxOps /\ faults' \in 0..MaxFaults
  BY DEF Land, server, controls, Typed, TypeOK
<1>4. calm' \in BOOLEAN /\ sure' \in BOOLEAN /\ trouble' \in BOOLEAN /\ loading' \in BOOLEAN
  <2> USE DEF panel, history
  <2>1. calm \in BOOLEAN /\ sure \in BOOLEAN /\ trouble \in BOOLEAN /\ loading \in BOOLEAN
    BY DEF Typed, TypeOK
  <2>2. CASE LandAccepted(s)  BY <2>1, <2>2 DEF LandAccepted
  <2>3. CASE LandRefused(s)  BY <2>1, <2>3 DEF LandRefused
  <2>4. CASE LandRefresh(s)  BY <2>1, <2>4 DEF LandRefresh
  <2>5. CASE LandToday(s)  BY <2>1, <2>5 DEF LandToday, TodayEnds
  <2>6. CASE LandSheet(s) \/ LandCreate(s) \/ LandDays(s) \/ LandFixes(s)
    BY <2>1, <2>6 DEF LandSheet, LandCreate, LandDays, LandFixes
  <2>7. QED  BY <2>2, <2>3, <2>4, <2>5, <2>6 DEF Land
<1>5. days' \subseteq Workdays \X States
  BY <1>1 DEF Land, LandAccepted, LandRefused, LandRefresh, LandToday, LandSheet, LandCreate,
              LandDays, LandFixes, caches, Typed, TypeOK, AnswerFits
<1>6. cache' \in [Months -> Summaries \cup {Unknown}]
  <2>1. cache \in [Months -> Summaries \cup {Unknown}]  BY DEF Typed, TypeOK
  <2>2. ASSUME job[s].at \in {"sheet", "create"}, job[s].got # NoSheet
        PROVE  [cache EXCEPT ![job[s].month] = job[s].got] \in [Months -> Summaries \cup {Unknown}]
    <3> DEFINE m == job[s].month
               got == job[s].got
               T == Summaries \cup {Unknown}
    <3>1. cache \in [Months -> T] /\ (m \in Months => got \in T)
      BY <1>1, <2>1, <2>2 DEF AnswerFits
    <3> HIDE DEF m, got, T
    <3>2. [cache EXCEPT ![m] = got] \in [Months -> T]  BY <3>1, WrittenInside
    <3>3. QED  BY <3>2 DEF m, got, T
  <2>3. [cache EXCEPT ![job[s].month] = ToldSubmitted(job[s].month)]
          \in [Months -> Summaries \cup {Unknown}]
    <3> DEFINE m == job[s].month
               T == Summaries \cup {Unknown}
    <3>1. m \in Months => ToldSubmitted(m) \in T  BY DEF ToldSubmitted, Summaries
    <3>2. cache \in [Months -> T]  BY <2>1
    <3> HIDE DEF m, T
    <3>3. [cache EXCEPT ![m] = ToldSubmitted(m)] \in [Months -> T]  BY <3>1, <3>2, WrittenInside
    <3>4. QED  BY <3>3 DEF m, T
  <2>4. \/ cache' = cache
        \/ cache' = [cache EXCEPT ![job[s].month] = ToldSubmitted(job[s].month)]
        \/ (/\ job[s].at \in {"sheet", "create"} /\ job[s].got # NoSheet
            /\ cache' = [cache EXCEPT ![job[s].month] = job[s].got])
    BY DEF Land, LandAccepted, LandRefused, LandRefresh, LandToday, LandSheet, LandCreate,
           LandDays, LandFixes, caches
  <2>5. QED  BY <2>1, <2>2, <2>3, <2>4
<1>7. todayRecord' \in [day: Days \cup {0}, state: States]
  <2>1. ASSUME NEW records, records \subseteq Workdays \X States
        PROVE  RecordOf(records, today) \in [day: Days \cup {0}, state: States]
    <3>1. today \in Days  BY DEF Typed, TypeOK
    <3>2. CASE \E r \in records : r[1] = today
      <4>1. (CHOOSE r \in records : r[1] = today) \in records  BY <3>2
      <4>2. (CHOOSE r \in records : r[1] = today)[2] \in States  BY <2>1, <4>1
      <4>3. QED  BY <3>1, <3>2, <4>2 DEF RecordOf
    <3>3. CASE ~(\E r \in records : r[1] = today)  BY <3>1, <3>3 DEF RecordOf, States
    <3>4. QED  BY <3>2, <3>3
  <2>2. todayRecord' = todayRecord \/
          (job[s].at = "today" /\ todayRecord' = RecordOf(job[s].got, today))
    BY DEF Land, LandAccepted, LandRefused, LandRefresh, LandToday, LandSheet, LandCreate,
           LandDays, LandFixes, caches
  <2>3. QED  BY <1>1, <2>1, <2>2 DEF Typed, TypeOK, AnswerFits
<1>8. view'.rows \subseteq Workdays \X States /\ view'.summary \in Summaries
  <2>1. view' = view \/
          (job[s].at = "fixes" /\ view' = Composed(job[s].mode, job[s].anchor, job[s].got))
    BY DEF Land, LandAccepted, LandRefused, LandRefresh, LandToday, LandSheet, LandCreate,
           LandDays, LandFixes, caches
  <2>2. ASSUME view' = Composed(job[s].mode, job[s].anchor, job[s].got)
        PROVE  view'.rows \subseteq days /\ view'.summary = CachedSummary(job[s].anchor)
    BY <2>2 DEF Composed, RowsIn
  <2>3. CachedSummary(job[s].anchor) \in Summaries
    BY <1>1, CachedSummaryTyped DEF IsChain
  <2>4. QED  BY <2>1, <2>2, <2>3 DEF Typed, TypeOK
<1>9. QED  BY <1>2, <1>3, <1>4, <1>5, <1>6, <1>7, <1>8 DEF TypeOK

LEMMA StepTyped == Typed /\ [Next]_vars => Typed'
<1> SUFFICES ASSUME Typed, [Next]_vars PROVE Typed'  OBVIOUS
<1> USE DEF server, controls, caches, panel, history
<1>1. Chains' => \A t \in Slots : job'[t].at \in Steps \cup {"idle"}
  BY DEF Chains, IsChain, Idle
<1>2. ASSUME NEW s \in Slots, Answer(s) PROVE Typed'
  <2>1. Chains'  BY <1>2, Answering
  <2>2. sheet' \in [Months -> {"none", "draft", "submitted"}]
    BY <1>2 DEF Answer, Typed, TypeOK
  <2>3. QED  BY <1>1, <1>2, <2>1, <2>2 DEF Answer, Typed, TypeOK
<1>3. ASSUME NEW s \in Slots, Land(s) PROVE Typed'  BY <1>3, Landing, LandTyped DEF Typed
<1>4. ASSUME NEW s \in Slots, Lose(s) PROVE Typed'
  <2>1. Chains' /\ job[s].at \in Steps  BY <1>4, Losing DEF IsChain
  <2>2. trouble' \in BOOLEAN /\ loading' \in BOOLEAN /\ sure' \in BOOLEAN
    BY <1>4 DEF Lose, TodayEnds, Typed, TypeOK
  <2>3. faults' \in 0..MaxFaults
    BY <1>4, WorkspaceAssumption DEF Lose, Typed, TypeOK
  <2>4. QED  BY <1>1, <1>4, <2>1, <2>2, <2>3 DEF Lose, Typed, TypeOK
<1>5. ops \in 0..MaxOps /\ MaxOps \in Nat /\ (Counted => ops' \in 0..MaxOps)
  BY WorkspaceAssumption DEF Counted, Typed, TypeOK
<1>6. ASSUME NEW m \in Modes, NEW a \in Anchors \cup {DefaultAnchor(today)}, Choose(m, a)
      PROVE Typed'
  <2>1. a \in Days  BY ConstantFacts, DefaultAnchorIsDay DEF Typed, TypeOK
  <2>2. Chains'
    <3>1. Start("sheet", m, a)  BY <1>6 DEF Choose
    <3>2. QED  BY <2>1, <3>1, StepNames, Starting
  <2>3. QED  BY <1>1, <1>5, <1>6, <2>1, <2>2 DEF Choose, Quiet, Typed, TypeOK
<1>7. mode \in Modes /\ anchor \in Days  BY DEF Typed, TypeOK
<1>8. CASE Reload
  <2>1. Chains'
    <3>1. Start("sheet", mode, anchor)  BY <1>8 DEF Reload
    <3>2. QED  BY <1>7, <3>1, StepNames, Starting
  <2>2. calm' \in BOOLEAN /\ ops' \in 0..MaxOps
    BY <1>5, <1>8 DEF Reload, Quiet, Typed, TypeOK
  <2>3. QED  BY <1>1, <1>8, <2>1, <2>2 DEF Reload, Typed, TypeOK
<1>9. CASE ReloadToday
  <2>1. Chains'
    <3>1. Start("today", "none", anchor)  BY <1>9 DEF ReloadToday
    <3>2. QED  BY <1>7, <3>1, StepNames, Starting
  <2>2. sure' \in BOOLEAN  BY <1>9 DEF ReloadToday
  <2>3. QED  BY <1>1, <1>5, <1>9, <2>1, <2>2 DEF ReloadToday, Typed, TypeOK
<1>10. CASE Submit \/ (\E at \in Punches : Punch(at)) \/ (\E d \in Workdays : Correct(d))
  <2>1. Chains'  BY <1>10, Pressing
  <2>2. UNCHANGED <<today, entry, sheet, pending, page, mode, anchor, cache, days, todayRecord,
                     view, loading, trouble, calm, sure, faults>> /\ Counted
    BY <1>10 DEF Submit, Punch, Correct
  <2>3. QED  BY <1>1, <1>5, <2>1, <2>2 DEF Typed, TypeOK
<1>11. ASSUME NEW s \in Slots, CarryOut(s) PROVE Typed'
  <2>1. Chains' /\ IsChain(job[s])  BY <1>11, Deciding
  <2>2. entry' \in [Workdays -> States]
    BY <1>11 DEF CarryOut, Typed, TypeOK, States
  <2>3. sheet' \in [Months -> {"none", "draft", "submitted"}]
    BY <1>11 DEF CarryOut, Typed, TypeOK
  <2>4. pending' \subseteq Workdays
    BY <1>11, <2>1 DEF CarryOut, IsChain, Typed, TypeOK
  <2>5. sure' \in BOOLEAN  BY <1>11 DEF CarryOut
  <2>6. QED  BY <1>1, <1>11, <2>1, <2>2, <2>3, <2>4, <2>5 DEF CarryOut, Typed, TypeOK
<1>12. ASSUME NEW s \in Slots, Refuse(s) PROVE Typed'
  <2>1. Chains'  BY <1>12, Deciding
  <2>2. QED  BY <1>1, <1>12, <2>1 DEF Refuse, Typed, TypeOK
<1>13. CASE Midnight
  <2>1. Chains'  BY <1>13, ChainsNext DEF Midnight, Typed, Chains
  <2>2. QED  BY <1>1, <1>5, <1>13, <2>1 DEF Midnight, Typed, TypeOK
<1>14. CASE UNCHANGED vars
  <2>1. Chains'  BY <1>14, ChainsNext DEF vars, Typed, Chains
  <2>2. QED  BY <1>1, <1>14, <2>1 DEF vars, Typed, TypeOK
<1>15. QED
  BY <1>2, <1>3, <1>4, <1>6, <1>8, <1>9, <1>10, <1>11, <1>12, <1>13, <1>14 DEF Next

LEMMA AlwaysTyped == Spec => []Typed
BY InitTyped, StepTyped, PTL DEF Spec

\* What the pages hold in their caches and chains is always of the kind that the next
\* step takes it for, however answers of different requests overtake each other.
THEOREM WorkspaceTypeCorrect == Spec => []TypeOK
BY AlwaysTyped, PTL DEF Typed

-----------------------------------------------------------------------------
(* No page is ahead of the server *)

\* A sheet that is handed in is one on which no day from today on is booked: its period is
\* over before the days begin in which it can be handed in.
Closed == \A m \in Months : sheet[m] = "submitted" => m < PeriodOf(today)

Past(rows, entries) == \A r \in rows : r[2] = "out" => entries[r[1]] = "out"

\* What a chain was answered, the server still has.
Granted(j, entries, sheets) ==
    j.got # Unknown =>
        /\ j.at \in {"refresh", "today", "days"} => Past(j.got, entries)
        /\ (j.at \in {"sheet", "create"} /\ j.month \in Months /\ j.got.status = "submitted")
             => sheets[j.month] = "submitted"
        /\ (j.at = "submit" /\ j.got = TRUE)
             => j.month \in Months /\ sheets[j.month] = "submitted"

NotAhead ==
    /\ Closed
    /\ \A s \in Slots : Granted(job[s], entry, sheet)
    /\ Past(days, entry) /\ Past(view.rows, entry)
    /\ \A m \in Months : cache[m] # Unknown =>
         cache[m].month = m /\ (cache[m].status = "submitted" => sheet[m] = "submitted")
    /\ view.summary.status = "submitted" =>
         view.summary.month \in Months /\ sheet[view.summary.month] = "submitted"

LEMMA PeriodIsInt ==
    ASSUME NEW d \in Days
    PROVE  /\ PeriodOf(d) \in Int /\ MonthOf(d) \in Int
           /\ InWindow(d) => MonthOf(d) < PeriodOf(d)
<1>1. MonthOf(d) \in Months  BY MonthOfDay
<1>2. MonthOf(d) \in Nat  BY <1>1, MonthLengths
<1>3. QED  BY <1>2 DEF PeriodOf, InWindow

\* The server takes nothing back: not a day that was worked, nor a sheet that was handed
\* in, because a check-in is never booked on a sheet that is handed in.
LEMMA ServerAdvances ==
    ASSUME Typed, Closed, [Next]_vars
    PROVE  /\ \A d \in Workdays : entry[d] = "out" => entry'[d] = "out"
           /\ \A m \in Months : sheet[m] = "submitted" => sheet'[m] = "submitted"
           /\ Closed'
<1> USE DEF server
<1>1. /\ today \in Days /\ PeriodOf(today) \in Int /\ Months \subseteq Int
      /\ sheet \in [Months -> {"none", "draft", "submitted"}] /\ entry \in [Workdays -> States]
  BY PeriodIsInt, MonthLengths DEF Typed, TypeOK
<1>2. ASSUME NEW s \in Slots, Answer(s)
      PROVE  /\ entry' = entry /\ today' = today
             /\ \A m \in Months : sheet[m] = "submitted" <=> sheet'[m] = "submitted"
  BY <1>1, <1>2 DEF Answer
<1>3. ASSUME NEW s \in Slots, CarryOut(s), job[s].at \in Punches
      PROVE  /\ \A d \in Workdays : entry[d] = "out" => entry'[d] = "out"
             /\ \A m \in Months : sheet[m] = "submitted" => sheet'[m] = "submitted"
             /\ Closed'
  <2>1. /\ entry' = [entry EXCEPT ![today] = IF job[s].at = "checkIn" THEN "in" ELSE "out"]
        /\ sheet' = [sheet EXCEPT ![PeriodOf(today)] = "draft"]
        /\ today' = today
    BY <1>3 DEF CarryOut, Punches
  <2>2. entry[today] = Expected(job[s].at)
    BY <1>3 DEF CarryOut, Accepts, AcceptsPunch, Punches
  <2>3. \A m \in Months : sheet[m] = "submitted" <=> sheet'[m] = "submitted"
    BY <1>1, <2>1 DEF Closed
  <2>4. \A d \in Workdays : entry[d] = "out" => entry'[d] = "out"
    BY <1>1, <2>1, <2>2 DEF Expected
  <2>5. QED  BY <2>1, <2>3, <2>4 DEF Closed
<1>4. ASSUME NEW s \in Slots, CarryOut(s), job[s].at = "submit"
      PROVE  /\ \A d \in Workdays : entry[d] = "out" => entry'[d] = "out"
             /\ \A m \in Months : sheet[m] = "submitted" => sheet'[m] = "submitted"
             /\ Closed'
  <2> DEFINE n == job[s].month
  <2>1. AcceptsSheet(n)  BY <1>4 DEF CarryOut, Accepts, Punches
  <2>2. sheet' = [sheet EXCEPT ![n] = "submitted"] /\ entry' = entry /\ today' = today
    BY <1>4 DEF CarryOut, Punches
  <2>3. InWindow(today) /\ n = MonthOf(today)  BY <2>1 DEF AcceptsSheet, SubmittableMonth
  <2>4. n < PeriodOf(today)  BY <1>1, <2>3, PeriodIsInt
  <2> HIDE DEF n
  <2>5. QED  BY <1>1, <2>2, <2>4 DEF Closed
<1>5. CASE Midnight
  <2>1. /\ entry' = entry /\ sheet' = sheet /\ today' = today + 1 /\ today + 1 \in Days
    BY <1>5 DEF Midnight
  <2>2. PeriodOf(today) <= PeriodOf(today + 1) /\ PeriodOf(today + 1) \in Int
    BY <1>1, <2>1, PeriodsAdvance
  <2>3. Closed'  BY <1>1, <2>1, <2>2 DEF Closed
  <2>4. QED  BY <2>1, <2>3
<1>6. ASSUME entry' = entry, sheet' = sheet, today' = today PROVE Closed'
  BY <1>6 DEF Closed
<1>7. ASSUME NEW s \in Slots, Answer(s) PROVE Closed'  BY <1>2, <1>7 DEF Closed
<1>8. CASE \/ \E s \in Slots : Refuse(s) \/ Land(s) \/ Lose(s)
           \/ \E m \in Modes, a \in Anchors \cup {DefaultAnchor(today)} : Choose(m, a)
           \/ Reload \/ ReloadToday \/ Submit
           \/ (\E at \in Punches : Punch(at)) \/ (\E d \in Workdays : Correct(d))
           \/ UNCHANGED vars
  <2>1. entry' = entry /\ sheet' = sheet /\ today' = today
    BY <1>8 DEF Refuse, Land, Lose, Choose, Reload, ReloadToday, Submit, Punch, Correct, vars
  <2>2. QED  BY <1>6, <2>1
<1>9. ASSUME NEW s \in Slots, CarryOut(s), job[s].at = "correct"
      PROVE  entry' = entry /\ sheet' = sheet /\ today' = today
  BY <1>9 DEF CarryOut, Punches
<1>10. ASSUME NEW s \in Slots, CarryOut(s)
       PROVE  job[s].at \in Punches \/ job[s].at = "submit" \/ job[s].at = "correct"
  BY <1>10, StepNames DEF CarryOut
<1>11. ASSUME NEW s \in Slots, CarryOut(s)
       PROVE  /\ \A d \in Workdays : entry[d] = "out" => entry'[d] = "out"
              /\ \A m \in Months : sheet[m] = "submitted" => sheet'[m] = "submitted"
              /\ Closed'
  BY <1>3, <1>4, <1>6, <1>9, <1>10, <1>11
<1>12. QED  BY <1>2, <1>5, <1>7, <1>8, <1>11 DEF Next

LEMMA PastMonotone ==
    ASSUME NEW before, NEW after,
           \A d \in Workdays : before[d] = "out" => after[d] = "out",
           NEW rows, rows \subseteq Workdays \X States, Past(rows, before)
    PROVE  Past(rows, after)
<1>1. \A r \in rows : r[1] \in Workdays  OBVIOUS
<1>2. QED  BY <1>1 DEF Past

LEMMA GrantedMonotone ==
    ASSUME NEW before, NEW after,
           \A d \in Workdays : before[d] = "out" => after[d] = "out",
           NEW sheets, NEW later,
           \A m \in Months : sheets[m] = "submitted" => later[m] = "submitted",
           NEW j, j = Idle \/ IsChain(j), Granted(j, before, sheets)
    PROVE  Granted(j, after, later)
<1>1. j.got # Unknown /\ j.at \in {"refresh", "today", "days"}
        => j.got \subseteq Workdays \X States
  BY DEF Idle, IsChain, AnswerFits
<1>2. QED  BY <1>1, PastMonotone DEF Granted

\* An answer is true when it is given.
LEMMA AnswerGranted ==
    ASSUME Typed, NEW s \in Slots, Answer(s)
    PROVE  Granted(job'[s], entry, sheet)
<1> DEFINE j == job[s]
           k == job'[s]
<1>1. /\ IsChain(j) /\ k.at = j.at /\ k.month = j.month
      /\ j.at \in {"refresh", "today", "days"} => k.got = Booked(j.month)
      /\ j.at = "sheet" => k.got = IF sheet[j.month] = "none" THEN NoSheet ELSE Summary(j.month)
      /\ j.at = "create" => k.got = IF sheet[j.month] = "none"
                                     THEN [NoSheet EXCEPT !.month = j.month] ELSE NoSheet
  BY Answering
<1>6. j.at # "submit"  BY Answering, StepNames
<1> HIDE DEF j, k
<1>2. \A m : Past(Booked(m), entry)  BY DEF Past, Booked
<1>3. NoSheet.status = "draft" /\ [NoSheet EXCEPT !.month = j.month].status = "draft"
  BY DEF NoSheet
<1>4. Summary(j.month).status = sheet[j.month]  BY DEF Summary
<1>5. QED  BY <1>1, <1>2, <1>3, <1>4, <1>6 DEF Granted, k

\* A submission is carried out on the sheet it names, which is then handed in.
LEMMA DecisionGranted ==
    ASSUME Typed, NEW s \in Slots, CarryOut(s) \/ Refuse(s)
    PROVE  Granted(job'[s], entry', sheet')
<1> DEFINE j == job[s]
           k == job'[s]
<1>1. /\ j.at \in Asks /\ k.at = j.at /\ k.month = j.month
      /\ CarryOut(s) => k.got = TRUE
      /\ Refuse(s) => k.got = FALSE
  BY Deciding
<1>2. ASSUME CarryOut(s), j.at = "submit" PROVE j.month \in Months /\ sheet'[j.month] = "submitted"
  <2>1. AcceptsSheet(j.month) /\ sheet' = [sheet EXCEPT ![j.month] = "submitted"]
    BY <1>2 DEF CarryOut, Accepts, Punches
  <2>2. QED  BY <2>1 DEF AcceptsSheet, Typed, TypeOK
<1>3. k.at \notin {"refresh", "today", "days", "sheet", "create"}  BY <1>1, StepNames
<1>4. FALSE # TRUE  OBVIOUS
<1> HIDE DEF j, k
<1>5. QED  BY <1>1, <1>2, <1>3, <1>4 DEF Granted, k

LEMMA InitNotAhead == Init => NotAhead
<1> SUFFICES ASSUME Init PROVE NotAhead  OBVIOUS
<1>1. \A m \in Months : sheet[m] # "submitted"  BY DEF Init
<1>2. \A s \in Slots : job[s].got = Unknown  BY DEF Init, Chain, Idle
<1>3. days = {} /\ view.rows = {} /\ view.summary.status = "draft"
  BY DEF Init, NoView, NoSheet
<1>4. \A m \in Months : cache[m] = Unknown  BY DEF Init
<1>5. QED  BY <1>1, <1>2, <1>3, <1>4 DEF NotAhead, Closed, Granted, Past

\* What is known of the chains after a step: each is as it was, has no answer yet, or has
\* been answered in this step.
LEMMA StepGranted ==
    ASSUME Typed, NotAhead, [Next]_vars
    PROVE  \A s \in Slots : Granted(job'[s], entry', sheet')
<1>1. /\ \A d \in Workdays : entry[d] = "out" => entry'[d] = "out"
      /\ \A m \in Months : sheet[m] = "submitted" => sheet'[m] = "submitted"
  BY ServerAdvances DEF NotAhead
<1>2. ASSUME NEW t \in Slots, job'[t] = job[t] PROVE Granted(job'[t], entry', sheet')
  <2>1. Granted(job[t], entry, sheet) /\ (job[t] = Idle \/ IsChain(job[t]))
    BY DEF NotAhead, Typed, Chains
  <2>2. Granted(job[t], entry', sheet')  BY <1>1, <2>1, GrantedMonotone
  <2>3. QED  BY <1>2, <2>2
<1>3. ASSUME NEW t \in Slots, job'[t].got = Unknown PROVE Granted(job'[t], entry', sheet')
  BY <1>3 DEF Granted
<1>4. Idle.got = Unknown /\ \A k, at, m, a : Sent(k, at, m, a) => k.got = Unknown
  BY DEF Idle, Sent
<1>5. ASSUME NEW s \in Slots, Answer(s)
      PROVE  \A t \in Slots : Granted(job'[t], entry', sheet')
  <2>1. \A t \in Slots : t # s => job'[t] = job[t]  BY <1>5, Answering
  <2>2. Granted(job'[s], entry', sheet')
    <3>1. Granted(job'[s], entry, sheet)  BY <1>5, AnswerGranted
    <3>2. job'[s] = Idle \/ IsChain(job'[s])  BY <1>5, Answering
    <3>3. QED  BY <1>1, <3>1, <3>2, GrantedMonotone
  <2>3. QED  BY <1>2, <2>1, <2>2
<1>6. ASSUME NEW s \in Slots, Land(s)
      PROVE  \A t \in Slots : Granted(job'[t], entry', sheet')
  <2>1. /\ \A t \in Slots : t # s => job'[t] = job[t]
        /\ job'[s] = Idle \/ \E at : Sent(job'[s], at, job[s].mode, job[s].anchor)
    BY <1>6, Landing
  <2>2. QED  BY <1>2, <1>3, <1>4, <2>1
<1>7. ASSUME NEW s \in Slots, Lose(s)
      PROVE  \A t \in Slots : Granted(job'[t], entry', sheet')
  <2>1. /\ \A t \in Slots : t # s => job'[t] = job[t]
        /\ job'[s] = Idle \/ Sent(job'[s], "sheet", job[s].mode, job[s].anchor)
    BY <1>7, Losing
  <2>2. QED  BY <1>2, <1>3, <1>4, <2>1
<1>8. ASSUME NEW s \in Slots, NEW at, NEW m, NEW a, Sent(job'[s], at, m, a),
             \A t \in Slots : t # s => job'[t] = job[t]
      PROVE  \A t \in Slots : Granted(job'[t], entry', sheet')
  BY <1>2, <1>3, <1>4, <1>8
<1>9. CASE \/ \E m \in Modes, a \in Anchors \cup {DefaultAnchor(today)} : Choose(m, a)
           \/ Reload \/ ReloadToday
  <2>1. mode \in Modes /\ anchor \in Days /\ today \in Days  BY DEF Typed, TypeOK
  <2>2. PICK at \in {"sheet", "today"}, m \in Modes \cup {"none"}, a \in Days :
          Start(at, m, a) /\ (m \in Modes \/ (at = "today" /\ m = "none"))
    <3>1. ASSUME NEW m \in Modes, NEW a \in Anchors \cup {DefaultAnchor(today)}, Choose(m, a)
          PROVE  a \in Days /\ Start("sheet", m, a)
      BY <2>1, <3>1, ConstantFacts, DefaultAnchorIsDay DEF Choose
    <3>2. CASE Reload  BY <2>1, <3>2 DEF Reload
    <3>3. CASE ReloadToday  BY <2>1, <3>3 DEF ReloadToday
    <3>4. QED  BY <1>9, <3>1, <3>2, <3>3
  <2>3. at \in Steps /\ at # "correct"  BY StepNames
  <2>4. \E s \in Slots : /\ Sent(job'[s], at, m, a)
                        /\ \A t \in Slots : t # s => job'[t] = job[t]
    BY <2>2, <2>3, Starting
  <2>5. QED  BY <1>8, <2>4
<1>10. CASE Submit \/ (\E at \in Punches : Punch(at)) \/ (\E d \in Workdays : Correct(d))
  <2>1. \E s \in Slots : \E at \in Asks :
          /\ Sent(job'[s], at, mode, anchor)
          /\ \A t \in Slots : t # s => job'[t] = job[t]
    BY <1>10, Pressing
  <2>2. QED  BY <1>8, <2>1
<1>11. ASSUME NEW s \in Slots, CarryOut(s) \/ Refuse(s)
       PROVE  \A t \in Slots : Granted(job'[t], entry', sheet')
  <2>1. \A t \in Slots : t # s => job'[t] = job[t]  BY <1>11, Deciding
  <2>2. Granted(job'[s], entry', sheet')  BY <1>11, DecisionGranted
  <2>3. QED  BY <1>2, <2>1, <2>2
<1>12. CASE Midnight \/ UNCHANGED vars  BY <1>2, <1>12 DEF Midnight, vars
<1>13. QED  BY <1>5, <1>6, <1>7, <1>9, <1>10, <1>11, <1>12 DEF Next

\* What the page has after a step: what it had, or what a chain brought it.
LEMMA StepShown ==
    ASSUME Typed, NotAhead, [Next]_vars
    PROVE  /\ Past(days', entry') /\ Past(view'.rows, entry')
           /\ \A m \in Months : cache'[m] # Unknown =>
                /\ cache'[m].month = m
                /\ cache'[m].status = "submitted" => sheet'[m] = "submitted"
           /\ view'.summary.status = "submitted" =>
                view'.summary.month \in Months /\ sheet'[view'.summary.month] = "submitted"
<1>1. /\ \A d \in Workdays : entry[d] = "out" => entry'[d] = "out"
      /\ \A m \in Months : sheet[m] = "submitted" => sheet'[m] = "submitted"
  BY ServerAdvances DEF NotAhead
<1>2. days \subseteq Workdays \X States /\ view.rows \subseteq Workdays \X States
  BY DEF Typed, TypeOK
<1>3. Past(days, entry') /\ Past(view.rows, entry')
  <2>1. Past(days, entry) /\ Past(view.rows, entry)  BY DEF NotAhead
  <2>2. QED  BY <1>1, <1>2, <2>1, PastMonotone
<1>4. days' = days \/ \E s \in Slots : Land(s) /\ job[s].at \in {"refresh", "today", "days"} /\ days' = job[s].got
  BY DEF Next, CarryOut, Refuse, Answer, Land, LandAccepted, LandRefused, LandRefresh,
         LandToday, LandSheet, LandCreate, LandDays, LandFixes, Lose, Choose, Reload,
         ReloadToday, Punch, Submit, Correct, Midnight, vars, caches
<1>5. view' = view \/ \E s \in Slots : Land(s) /\ job[s].at = "fixes"
                         /\ view' = Composed(job[s].mode, job[s].anchor, job[s].got)
  BY DEF Next, CarryOut, Refuse, Answer, Land, LandAccepted, LandRefused, LandRefresh,
         LandToday, LandSheet, LandCreate, LandDays, LandFixes, Lose, Choose, Reload,
         ReloadToday, Punch, Submit, Correct, Midnight, vars, caches
<1>6. \/ cache' = cache
      \/ \E s \in Slots : /\ Land(s) /\ job[s].at \in {"sheet", "create"} /\ job[s].got # NoSheet
                           /\ cache' = [cache EXCEPT ![job[s].month] = job[s].got]
      \/ \E s \in Slots : /\ Land(s) /\ job[s].at = "submit" /\ job[s].got = TRUE
                           /\ cache' = [cache EXCEPT ![job[s].month] = ToldSubmitted(job[s].month)]
  BY DEF Next, CarryOut, Refuse, Answer, Land, LandAccepted, LandRefused, LandRefresh,
         LandToday, LandSheet, LandCreate, LandDays, LandFixes, Lose, Choose, Reload,
         ReloadToday, Punch, Submit, Correct, Midnight, vars, caches
<1>7. Past(days', entry')
  <2>1. ASSUME NEW s \in Slots, Land(s), job[s].at \in {"refresh", "today", "days"}
        PROVE  Past(job[s].got, entry')
    <3>1. job[s].got # Unknown /\ AnswerFits(job[s])  BY <2>1, Landing
    <3>2. Past(job[s].got, entry)  BY <2>1, <3>1 DEF NotAhead, Granted
    <3>3. job[s].got \subseteq Workdays \X States  BY <2>1, <3>1 DEF AnswerFits
    <3>4. QED  BY <1>1, <3>2, <3>3, PastMonotone
  <2>2. QED  BY <1>3, <1>4, <2>1
<1>8. cache \in [Months -> Summaries \cup {Unknown}]  BY DEF Typed, TypeOK
<1>9. ASSUME NEW m \in Months, cache'[m] # Unknown
      PROVE  cache'[m].month = m /\ (cache'[m].status = "submitted" => sheet'[m] = "submitted")
  <2>1. CASE cache'[m] = cache[m]  BY <1>1, <1>9, <2>1 DEF NotAhead
  <2>2. ASSUME NEW s \in Slots, Land(s), job[s].at \in {"sheet", "create"}, job[s].got # NoSheet,
               job[s].month = m, cache'[m] = job[s].got
        PROVE  cache'[m].month = m /\ (cache'[m].status = "submitted" => sheet'[m] = "submitted")
    <3>1. job[s].got # Unknown /\ AnswerFits(job[s])  BY <2>2, Landing
    <3>2. job[s].got.month = m  BY <2>2, <3>1 DEF AnswerFits
    <3>3. job[s].got.status = "submitted" => sheet[m] = "submitted"
      BY <2>2, <3>1 DEF NotAhead, Granted
    <3>4. QED  BY <1>1, <2>2, <3>2, <3>3
  <2>3. ASSUME NEW s \in Slots, Land(s), job[s].at = "submit", job[s].got = TRUE,
               job[s].month = m, cache' = [cache EXCEPT ![m] = ToldSubmitted(m)]
        PROVE  cache'[m].month = m /\ sheet'[m] = "submitted"
    <3>1. cache'[m] = ToldSubmitted(m)  BY <1>8, <2>3
    <3>2. job[s].got # Unknown  BY <2>3, UnknownAssumption
    <3>3. sheet[m] = "submitted"  BY <2>3, <3>2 DEF NotAhead, Granted
    <3>4. QED  BY <1>1, <3>1, <3>3 DEF ToldSubmitted
  <2>4. ASSUME NEW s \in Slots, job[s].month # m, cache' = [cache EXCEPT ![job[s].month] = job[s].got]
        PROVE  cache'[m] = cache[m]
    BY <1>8, <2>4
  <2>5. ASSUME NEW s \in Slots, job[s].month = m, cache' = [cache EXCEPT ![job[s].month] = job[s].got]
        PROVE  cache'[m] = job[s].got
    BY <1>8, <2>5
  <2>6. ASSUME NEW s \in Slots, job[s].month # m,
               cache' = [cache EXCEPT ![job[s].month] = ToldSubmitted(job[s].month)]
        PROVE  cache'[m] = cache[m]
    BY <1>8, <2>6
  <2>7. QED  BY <1>6, <2>1, <2>2, <2>3, <2>4, <2>5, <2>6
<1>10. ASSUME NEW s \in Slots, Land(s), job[s].at = "fixes",
              view' = Composed(job[s].mode, job[s].anchor, job[s].got)
       PROVE  /\ Past(view'.rows, entry')
              /\ view'.summary.status = "submitted" =>
                   view'.summary.month \in Months /\ sheet'[view'.summary.month] = "submitted"
  <2> DEFINE n == SummaryMonth(job[s].anchor)
  <2>1. view'.rows \subseteq days /\ view'.summary = CachedSummary(job[s].anchor)
    BY <1>10 DEF Composed, RowsIn
  <2>2. Past(view'.rows, entry')  BY <1>3, <2>1 DEF Past
  <2>3. n \in Months
    <3>1. job[s].anchor \in Days  BY <1>10, Landing DEF IsChain
    <3>2. QED  BY <3>1, MonthOfDay DEF SummaryMonth
  <2>4. view'.summary = IF cache[n] = Unknown THEN NoSheet ELSE cache[n]
    BY <2>1 DEF CachedSummary
  <2>5. NoSheet.status = "draft"  BY DEF NoSheet
  <2> HIDE DEF n
  <2>6. QED  BY <1>1, <2>2, <2>3, <2>4, <2>5 DEF NotAhead
<1>11. view'.summary.status = "submitted" =>
          view'.summary.month \in Months /\ sheet'[view'.summary.month] = "submitted"
  BY <1>1, <1>5, <1>10 DEF NotAhead
<1>12. Past(view'.rows, entry')  BY <1>3, <1>5, <1>10
<1>13. QED  BY <1>7, <1>9, <1>11, <1>12

LEMMA AlwaysNotAhead == Spec => [](Typed /\ NotAhead)
<1>1. Typed /\ NotAhead /\ [Next]_vars => NotAhead'
  BY ServerAdvances, StepGranted, StepShown DEF NotAhead
<1>2. QED  BY <1>1, InitTyped, StepTyped, InitNotAhead, PTL DEF Spec

\* However requests, answers and clicks overtake each other, no page shows a sheet as
\* handed in, or a day as worked, that the server does not have
\* (submitMonthlyTimesheetRequest, updateCachedMonthlyTimesheet).
THEOREM NeverAheadAlways == Spec => []NeverAhead
<1>1. Typed /\ NotAhead => NeverAhead  BY DEF NotAhead, NeverAhead, Past
<1>2. QED  BY <1>1, AlwaysNotAhead, PTL

-----------------------------------------------------------------------------
(* The record of today *)

BookedIn(m, entries) ==
    {<<d, entries[d]>> : d \in {x \in Workdays : PeriodOf(x) = m /\ entries[x] # "none"}}

\* A chain about today asks for the month on which today is booked.  After midnight it may
\* still ask for the month of yesterday, but then nothing is booked today.
Asking(j, entries, date) ==
    j.at \in {"refresh", "today"} =>
        /\ date \in Workdays => j.month = PeriodOf(date) \/ entries[date] = "none"
        /\ j.got # Unknown => j.got = BookedIn(j.month, entries)

\* A chain that will bring the record of today, or load it anew: a check-in too, once the
\* server has carried it out.
Bringer(j) == j.at \in {"refresh", "today"} \/ (j.at \in Punches /\ j.got = TRUE)

Shown ==
    (todayRecord.day = today /\ today \in Workdays) => todayRecord.state = entry[today]

TodayKnown ==
    /\ \A d \in Workdays : d > today => entry[d] = "none"
    /\ todayRecord.day <= today
    /\ sure => /\ \A s \in Slots : Asking(job[s], entry, today)
               /\ Shown \/ \E s \in Slots : Bringer(job[s])

LEMMA RecordIsRight ==
    ASSUME NEW entries \in [Workdays -> States], NEW m, NEW d \in Workdays,
           m = PeriodOf(d) \/ entries[d] = "none"
    PROVE  RecordOf(BookedIn(m, entries), d) = [day |-> d, state |-> entries[d]]
<1> DEFINE records == BookedIn(m, entries)
<1>1. \A r \in records : r[1] = d => r[2] = entries[d]  BY DEF BookedIn
<1>2. CASE \E r \in records : r[1] = d
  <2>1. LET r == CHOOSE r \in records : r[1] = d IN r \in records /\ r[1] = d  BY <1>2
  <2>2. QED  BY <1>1, <1>2, <2>1 DEF RecordOf
<1>3. CASE ~(\E r \in records : r[1] = d)
  <2>1. entries[d] = "none"
    <3>1. ASSUME entries[d] # "none" PROVE <<d, entries[d]>> \in records
      BY <3>1 DEF BookedIn
    <3>2. QED  BY <1>3, <3>1
  <2>2. QED  BY <1>3, <2>1 DEF RecordOf
<1>4. QED  BY <1>2, <1>3

LEMMA InitToday == Init => TodayKnown
<1> SUFFICES ASSUME Init PROVE TodayKnown  OBVIOUS
<1>1. today \in Days /\ today \in Nat \ {0} /\ Workdays \subseteq Nat
  BY ConstantFacts, MonthOfDay DEF Init
<1>2. todayRecord.day = 0 /\ todayRecord.day <= today /\ todayRecord.day # today
  BY <1>1 DEF Init
<1>3. \A d \in Workdays : d > today => entry[d] = "none"  BY <1>1 DEF Init
<1>4. ASSUME NEW s \in Slots PROVE Asking(job[s], entry, today)
  <2>1. job[s] \in {Idle, Chain("sheet", mode, anchor), Chain("today", mode, anchor)}  BY DEF Init
  <2>2. Idle.at = "idle"  BY DEF Idle
  <2>3. \A at \in {"sheet", "today"} : Asking(Chain(at, mode, anchor), entry, today)
    BY DEF Asking, Chain, PagePeriodOf, PeriodOf
  <2>4. QED  BY <2>1, <2>2, <2>3 DEF Asking
<1>5. QED  BY <1>2, <1>3, <1>4 DEF TodayKnown, Shown

\* A request that is sent asks for the right month, and brings the record if it loads it.
LEMMA SentAsks ==
    ASSUME NEW k, NEW at \in Steps, NEW m, NEW a, Sent(k, at, m, a)
    PROVE  /\ Asking(k, entry, today)
           /\ Bringer(k) <=> at \in {"refresh", "today"}
           /\ k # Idle
<1>1. /\ k.at = at /\ k.got = Unknown
      /\ at \in {"refresh", "today"} => k.month = PeriodOf(today)
  BY StepNames DEF Sent, PagePeriodOf, PeriodOf
<1>2. Unknown # TRUE  BY UnknownAssumption
<1>3. k # Idle  BY <1>1, StepNames DEF Idle
<1>4. QED  BY <1>1, <1>2, <1>3 DEF Asking, Bringer

\* A step that changes neither the record of today nor what the server has of it, and after
\* which a chain that was to bring the record still is.
LEMMA TodayStep ==
    ASSUME TodayKnown, UNCHANGED <<today, entry, todayRecord>>, sure' => sure,
           NEW s \in Slots, \A t \in Slots : t # s => job'[t] = job[t],
           Asking(job'[s], entry, today), Bringer(job[s]) => Bringer(job'[s])
    PROVE  TodayKnown'
<1>1. \A d \in Workdays : d > today' => entry'[d] = "none"  BY DEF TodayKnown
<1>2. todayRecord'.day <= today'  BY DEF TodayKnown
<1>3. ASSUME sure PROVE \A t \in Slots : Asking(job'[t], entry, today)
  BY <1>3 DEF TodayKnown
<1>4. ASSUME sure PROVE Shown \/ \E t \in Slots : Bringer(job'[t])
  BY <1>4 DEF TodayKnown
<1>5. Shown' = Shown  BY DEF Shown
<1>6. \A j : Asking(j, entry', today') = Asking(j, entry, today)  OBVIOUS
<1>7. QED  BY <1>1, <1>2, <1>3, <1>4, <1>5, <1>6 DEF TodayKnown, Asking, Bringer, BookedIn

\* The same when the chain ends, without having been one to bring it.
LEMMA IdleAsksNothing == Asking(Idle, entry, today) /\ ~Bringer(Idle)
BY StepNames DEF Asking, Bringer, Idle, Punches

LEMMA LandingToday ==
    ASSUME Typed, TodayKnown, NEW s \in Slots, Land(s)
    PROVE  TodayKnown'
<1> USE DEF server, caches, history
<1>1. /\ IsChain(job[s]) /\ job[s].got # Unknown /\ \A t \in Slots : t # s => job'[t] = job[t]
      /\ UNCHANGED <<today, entry>>
      /\ job'[s] = Idle \/ \E at \in Steps \ Asks : Sent(job'[s], at, job[s].mode, job[s].anchor)
  BY Landing DEF Land
<1>2. entry \in [Workdays -> States] /\ today \in Days /\ today \in Int
  BY MonthOfDay DEF Typed, TypeOK
<1>3. Asking(job'[s], entry, today)  BY <1>1, SentAsks, IdleAsksNothing
<1>4. ASSUME NEW at \in {"refresh", "today"}, Proceeds(s, at), job[s].at # "today",
             todayRecord' = todayRecord, sure' => sure
      PROVE  TodayKnown'
  <2>1. at \in Steps /\ at # "correct"  BY StepNames
  <2>2. job[s].mode \in Modes  BY <1>1, <1>4 DEF IsChain
  <2>3. Sent(job'[s], at, job[s].mode, job[s].anchor)
    BY <1>1, <1>4, <2>1, <2>2, Proceeding
  <2>4. Bringer(job'[s])  BY <2>1, <2>3, SentAsks
  <2>5. QED  BY <1>1, <1>3, <1>4, <2>4, TodayStep
<1>5. CASE LandAccepted(s)
  <2>1. todayRecord' = todayRecord /\ sure' = sure  BY <1>5 DEF LandAccepted
  <2>2. CASE job[s].at \in Punches
    BY <1>4, <1>5, <2>1, <2>2, StepNames DEF LandAccepted
  <2>3. CASE job[s].at \notin Punches
    <3>1. ~Bringer(job[s])  BY <1>5, <2>3, StepNames DEF LandAccepted, Bringer
    <3>2. QED  BY <1>1, <1>3, <2>1, <3>1, TodayStep
  <2>4. QED  BY <2>2, <2>3
<1>6. CASE LandRefused(s)
  <2>1. todayRecord' = todayRecord /\ sure' = sure  BY <1>6 DEF LandRefused
  <2>2. job[s].got # TRUE  BY <1>6 DEF LandRefused
  <2>3. ~Bringer(job[s])  BY <1>6, <2>2, StepNames DEF LandRefused, Bringer
  <2>4. QED  BY <1>1, <1>3, <2>1, <2>3, TodayStep
<1>7. CASE LandRefresh(s)
  <2>1. CASE Proceeds(s, "today") /\ todayRecord' = todayRecord /\ sure' = sure
    BY <1>4, <1>7, <2>1 DEF LandRefresh
  <2>2. CASE sure' = FALSE /\ todayRecord' = todayRecord
    BY <1>1, <2>2 DEF TodayKnown
  <2>3. QED  BY <1>7, <2>1, <2>2 DEF LandRefresh
<1>8. CASE LandToday(s)
  <2>1. todayRecord' = RecordOf(job[s].got, today) /\ sure' = sure  BY <1>8 DEF LandToday
  <2>2. todayRecord'.day = today  BY <2>1 DEF RecordOf
  <2>3. ASSUME sure, today \in Workdays PROVE todayRecord'.state = entry[today]
    <3>1. /\ job[s].got = BookedIn(job[s].month, entry)
          /\ job[s].month = PeriodOf(today) \/ entry[today] = "none"
      BY <1>1, <1>8, <2>3 DEF LandToday, TodayKnown, Asking
    <3>2. QED  BY <1>2, <2>1, <2>3, <3>1, RecordIsRight
  <2>4. ASSUME sure PROVE \A t \in Slots : Asking(job'[t], entry, today)
    BY <1>1, <1>3, <2>4 DEF TodayKnown
  <2>5. sure => Shown'  BY <1>1, <2>2, <2>3 DEF Shown
  <2>6. \A d \in Workdays : d > today => entry[d] = "none"  BY DEF TodayKnown
  <2>7. QED
    BY <1>1, <1>2, <2>1, <2>2, <2>4, <2>5, <2>6 DEF TodayKnown, Asking, BookedIn
<1>9. CASE LandSheet(s) \/ LandCreate(s) \/ LandDays(s) \/ LandFixes(s)
  <2>1. todayRecord' = todayRecord /\ sure' = sure /\ job[s].at \in {"sheet", "create", "days", "fixes"}
    BY <1>9 DEF LandSheet, LandCreate, LandDays, LandFixes
  <2>2. ~Bringer(job[s])  BY <2>1 DEF Bringer, Punches
  <2>3. QED  BY <1>1, <1>3, <2>1, <2>2, TodayStep
<1>10. QED  BY <1>5, <1>6, <1>7, <1>8, <1>9 DEF Land

\* The server's part: the books of today change only where a check-in is carried out.
LEMMA DecidingToday ==
    ASSUME Typed, TodayKnown, NEW s \in Slots, CarryOut(s) \/ Refuse(s)
    PROVE  TodayKnown'
<1> USE DEF server, caches, history
<1>1. /\ job[s].at \in Asks /\ job[s].got = Unknown /\ job'[s].at = job[s].at
      /\ \A t \in Slots : t # s => job'[t] = job[t]
      /\ CarryOut(s) => job'[s].got = TRUE
  BY Deciding
<1>2. today' = today /\ todayRecord' = todayRecord  BY DEF CarryOut, Refuse
<1>3. \A e, d : Asking(job'[s], e, d)  BY <1>1, StepNames DEF Asking
<1>4. ~Bringer(job[s])
  <2>1. job[s].got # TRUE  BY <1>1, UnknownAssumption
  <2>2. QED  BY <1>1, <2>1, StepNames DEF Bringer
<1>5. CASE entry' = entry /\ sure' = sure  BY <1>1, <1>2, <1>3, <1>4, <1>5, TodayStep
<1>6. CASE CarryOut(s) /\ job[s].at \in Punches
  <2>1. /\ entry' = [entry EXCEPT ![today] = IF job[s].at = "checkIn" THEN "in" ELSE "out"]
        /\ sure' => AboutToday = {s}
    BY <1>6 DEF CarryOut, Punches
  <2>2. today \in Int /\ Workdays \subseteq Int /\ entry \in [Workdays -> States]
    BY MonthOfDay, ConstantFacts DEF Typed, TypeOK
  <2>3. \A d \in Workdays : d > today => entry'[d] = "none"
    <3>1. \A d \in Workdays : d # today => entry'[d] = entry[d]  BY <2>1, <2>2
    <3>2. QED  BY <2>2, <3>1 DEF TodayKnown
  <2>4. ASSUME sure' PROVE \A t \in Slots : Asking(job'[t], entry', today)
    <3>1. \A t \in Slots : t # s => job[t].at \notin {"refresh", "today"}
      BY <2>1, <2>4 DEF AboutToday
    <3>2. QED  BY <1>1, <1>3, <3>1 DEF Asking
  <2>5. Bringer(job'[s])  BY <1>1, <1>6 DEF Bringer
  <2>6. QED  BY <1>2, <2>3, <2>4, <2>5 DEF TodayKnown, Asking, Bringer, BookedIn
<1>7. QED
  <2>1. CASE CarryOut(s) /\ job[s].at \notin Punches
    BY <1>5, <2>1 DEF CarryOut, Typed, TypeOK
  <2>2. CASE Refuse(s)  BY <1>5, <2>2 DEF Refuse
  <2>3. QED  BY <1>6, <2>1, <2>2

LEMMA StepToday == Typed /\ TodayKnown /\ [Next]_vars => TodayKnown'
<1> SUFFICES ASSUME Typed, TodayKnown, [Next]_vars PROVE TodayKnown'  OBVIOUS
<1> USE DEF server, caches, history
<1>1. anchor \in Days /\ mode \in Modes /\ today \in Days /\ today \in Int
      /\ entry \in [Workdays -> States]
  BY MonthOfDay DEF Typed, TypeOK
<1>2. ASSUME NEW s \in Slots, Answer(s) PROVE TodayKnown'
  <2>1. /\ \A t \in Slots : t # s => job'[t] = job[t]
        /\ job'[s].at = job[s].at /\ job'[s].month = job[s].month
        /\ job[s].at \in Steps /\ job[s].at \notin Asks
        /\ job[s].at \in {"refresh", "today"} => job'[s].got = Booked(job[s].month)
    BY <1>2, Answering
  <2>2. UNCHANGED <<today, entry, todayRecord, sure>>  BY <1>2 DEF Answer
  <2>3. Booked(job[s].month) = BookedIn(job[s].month, entry)  BY DEF Booked, BookedIn
  <2>4. Bringer(job[s]) => Bringer(job'[s])  BY <2>1, StepNames DEF Bringer
  <2>5. CASE ~sure
    BY <2>2, <2>5 DEF TodayKnown
  <2>6. CASE sure
    <3>1. Asking(job[s], entry, today)  BY <2>6 DEF TodayKnown
    <3>2. Asking(job'[s], entry, today)  BY <2>1, <2>3, <3>1 DEF Asking
    <3>3. QED  BY <2>1, <2>2, <2>4, <3>2, TodayStep
  <2>7. QED  BY <2>5, <2>6
<1>3. ASSUME NEW s \in Slots, Land(s) PROVE TodayKnown'  BY <1>3, LandingToday
<1>4. ASSUME NEW s \in Slots, Lose(s) PROVE TodayKnown'
  <2>1. /\ \A t \in Slots : t # s => job'[t] = job[t]
        /\ job'[s] = Idle \/ Sent(job'[s], "sheet", job[s].mode, job[s].anchor)
        /\ UNCHANGED <<today, entry, todayRecord>>
        /\ sure' = (sure /\ s \notin AboutToday)
    BY <1>4, Losing DEF Lose
  <2>2. CASE sure'
    <3>1. sure /\ ~Bringer(job[s])  BY <2>1, <2>2 DEF AboutToday, Bringer
    <3>2. Asking(job'[s], entry, today)  BY <2>1, StepNames, SentAsks, IdleAsksNothing
    <3>3. QED  BY <2>1, <3>1, <3>2, TodayStep
  <2>3. CASE ~sure'  BY <2>1, <2>3 DEF TodayKnown
  <2>4. QED  BY <2>2, <2>3
<1>5. ASSUME NEW s \in Slots, NEW at \in Steps, NEW m, NEW a, Sent(job'[s], at, m, a),
             job[s] = Idle, \A t \in Slots : t # s => job'[t] = job[t],
             UNCHANGED <<today, entry, todayRecord, sure>>
      PROVE  TodayKnown'
  <2>1. Asking(job'[s], entry, today) /\ ~Bringer(job[s])  BY <1>5, SentAsks, IdleAsksNothing
  <2>2. QED  BY <1>5, <2>1, TodayStep
<1>6. ASSUME NEW m \in Modes, NEW a \in Days, Start("sheet", m, a),
             UNCHANGED <<today, entry, todayRecord, sure>>
      PROVE  TodayKnown'
  <2>1. "sheet" \in Steps /\ "sheet" # "correct"  BY StepNames
  <2>2. PICK s \in Slots : /\ job[s] = Idle /\ Sent(job'[s], "sheet", m, a)
                           /\ \A t \in Slots : t # s => job'[t] = job[t]
    BY <1>6, <2>1, Starting
  <2>3. QED  BY <1>5, <1>6, <2>1, <2>2
<1>7. ASSUME NEW m \in Modes, NEW a \in Anchors \cup {DefaultAnchor(today)}, Choose(m, a)
      PROVE  TodayKnown'
  <2>1. a \in Days  BY <1>1, ConstantFacts, DefaultAnchorIsDay
  <2>2. QED  BY <1>6, <1>7, <2>1 DEF Choose
<1>8. CASE Reload  BY <1>1, <1>6, <1>8 DEF Reload
<1>9. CASE ReloadToday
  <2>1. "today" \in Steps /\ "today" # "correct"  BY StepNames
  <2>2. Start("today", "none", anchor)  BY <1>9 DEF ReloadToday
  <2>3. PICK s \in Slots : /\ job[s] = Idle /\ Sent(job'[s], "today", "none", anchor)
                           /\ \A t \in Slots : t # s => job'[t] = job[t]
    BY <1>1, <2>1, <2>2, Starting
  <2>4. UNCHANGED <<today, todayRecord, entry>> /\ sure' = (sure \/ AboutToday = {})
    BY <1>9 DEF ReloadToday
  <2>5. Asking(job'[s], entry, today) /\ Bringer(job'[s])  BY <2>1, <2>3, SentAsks
  <2>6. CASE sure  BY <2>3, <2>4, <2>5, <2>6, TodayStep
  <2>7. CASE AboutToday = {}
    <3>1. \A t \in Slots : job[t].at \notin {"refresh", "today"}  BY <2>7 DEF AboutToday
    <3>2. \A t \in Slots : Asking(job'[t], entry, today)
      BY <2>3, <2>5, <3>1 DEF Asking
    <3>3. QED  BY <2>4, <2>5, <3>2 DEF TodayKnown, Asking, Bringer, BookedIn
  <2>8. CASE ~sure'  BY <2>4, <2>8 DEF TodayKnown
  <2>9. QED  BY <2>4, <2>6, <2>7, <2>8
<1>10. CASE Submit \/ (\E at \in Punches : Punch(at)) \/ (\E d \in Workdays : Correct(d))
  <2>1. PICK s \in Slots : \E at \in Asks :
          /\ job[s] = Idle /\ Sent(job'[s], at, mode, anchor)
          /\ \A t \in Slots : t # s => job'[t] = job[t]
    BY <1>10, Pressing
  <2>2. PICK at \in Asks : Sent(job'[s], at, mode, anchor)  BY <2>1
  <2>3. UNCHANGED <<today, entry, todayRecord, sure>>
    BY <1>10 DEF Submit, Punch, Correct
  <2>4. at \in Steps  BY StepNames
  <2>5. QED  BY <1>5, <2>1, <2>2, <2>3, <2>4
<1>11. ASSUME NEW s \in Slots, CarryOut(s) \/ Refuse(s) PROVE TodayKnown'
  BY <1>11, DecidingToday
<1>12. CASE Midnight
  <2>1. today' = today + 1 /\ UNCHANGED <<entry, job, todayRecord, sure>>
    BY <1>12 DEF Midnight
  <2>2. Workdays \subseteq Int /\ todayRecord.day \in Int
    BY ConstantFacts, MonthOfDay DEF Typed, TypeOK
  <2>3. \A d \in Workdays : d > today' => entry[d] = "none"  BY <1>1, <2>1, <2>2 DEF TodayKnown
  <2>4. todayRecord.day <= today' /\ todayRecord.day # today'
    BY <1>1, <2>1, <2>2 DEF TodayKnown
  <2>5. today' \in Workdays => entry[today'] = "none"  BY <1>1, <2>1, <2>2 DEF TodayKnown
  <2>6. sure => \A t \in Slots : Asking(job[t], entry, today')
    BY <2>5 DEF TodayKnown, Asking
  <2>7. QED  BY <2>1, <2>3, <2>4, <2>6 DEF TodayKnown, Shown, Asking, BookedIn
<1>13. CASE UNCHANGED vars
  <2>1. UNCHANGED <<today, entry, todayRecord, job, sure>>  BY <1>13 DEF vars
  <2>2. QED  BY <2>1 DEF TodayKnown, Shown, Asking, Bringer, BookedIn
<1>14. QED
  BY <1>2, <1>3, <1>4, <1>7, <1>8, <1>9, <1>10, <1>11, <1>12, <1>13 DEF Next

\* The record of today that the dashboard shows, which decides between check-in and
\* check-out, is the server's whenever nothing about it is under way, also after midnight,
\* and whatever other chains do to the list it was read from (loadAttendanceData).  Not so
\* after a request about it was lost, or a reload crossed a check-in, until it is loaded anew.
THEOREM TodayAlwaysShown == Spec => []TodayIsShown
<1>1. ASSUME TodayKnown PROVE TodayIsShown
  <2> SUFFICES ASSUME AboutToday = {}, sure, todayRecord.day = today, today \in Workdays
               PROVE  todayRecord.state = entry[today]
    BY DEF TodayIsShown
  <2>1. \A s \in Slots : ~Bringer(job[s])  BY DEF AboutToday, Bringer
  <2>2. QED  BY <1>1, <2>1 DEF TodayKnown, Shown
<1>2. QED  BY <1>1, AlwaysTyped, InitToday, StepToday, PTL DEF Spec

-----------------------------------------------------------------------------
(* The view comes right *)

\* What a page that shows the one sheet m of a week should show, and what it has of it.
Truth(m) ==
    [month |-> m, mode |-> mode, anchor |-> anchor,
     summary |-> Summary(m), rows |-> Booked(m), fixes |-> pending,
     made |-> sheet[m] # "none", cached |-> cache[m]]

\* A load that was not disturbed asks for what the page is to show, and was told the truth.
\* Once the chain is past the sheet, the cached summary is the sheet's.
InStep(j, t) ==
    (j # Idle /\ j.at \notin Asks) =>
        /\ j.mode = t.mode /\ j.anchor = t.anchor
        /\ j.at \notin {"refresh", "today"} => j.month = t.month
        /\ j.at \in {"days", "fixes"} => t.made /\ t.cached = t.summary /\ t.cached # Unknown
        /\ j.got # Unknown =>
             /\ j.at = "sheet" => j.got = NoSheet \/ (t.made /\ j.got = t.summary)
             /\ j.at = "create" => t.made /\ (j.got = NoSheet \/ j.got = t.summary)
             /\ j.at = "days" => j.got = t.rows
             /\ j.at = "fixes" => j.got = t.fixes

\* A chain that found no sheet, but by now another chain has made it: its own attempt to
\* make it will fail.
Stuck(j, t) ==
    /\ t.made
    /\ \/ j.at = "sheet" /\ j.got # Unknown /\ j.got = NoSheet
       \/ j.at = "create" /\ j.got \in {Unknown, NoSheet}

\* A chain that will come to show what it was told.
Leads(j, t) == j # Idle /\ j.at \notin Asks /\ ~Stuck(j, t)

Right(shown, t) ==
    /\ shown.summary = t.summary
    /\ shown.rows = RowsIn(t.rows, WeekRange(t.anchor))
    /\ shown.fixes = t.fixes

\* When the list of days is that of another month, a chain will still load the right one;
\* when the view is not right, a chain will still compose it anew.
Recovers(jobs, list, shown, t) ==
    /\ \A s \in Slots : InStep(jobs[s], t)
    /\ list = t.rows \/ \E s \in Slots : Leads(jobs[s], t) /\ jobs[s].at # "fixes"
    /\ Right(shown, t) \/ \E s \in Slots : Leads(jobs[s], t)

BookedHaveSheets == \A m \in Months : Booked(m) # {} => sheet[m] # "none"

Recovering ==
    /\ BookedHaveSheets
    /\ (calm /\ OneSheet) => Recovers(job, days, view, Truth(MonthOf(anchor)))

\* A week whose one sheet has the name of the month of the anchor: loads and the summary
\* that is looked up are of that month.
LEMMA OneSheetMonth ==
    ASSUME OneSheet, anchor \in Days
    PROVE  /\ MonthOf(anchor) \in Months
           /\ mode = "week" /\ LoadedMonth(mode, anchor) = MonthOf(anchor)
           /\ SummaryMonth(anchor) = MonthOf(anchor)
           /\ \A p : PeriodConfig(Asked(p, mode), anchor) = WeekRange(anchor)
<1>1. MonthOf(anchor) \in Months  BY MonthOfDay
<1>2. mode = "week" /\ MonthOf(WeekRange(anchor).start) = MonthOf(anchor)  BY DEF OneSheet
<1>3. PeriodConfig(mode, anchor) = WeekRange(anchor)  BY <1>2 DEF PeriodConfig
<1>4. QED  BY <1>1, <1>2, <1>3 DEF LoadedMonth, SummaryMonth, Asked

LEMMA TruthFields ==
    ASSUME NEW m, NEW t, t = Truth(m)
    PROVE  /\ t.month = m /\ t.mode = mode /\ t.anchor = anchor
           /\ t.summary = Summary(m) /\ t.rows = Booked(m) /\ t.fixes = pending
           /\ t.made = (sheet[m] # "none") /\ t.cached = cache[m]
BY DEF Truth

\* A chain that starts when all others have ended brings the view right.
LEMMA FreshLeads ==
    ASSUME NEW jobs, NEW list, NEW shown, NEW t, NEW s \in Slots,
           \A x \in Slots : x # s => jobs[x] = Idle,
           jobs[s].mode = t.mode, jobs[s].anchor = t.anchor, jobs[s].got = Unknown,
           jobs[s].at \in {"refresh", "sheet"}, jobs[s].at = "sheet" => jobs[s].month = t.month
    PROVE  Recovers(jobs, list, shown, t)
<1>1. jobs[s] # Idle  BY DEF Idle
<1>2. Leads(jobs[s], t) /\ jobs[s].at # "fixes"  BY <1>1, StepNames DEF Leads, Stuck
<1>3. \A x \in Slots : InStep(jobs[x], t)  BY DEF InStep
<1>4. QED  BY <1>2, <1>3 DEF Recovers

\* A step of one chain that leaves the list and the view as they are, or changes them but
\* leads on itself.
LEMMA OneLeadsOn ==
    ASSUME NEW jobs, NEW next, NEW list, NEW shown, NEW t, NEW s \in Slots,
           Recovers(jobs, list, shown, t),
           \A x \in Slots : x # s => next[x] = jobs[x],
           InStep(next[s], t),
           Leads(jobs[s], t) => Leads(next[s], t) /\ (jobs[s].at # "fixes" => next[s].at # "fixes")
    PROVE  Recovers(next, list, shown, t)
BY DEF Recovers

LEMMA Reshuffled ==
    ASSUME NEW jobs, NEW next, NEW list, NEW shown, NEW t, NEW s \in Slots,
           \A x \in Slots : InStep(jobs[x], t),
           \A x \in Slots : x # s => next[x] = jobs[x],
           InStep(next[s], t), Leads(next[s], t),
           next[s].at # "fixes" \/ list = t.rows
    PROVE  Recovers(next, list, shown, t)
BY DEF Recovers

LEMMA SameTruth ==
    ASSUME UNCHANGED <<mode, anchor, server>>
    PROVE  /\ OneSheet' <=> OneSheet
           /\ BookedHaveSheets' <=> BookedHaveSheets
           /\ Truth(MonthOf(anchor))' =
                [Truth(MonthOf(anchor)) EXCEPT !.cached = cache'[MonthOf(anchor)]]
           /\ cache' = cache => Truth(MonthOf(anchor))' = Truth(MonthOf(anchor))
<1> USE DEF server
<1>1. /\ OneSheet' <=> OneSheet  BY DEF OneSheet
<1>2. BookedHaveSheets' <=> BookedHaveSheets  BY DEF BookedHaveSheets, Booked
<1>3. Summary(MonthOf(anchor))' = Summary(MonthOf(anchor))
  BY DEF Summary, CanSubmit, Booked
<1>4. Booked(MonthOf(anchor))' = Booked(MonthOf(anchor))  BY DEF Booked
<1>5. QED  BY <1>1, <1>2, <1>3, <1>4 DEF Truth

\* What is known while nothing disturbs the chains of a page that shows one sheet.
Undisturbedly ==
    /\ Typed /\ Recovering /\ calm /\ OneSheet

LEMMA WhenUndisturbed ==
    ASSUME Undisturbedly, NEW t, t = Truth(MonthOf(anchor))
    PROVE  /\ Recovers(job, days, view, t)
           /\ t.month \in Months /\ t.month # 0
           /\ t.mode = mode /\ mode = "week" /\ t.anchor = anchor /\ t.month = MonthOf(anchor)
           /\ LoadedMonth(t.mode, t.anchor) = t.month
           /\ SummaryMonth(t.anchor) = t.month
           /\ \A p : PeriodConfig(Asked(p, t.mode), t.anchor) = WeekRange(t.anchor)
           /\ t.summary = Summary(t.month) /\ t.rows = Booked(t.month) /\ t.fixes = pending
           /\ t.made = (sheet[t.month] # "none") /\ t.cached = cache[t.month]
           /\ t.summary.month = t.month /\ t.summary # NoSheet
<1>1. anchor \in Days  BY DEF Undisturbedly, Typed, TypeOK
<1>2. OneSheet /\ calm /\ Recovering  BY DEF Undisturbedly
<1>3. Recovers(job, days, view, t)  BY <1>2 DEF Recovering
<1>4. t.summary.month = t.month /\ NoSheet.month = 0
  <2>1. t.summary = Summary(MonthOf(anchor)) /\ t.month = MonthOf(anchor)  BY TruthFields
  <2>2. QED  BY <2>1 DEF Summary, NoSheet
<1>5. MonthOf(anchor) # 0  BY <1>1, <1>2, OneSheetMonth, ConstantFacts
<1>6. t.summary # NoSheet  BY <1>4, <1>5, TruthFields
<1>7. QED  BY <1>1, <1>2, <1>3, <1>4, <1>5, <1>6, OneSheetMonth, TruthFields

\* The server's answer is the truth, and a sheet that a chain makes is the one that all
\* chains then find.
LEMMA AnswerRecovers ==
    ASSUME Undisturbedly, NEW s \in Slots, Answer(s)
    PROVE  Recovers(job', days', view', Truth(MonthOf(anchor))')
<1> DEFINE t == Truth(MonthOf(anchor))
           u == Truth(MonthOf(anchor))'
           j == job[s]
           k == job'[s]
<1>1. /\ Recovers(job, days, view, t) /\ t.month \in Months /\ t.month # 0
      /\ t.summary = Summary(t.month) /\ t.rows = Booked(t.month) /\ t.fixes = pending
      /\ t.made = (sheet[t.month] # "none") /\ t.cached = cache[t.month]
      /\ t.summary # NoSheet /\ t.month = MonthOf(anchor)
  BY WhenUndisturbed
<1>2. /\ IsChain(j) /\ IsChain(k) /\ j.got = Unknown /\ j # Idle /\ k # Idle
      /\ \A x \in Slots : x # s => job'[x] = job[x]
      /\ k.at = j.at /\ k.month = j.month /\ k.mode = j.mode /\ k.anchor = j.anchor
      /\ j.at \in {"refresh", "today", "days"} => k.got = Booked(j.month)
      /\ j.at = "sheet" => k.got = IF sheet[j.month] = "none" THEN NoSheet ELSE Summary(j.month)
      /\ j.at = "create" => k.got = IF sheet[j.month] = "none"
                                     THEN [NoSheet EXCEPT !.month = j.month] ELSE NoSheet
      /\ j.at = "fixes" => k.got = pending
  BY Answering, IdleIsNoChain DEF Undisturbedly
<1>3. InStep(j, t) /\ j.at \in Steps /\ j.at \notin Asks
  BY <1>1, Answering DEF Recovers, Undisturbedly
<1>4. /\ days' = days /\ view' = view /\ cache' = cache /\ UNCHANGED <<mode, anchor, entry, pending>>
      /\ sheet' = IF j.at = "create" /\ sheet[j.month] = "none"
                    THEN [sheet EXCEPT ![j.month] = "draft"] ELSE sheet
  BY DEF Answer, caches, controls
<1>5. CASE ~(j.at = "create" /\ sheet[j.month] = "none")
  <2>1. u = t  BY <1>4, <1>5, SameTruth DEF server
  <2> HIDE DEF t, u, j, k
  <2>2. InStep(k, t)  BY <1>1, <1>2, <1>3, <1>5 DEF InStep, Steps
  <2>3. Leads(j, t) => Leads(k, t)  BY <1>1, <1>2, <1>3, <1>5 DEF Leads, Stuck, InStep
  <2>4. Recovers(job', days, view, t)
    BY <1>1, <1>2, <2>2, <2>3, OneLeadsOn DEF j, k
  <2>5. QED  BY <1>4, <2>1, <2>4 DEF t, u
<1>6. CASE j.at = "create" /\ sheet[j.month] = "none"
  <2>1. j.month = t.month /\ ~t.made  BY <1>1, <1>2, <1>3, <1>6 DEF InStep
  <2>2. sheet' = [sheet EXCEPT ![t.month] = "draft"] /\ sheet'[t.month] = "draft"
    BY <1>1, <1>4, <1>6, <2>1 DEF Undisturbedly, Typed, TypeOK
  <2>3. Booked(t.month) = {}
    BY <1>1, <1>6, <2>1 DEF Undisturbedly, Recovering, BookedHaveSheets
  <2>4. Booked(MonthOf(anchor))' = Booked(MonthOf(anchor))  BY <1>4 DEF Booked
  <2>5. Summary(MonthOf(anchor))' = [month |-> t.month, status |-> "draft", canSubmit |-> FALSE]
    <3>1. CanSubmit(MonthOf(anchor))' = FALSE  BY <1>1, <2>3, <2>4 DEF CanSubmit
    <3>2. QED  BY <1>1, <1>4, <2>2, <3>1 DEF Summary
  <2>6. /\ u.month = t.month /\ u.mode = t.mode /\ u.anchor = t.anchor /\ u.made
        /\ u.summary = [month |-> t.month, status |-> "draft", canSubmit |-> FALSE]
        /\ u.fixes = t.fixes
    BY <1>1, <1>4, <2>2, <2>5 DEF Truth
  <2>7. k.got = u.summary /\ k.got # NoSheet /\ k.got # Unknown
    <3>1. k.got = [month |-> t.month, status |-> "draft", canSubmit |-> FALSE]
      BY <1>2, <1>6, <2>1 DEF NoSheet
    <3>2. k.got \in Summaries  BY <1>1, <3>1 DEF Summaries
    <3>3. k.got.month # 0 /\ NoSheet.month = 0  BY <1>1, <3>1 DEF NoSheet
    <3>4. QED  BY <2>6, <3>1, <3>2, <3>3, UnknownAssumption
  <2> HIDE DEF t, u, j, k
  <2>8. ASSUME NEW x \in Slots, x # s PROVE InStep(job[x], u)
    <3>1. InStep(job[x], t)  BY <1>1 DEF Recovers
    <3>2. QED  BY <2>1, <2>6, <3>1 DEF InStep
  <2>9. InStep(k, u)  BY <1>2, <1>3, <1>6, <2>6, <2>7 DEF InStep
  <2>10. Leads(k, u) /\ k.at # "fixes"  BY <1>2, <1>6, <2>7, StepNames DEF Leads, Stuck
  <2>11. Recovers(job', days, view, u)
    <3>1. \A x \in Slots : InStep(job'[x], u)  BY <1>2, <2>8, <2>9 DEF k
    <3>2. QED  BY <2>10, <3>1 DEF Recovers, k
  <2>12. QED  BY <1>4, <2>11 DEF u
<1>7. QED  BY <1>5, <1>6

\* A chain that goes on waits for its next answer.
LEMMA NextInStep ==
    ASSUME NEW t, NEW k, NEW at \in Steps \ Asks, Sent(k, at, t.mode, t.anchor),
           at \in {"sheet", "create", "days", "fixes"} => LoadedMonth(t.mode, t.anchor) = t.month,
           at \in {"days", "fixes"} => t.made /\ t.cached = t.summary /\ t.cached # Unknown
    PROVE  InStep(k, t) /\ k.at = at /\ k.got = Unknown /\ k # Idle
<1>1. /\ k.at = at /\ k.mode = t.mode /\ k.anchor = t.anchor /\ k.got = Unknown
      /\ k.month = IF at \in {"refresh", "today"} THEN PagePeriodOf(today) ELSE LoadedMonth(t.mode, t.anchor)
  BY DEF Sent
<1>2. k # Idle  BY <1>1, StepNames DEF Idle
<1>3. at \in {"refresh", "today", "sheet", "create", "days", "fixes"}  BY StepNames
<1>4. QED  BY <1>1, <1>2, <1>3 DEF InStep

\* Landing at the sheet, or after making it, caches the true summary of it.
LEMMA SheetRecovers ==
    ASSUME Undisturbedly, NEW s \in Slots, Land(s), LandSheet(s) \/ LandCreate(s)
    PROVE  Recovers(job', days', view', Truth(MonthOf(anchor))')
<1> DEFINE t == Truth(MonthOf(anchor))
           u == Truth(MonthOf(anchor))'
           j == job[s]
           k == job'[s]
<1>1. /\ Recovers(job, days, view, t) /\ t.month \in Months
      /\ LoadedMonth(t.mode, t.anchor) = t.month
      /\ t.cached = cache[t.month] /\ t.month = MonthOf(anchor)
      /\ t.summary # NoSheet
  BY WhenUndisturbed
<1>2. /\ IsChain(j) /\ j.got # Unknown /\ j # Idle
      /\ \A x \in Slots : x # s => job'[x] = job[x]
  BY Landing, IdleIsNoChain DEF Undisturbedly
<1>3. InStep(j, t) /\ j.mode = t.mode /\ j.anchor = t.anchor /\ j.at \in {"sheet", "create"}
      /\ j.month = t.month
  BY <1>1, <1>2, StepNames DEF Recovers, InStep, LandSheet, LandCreate
<1>4. days' = days /\ view' = view /\ UNCHANGED <<mode, anchor, server>>
  BY DEF Land, LandSheet, LandCreate, controls
<1>5. ASSUME NEW at, Proceeds(s, at) PROVE Sent(k, at, t.mode, t.anchor)
  BY <1>3, <1>5, ProceedsSends DEF Undisturbedly
<1>6. CASE j.got = NoSheet
  <2>1. u = t  BY <1>4, <1>6, SameTruth DEF LandSheet, LandCreate
  <2>2. CASE j.at = "sheet"
    <3>1. Sent(k, "create", t.mode, t.anchor)  BY <1>5, <1>6, <2>2 DEF LandSheet, LandCreate
    <3> HIDE DEF t, u, j, k
    <3>2. InStep(k, t) /\ k.at = "create" /\ k.got = Unknown /\ k # Idle
      BY <1>1, <3>1, StepNames, NextInStep
    <3>3. Leads(j, t) => Leads(k, t)  BY <1>2, <1>6, <2>2, <3>2, StepNames DEF Leads, Stuck
    <3>4. Recovers(job', days, view, t)
      BY <1>1, <1>2, <3>2, <3>3, OneLeadsOn DEF j, k
    <3>5. QED  BY <1>4, <2>1, <3>4 DEF t, u
  <2>3. CASE j.at = "create"
    <3>1. k = Idle  BY <1>6, <2>3 DEF LandSheet, LandCreate, Ends, Undisturbedly, Typed, Chains
    <3> HIDE DEF t, u, j, k
    <3>2. Stuck(j, t)  BY <1>2, <1>3, <1>6, <2>3, StepNames DEF InStep, Stuck
    <3>3. InStep(k, t) /\ ~Leads(j, t)  BY <3>1, <3>2 DEF InStep, Leads
    <3>4. Recovers(job', days, view, t)
      BY <1>1, <1>2, <3>3, OneLeadsOn DEF j, k
    <3>5. QED  BY <1>4, <2>1, <3>4 DEF t, u
  <2>4. QED  BY <1>3, <2>2, <2>3
<1>7. CASE j.got # NoSheet
  <2>1. /\ cache' = [cache EXCEPT ![j.month] = j.got] /\ Sent(k, "days", t.mode, t.anchor)
    BY <1>5, <1>7 DEF LandSheet, LandCreate
  <2>2. t.made /\ j.got = t.summary  BY <1>2, <1>3, <1>7, StepNames DEF InStep
  <2>3. cache'[t.month] = t.summary
    BY <1>1, <1>3, <2>1, <2>2 DEF Undisturbedly, Typed, TypeOK
  <2>4. u = [t EXCEPT !.cached = t.summary]  BY <1>1, <1>4, <2>3, SameTruth
  <2>5. /\ u.month = t.month /\ u.mode = t.mode /\ u.anchor = t.anchor /\ u.made = t.made
        /\ u.summary = t.summary /\ u.rows = t.rows /\ u.fixes = t.fixes /\ u.cached = t.summary
    BY <2>4 DEF Truth
  <2> HIDE DEF t, u, j, k
  <2>6. u.cached # Unknown  BY <1>2, <2>2, <2>5
  <2>7. InStep(k, u) /\ k.at = "days" /\ k.got = Unknown /\ k # Idle
    <3>1. /\ Sent(k, "days", u.mode, u.anchor) /\ "days" \in Steps \ Asks
          /\ LoadedMonth(u.mode, u.anchor) = u.month
          /\ u.made /\ u.cached = u.summary /\ u.cached # Unknown
      BY <1>1, <2>1, <2>2, <2>5, <2>6, StepNames
    <3>2. QED  BY <3>1, NextInStep
  <2>8. \A x \in Slots : InStep(job[x], u)
    <3>1. ASSUME NEW x \in Slots PROVE InStep(job[x], u)
      <4>1. InStep(job[x], t)  BY <1>1 DEF Recovers
      <4>2. QED  BY <2>2, <2>5, <2>6, <4>1 DEF InStep
    <3>2. QED  BY <3>1
  <2>9. Leads(k, u)  BY <2>7, StepNames DEF Leads, Stuck
  <2>10. Recovers(job', days, view, u)
    BY <1>2, <2>7, <2>8, <2>9, Reshuffled DEF k
  <2>11. QED  BY <1>4, <2>10 DEF u
<1>8. QED  BY <1>6, <1>7

\* Landing with a list of days, or with the corrections.  A list of another month is
\* followed by the right one; the view is composed of what is cached then.
LEMMA ListRecovers ==
    ASSUME Undisturbedly, NEW s \in Slots, Land(s), calm',
           LandRefresh(s) \/ LandToday(s) \/ LandDays(s) \/ LandFixes(s)
    PROVE  Recovers(job', days', view', Truth(MonthOf(anchor))')
<1> DEFINE t == Truth(MonthOf(anchor))
           u == Truth(MonthOf(anchor))'
           j == job[s]
           k == job'[s]
<1>1. /\ Recovers(job, days, view, t) /\ t.month \in Months
      /\ LoadedMonth(t.mode, t.anchor) = t.month /\ t.mode = "week"
      /\ SummaryMonth(t.anchor) = t.month
      /\ PeriodConfig(Asked(page, t.mode), t.anchor) = WeekRange(t.anchor)
      /\ t.cached = cache[t.month] /\ t.month = MonthOf(anchor)
  BY WhenUndisturbed
<1>2. /\ IsChain(j) /\ j.got # Unknown /\ j # Idle
      /\ \A x \in Slots : x # s => job'[x] = job[x]
  BY Landing, IdleIsNoChain DEF Undisturbedly
<1>3. /\ j.at \notin Asks /\ InStep(j, t)
      /\ j.mode = t.mode /\ j.anchor = t.anchor
  <2>1. j.at \notin Asks  BY StepNames DEF LandRefresh, LandToday, LandDays, LandFixes
  <2>2. InStep(j, t)  BY <1>1 DEF Recovers
  <2>3. QED  BY <1>2, <2>1, <2>2 DEF InStep
<1>4. u = t
  <2>1. cache' = cache /\ UNCHANGED <<mode, anchor, server>>
    BY DEF Land, LandRefresh, LandToday, LandDays, LandFixes, controls
  <2>2. QED  BY <2>1, SameTruth
<1>5. ASSUME NEW at, Proceeds(s, at) PROVE Sent(k, at, t.mode, t.anchor)
  BY <1>3, <1>5, ProceedsSends DEF Undisturbedly
<1>6. CASE LandRefresh(s) \/ LandToday(s)
  <2>1. PICK at \in {"today", "sheet"} : Sent(k, at, t.mode, t.anchor)
    <3>1. CASE LandRefresh(s)  BY <1>5, <3>1 DEF LandRefresh
    <3>2. CASE LandToday(s)
      <4>1. TodayEnds(s) /\ Typed /\ t.mode # "none"  BY <1>1, <3>2 DEF LandToday, Undisturbedly
      <4>2. Sent(k, "sheet", j.mode, j.anchor)  BY <1>2, <1>3, <4>1, EndingToday
      <4>3. QED  BY <1>3, <4>2
    <3>3. QED  BY <1>6, <3>1, <3>2
  <2>2. view' = view  BY <1>6 DEF LandRefresh, LandToday
  <2> HIDE DEF t, u, j, k
  <2>3. InStep(k, t) /\ k.at = at /\ k.got = Unknown /\ k # Idle
    BY <1>1, <2>1, StepNames, NextInStep
  <2>4. Leads(k, t) /\ k.at # "fixes"  BY <2>3, StepNames DEF Leads, Stuck
  <2>5. Recovers(job', days', view, t)
    BY <1>1, <1>2, <2>3, <2>4, Reshuffled DEF Recovers, k
  <2>6. QED  BY <1>4, <2>2, <2>5 DEF u
<1>7. CASE LandDays(s)
  <2>1. /\ Sent(k, "fixes", t.mode, t.anchor) /\ days' = j.got /\ j.at = "days" /\ view' = view
    BY <1>5, <1>7 DEF LandDays
  <2> HIDE DEF t, u, j, k
  <2>2. days' = t.rows /\ t.made /\ t.cached = t.summary /\ t.cached # Unknown
    BY <1>2, <1>3, <2>1 DEF InStep
  <2>3. InStep(k, t) /\ k.at = "fixes" /\ k.got = Unknown /\ k # Idle
    BY <1>1, <2>1, <2>2, StepNames, NextInStep
  <2>4. Leads(k, t)  BY <2>3, StepNames DEF Leads, Stuck
  <2>5. Recovers(job', days', view, t)
    BY <1>1, <1>2, <2>2, <2>3, <2>4, Reshuffled DEF Recovers, k
  <2>6. QED  BY <1>4, <2>1, <2>5 DEF u
<1>8. CASE LandFixes(s)
  <2>1. /\ k = Idle /\ days' = days /\ j.at = "fixes"
        /\ view' = Composed(t.mode, t.anchor, j.got)
    BY <1>3, <1>8 DEF LandFixes, Ends, Undisturbedly, Typed, Chains
  <2>2. t.cached = t.summary /\ t.cached # Unknown /\ j.got = t.fixes
    BY <1>2, <1>3, <2>1 DEF InStep
  <2>3. /\ view'.summary = t.summary /\ view'.fixes = t.fixes
        /\ view'.rows = RowsIn(days, WeekRange(t.anchor))
    <3>1. view'.summary = CachedSummary(t.anchor) /\ view'.fixes = j.got
          /\ view'.rows = RowsIn(days, PeriodConfig(Asked(page, t.mode), t.anchor))
      BY <2>1 DEF Composed
    <3>2. CachedSummary(t.anchor) = t.summary  BY <1>1, <2>2 DEF CachedSummary
    <3>3. QED  BY <1>1, <2>2, <3>1, <3>2
  <2> HIDE DEF t, u, j, k
  <2>4. days = t.rows => Right(view', t)  BY <2>3 DEF Right
  <2>5. InStep(k, t)  BY <2>1 DEF InStep
  <2>6. Recovers(job', days, view', t)
    <3>1. \A x \in Slots : InStep(job'[x], t)  BY <1>1, <1>2, <2>5 DEF Recovers, k
    <3>2. CASE days = t.rows  BY <2>4, <3>1, <3>2 DEF Recovers
    <3>3. ASSUME NEW x \in Slots, Leads(job[x], t), job[x].at # "fixes"
          PROVE  Recovers(job', days, view', t)
      <4>1. x # s  BY <2>1, <3>3 DEF j
      <4>2. Leads(job'[x], t) /\ job'[x].at # "fixes"  BY <1>2, <3>3, <4>1
      <4>3. QED  BY <3>1, <4>2 DEF Recovers
    <3>4. QED  BY <1>1, <3>2, <3>3 DEF Recovers
  <2>7. QED  BY <1>4, <2>1, <2>6 DEF u
<1>9. QED  BY <1>6, <1>7, <1>8

\* A load that begins when nothing else is under way, for what the controls now choose.
LEMMA FreshRecovers ==
    ASSUME NEW s \in Slots, NEW at \in {"refresh", "sheet"}, NEW m \in Modes, NEW a \in Days,
           Sent(job'[s], at, m, a), \A x \in Slots : x # s => job'[x] = Idle,
           mode' = m, anchor' = a, OneSheet'
    PROVE  Recovers(job', days', view', Truth(MonthOf(anchor))')
<1> DEFINE u == Truth(MonthOf(anchor))'
<1>3. u.month = MonthOf(a) /\ u.mode = m /\ u.anchor = a  BY DEF Truth
<1>4. LoadedMonth(m, a) = MonthOf(a)
  <2>1. m = "week" /\ MonthOf(WeekRange(a).start) = MonthOf(a)  BY DEF OneSheet
  <2>2. QED  BY <2>1 DEF LoadedMonth, PeriodConfig
<1> HIDE DEF u
<1>5. /\ job'[s].at = at /\ job'[s].mode = u.mode /\ job'[s].anchor = u.anchor
      /\ job'[s].got = Unknown
      /\ at = "sheet" => job'[s].month = u.month
  BY <1>3, <1>4, StepNames DEF Sent
<1>7. Recovers(job', days', view', u)
  <2> DEFINE next == job'
  <2>1. /\ \A x \in Slots : x # s => next[x] = Idle
        /\ next[s].mode = u.mode /\ next[s].anchor = u.anchor /\ next[s].got = Unknown
        /\ next[s].at \in {"refresh", "sheet"}
        /\ next[s].at = "sheet" => next[s].month = u.month
    BY <1>5
  <2> HIDE DEF next
  <2>2. Recovers(next, days', view', u)  BY <2>1, FreshLeads
  <2>3. QED  BY <2>2 DEF next
<1>8. QED  BY <1>7 DEF u

LEMMA BookedStep ==
    ASSUME Typed, BookedHaveSheets, [Next]_vars
    PROVE  BookedHaveSheets'
<1> USE DEF server
<1>1. /\ entry \in [Workdays -> States] /\ sheet \in [Months -> {"none", "draft", "submitted"}]
      /\ today \in Days
  BY DEF Typed, TypeOK
<1>2. \A m \in Months : BookedIn(m, entry) # {} => sheet[m] # "none"
  BY DEF BookedHaveSheets, Booked, BookedIn
<1>3. ASSUME \A m \in Months : BookedIn(m, entry') # {} => sheet'[m] # "none"
      PROVE  BookedHaveSheets'
  BY <1>3 DEF BookedHaveSheets, Booked, BookedIn
<1>4. ASSUME entry' = entry, \A m \in Months : sheet[m] # "none" => sheet'[m] # "none"
      PROVE  BookedHaveSheets'
  BY <1>2, <1>3, <1>4
<1>5. ASSUME NEW s \in Slots, Answer(s) PROVE BookedHaveSheets'
  BY <1>1, <1>4, <1>5 DEF Answer
<1>6. ASSUME NEW s \in Slots, CarryOut(s), job[s].at \notin Punches PROVE BookedHaveSheets'
  BY <1>1, <1>4, <1>6 DEF CarryOut
<1>7. ASSUME NEW s \in Slots, CarryOut(s), job[s].at \in Punches PROVE BookedHaveSheets'
  <2>1. /\ entry' = [entry EXCEPT ![today] = IF job[s].at = "checkIn" THEN "in" ELSE "out"]
        /\ sheet' = [sheet EXCEPT ![PeriodOf(today)] = "draft"]
    BY <1>7 DEF CarryOut, Punches
  <2>2. ASSUME NEW m \in Months, m # PeriodOf(today), BookedIn(m, entry') # {}
        PROVE  BookedIn(m, entry) # {}
    <3>1. PICK d \in Workdays : PeriodOf(d) = m /\ entry'[d] # "none"  BY <2>2 DEF BookedIn
    <3>2. entry'[d] = entry[d]  BY <1>1, <2>1, <2>2, <3>1
    <3>3. QED  BY <3>1, <3>2 DEF BookedIn
  <2>3. ASSUME NEW m \in Months, BookedIn(m, entry') # {} PROVE sheet'[m] # "none"
    BY <1>1, <1>2, <2>1, <2>2, <2>3
  <2>4. QED  BY <1>3, <2>3
<1>8. CASE \/ \E s \in Slots : Refuse(s) \/ Land(s) \/ Lose(s)
           \/ \E m \in Modes, a \in Anchors \cup {DefaultAnchor(today)} : Choose(m, a)
           \/ Reload \/ ReloadToday \/ Submit \/ Midnight
           \/ (\E at \in Punches : Punch(at)) \/ (\E d \in Workdays : Correct(d))
           \/ UNCHANGED vars
  <2>1. entry' = entry /\ sheet' = sheet
    BY <1>8 DEF Refuse, Land, Lose, Choose, Reload, ReloadToday, Submit, Midnight, Punch,
                Correct, vars
  <2>2. QED  BY <1>4, <2>1
<1>9. QED  BY <1>5, <1>6, <1>7, <1>8 DEF Next

LEMMA InitRecovering == Init => Recovering
<1> SUFFICES ASSUME Init PROVE Recovering  OBVIOUS
<1>1. BookedHaveSheets
  <2>1. \A m \in Months : sheet[m] = IF Booked(m) = {} THEN "none" ELSE "draft"  BY DEF Init
  <2>2. QED  BY <2>1 DEF BookedHaveSheets
<1>2. ASSUME OneSheet PROVE Recovers(job, days, view, Truth(MonthOf(anchor)))
  <2> DEFINE t == Truth(MonthOf(anchor))
  <2>1. anchor \in Days  BY InitTyped DEF Typed, TypeOK
  <2>2. t.month = MonthOf(anchor) /\ t.mode = mode /\ t.anchor = anchor  BY TruthFields
  <2>3. LoadedMonth(t.mode, t.anchor) = t.month  BY <1>2, <2>1, <2>2, OneSheetMonth
  <2>4. PICK s \in Slots :
          /\ job[s] = Chain("sheet", t.mode, t.anchor)
          /\ \A x \in Slots : x # s =>
               job[x] = Idle \/ job[x] = Chain("today", t.mode, t.anchor)
    BY <2>2 DEF Init
  <2> HIDE DEF t
  <2>5. InStep(job[s], t) /\ job[s].at = "sheet" /\ job[s].got = Unknown /\ job[s] # Idle
    BY <2>3, <2>4, StepNames, ChainFields, NextInStep
  <2>6. ASSUME NEW x \in Slots, x # s PROVE InStep(job[x], t)
    <3>1. CASE job[x] = Idle  BY <3>1 DEF InStep
    <3>2. CASE job[x] = Chain("today", t.mode, t.anchor)
      BY <3>2, StepNames, ChainFields, NextInStep
    <3>3. QED  BY <2>4, <2>6, <3>1, <3>2
  <2>7. Leads(job[s], t)  BY <2>5, StepNames DEF Leads, Stuck
  <2>8. Recovers(job, days, view, t)  BY <2>5, <2>6, <2>7 DEF Recovers
  <2>9. QED  BY <2>8 DEF t
<1>3. QED  BY <1>1, <1>2 DEF Recovering

LEMMA StepRecovering == Typed /\ Recovering /\ [Next]_vars => Recovering'
<1> SUFFICES ASSUME Typed, Recovering, [Next]_vars PROVE Recovering'  OBVIOUS
<1>1. BookedHaveSheets'  BY BookedStep DEF Recovering
<1>2. mode \in Modes /\ anchor \in Days /\ today \in Days  BY DEF Typed, TypeOK
<1> DEFINE Goal == Recovers(job', days', view', Truth(MonthOf(anchor))')
<1>3. SUFFICES ASSUME calm', OneSheet' PROVE Goal
  BY <1>1 DEF Recovering
<1>4. ASSUME calm, OneSheet PROVE Undisturbedly
  BY <1>4 DEF Undisturbedly
<1>5. ASSUME NEW s \in Slots, Answer(s) PROVE Goal
  <2>1. calm /\ OneSheet
    <3>1. mode' = mode /\ anchor' = anchor /\ calm' = calm  BY <1>5 DEF Answer, controls, history
    <3>2. QED  BY <1>3, <3>1 DEF OneSheet
  <2>2. QED  BY <1>4, <1>5, <2>1, AnswerRecovers
<1>6. ASSUME NEW s \in Slots, LandAccepted(s), Land(s) PROVE Goal
  <2>1. /\ calm' = (Free = Slots \ {s} /\ <<job[s].mode, job[s].anchor>> = controls)
        /\ mode' = mode /\ anchor' = anchor
    BY <1>6 DEF LandAccepted, Land, controls
  <2>2. /\ \A x \in Slots : x # s => job[x] = Idle
        /\ job[s].mode = mode /\ job[s].anchor = anchor
    BY <1>3, <2>1 DEF Free, controls
  <2>3. PICK at \in {"refresh", "sheet"} : Proceeds(s, at)  BY <1>6 DEF LandAccepted
  <2>4. /\ \A x \in Slots : x # s => job'[x] = job[x]
        /\ IsChain(job[s])
    BY <1>6, Landing
  <2>5. at \in Steps /\ at # "correct" /\ job[s].mode \in Modes  BY <1>2, <2>2, StepNames
  <2>6. Sent(job'[s], at, mode, anchor)  BY <2>2, <2>3, <2>4, <2>5, Proceeding
  <2>7. \A x \in Slots : x # s => job'[x] = Idle  BY <2>2, <2>4
  <2>8. QED  BY <1>2, <1>3, <2>1, <2>6, <2>7, FreshRecovers
<1>7. ASSUME UNCHANGED <<mode, anchor, server, cache, days, view, calm>>,
             NEW s \in Slots, \A x \in Slots : x # s => job'[x] = job[x],
             job[s] = Idle \/ job[s].at \in Asks,
             InStep(job'[s], Truth(MonthOf(anchor)))
      PROVE  Goal
  <2> DEFINE t == Truth(MonthOf(anchor))
  <2>1. calm /\ OneSheet /\ Truth(MonthOf(anchor))' = t  BY <1>3, <1>7, SameTruth
  <2>2. Recovers(job, days, view, t)  BY <1>4, <2>1, WhenUndisturbed
  <2>3. InStep(job'[s], t)  BY <1>7
  <2> HIDE DEF t
  <2>4. ~Leads(job[s], t)  BY <1>7 DEF Leads
  <2>5. Recovers(job', days, view, t)  BY <1>7, <2>2, <2>3, <2>4, OneLeadsOn
  <2>6. QED  BY <1>7, <2>1, <2>5
<1>8. \A j, t : (j = Idle \/ j.at \in Asks) => InStep(j, t)  BY DEF InStep
<1>9. ASSUME NEW s \in Slots, LandRefused(s), Land(s) PROVE Goal
  <2>1. /\ UNCHANGED <<mode, anchor, server, cache, days, view, calm>>
        /\ job[s].at \in Asks /\ Ends(s)
    BY <1>9 DEF LandRefused, Land, controls, caches, history
  <2>2. job'[s] = Idle /\ \A x \in Slots : x # s => job'[x] = job[x]  BY <2>1, Ending
  <2>3. InStep(job'[s], Truth(MonthOf(anchor)))  BY <1>8, <2>2
  <2>4. QED  BY <1>7, <2>1, <2>2, <2>3
<1>10. ASSUME NEW s \in Slots, Land(s),
              \/ LandRefresh(s) \/ LandToday(s) \/ LandSheet(s)
              \/ LandCreate(s) \/ LandDays(s) \/ LandFixes(s)
       PROVE Goal
  <2>1. calm /\ OneSheet
    <3>1. mode' = mode /\ anchor' = anchor /\ (calm' = calm \/ calm' = FALSE)
      BY <1>10 DEF Land, LandRefresh, LandToday, LandSheet, LandCreate, LandDays, LandFixes,
                   controls, history
    <3>2. QED  BY <1>3, <3>1 DEF OneSheet
  <2>2. Undisturbedly  BY <1>4, <2>1
  <2>3. CASE LandSheet(s) \/ LandCreate(s)  BY <1>10, <2>2, <2>3, SheetRecovers
  <2>4. CASE LandRefresh(s) \/ LandToday(s) \/ LandDays(s) \/ LandFixes(s)
    BY <1>3, <1>10, <2>2, <2>4, ListRecovers
  <2>5. QED  BY <1>10, <2>3, <2>4
<1>11. ASSUME NEW m \in Modes, NEW a \in Days, Start("sheet", m, a), mode' = m, anchor' = a, Quiet
       PROVE  Goal
  <2>1. "sheet" \in Steps /\ "sheet" # "correct"  BY StepNames
  <2>2. PICK s \in Slots : /\ Sent(job'[s], "sheet", m, a)
                           /\ \A x \in Slots : x # s => job'[x] = job[x]
    BY <1>11, <2>1, Starting
  <2>3. \A x \in Slots : x # s => job'[x] = Idle  BY <1>11, <2>2 DEF Quiet, Free
  <2>4. QED  BY <1>3, <1>11, <2>2, <2>3, FreshRecovers
<1>12. ASSUME NEW m \in Modes, NEW a \in Anchors \cup {DefaultAnchor(today)}, Choose(m, a)
       PROVE Goal
  <2>1. a \in Days  BY <1>2, ConstantFacts, DefaultAnchorIsDay
  <2>2. Quiet /\ Start("sheet", m, a) /\ mode' = m /\ anchor' = a
    BY <1>3, <1>12 DEF Choose
  <2>3. QED  BY <1>11, <2>1, <2>2
<1>13. CASE Reload
  <2>1. /\ Start("sheet", mode, anchor) /\ UNCHANGED <<mode, anchor, server, cache, days, view>>
        /\ calm' = (calm \/ Quiet)
    BY <1>13 DEF Reload, controls, caches
  <2>2. CASE Quiet  BY <1>2, <1>11, <2>1, <2>2
  <2>3. CASE ~Quiet
    <3> DEFINE t == Truth(MonthOf(anchor))
    <3>1. calm /\ calm' = calm
      <4>1. calm \in BOOLEAN  BY DEF Typed, TypeOK
      <4>2. QED  BY <1>3, <2>1, <2>3, <4>1
    <3>2. OneSheet  BY <1>3, <2>1, SameTruth
    <3>3. LoadedMonth(t.mode, t.anchor) = t.month /\ t.mode = mode /\ t.anchor = anchor
      BY <1>4, <3>1, <3>2, WhenUndisturbed
    <3>4. "sheet" \in Steps \ Asks /\ "sheet" # "correct"  BY StepNames
    <3>5. PICK s \in Slots : /\ job[s] = Idle /\ Sent(job'[s], "sheet", mode, anchor)
                             /\ \A x \in Slots : x # s => job'[x] = job[x]
      BY <1>2, <2>1, <3>4, Starting
    <3>6. Sent(job'[s], "sheet", t.mode, t.anchor)  BY <3>3, <3>5
    <3> HIDE DEF t
    <3>7. InStep(job'[s], t)  BY <3>3, <3>4, <3>6, NextInStep
    <3>8. QED  BY <1>7, <2>1, <3>1, <3>5, <3>7 DEF t
  <2>4. QED  BY <2>2, <2>3
<1>14. CASE Submit \/ (\E at \in Punches : Punch(at)) \/ (\E d \in Workdays : Correct(d))
  <2>1. PICK s \in Slots : \E at \in Asks :
          /\ job[s] = Idle /\ Sent(job'[s], at, mode, anchor)
          /\ \A x \in Slots : x # s => job'[x] = job[x]
    BY <1>14, Pressing
  <2>2. job'[s].at \in Asks  BY <2>1 DEF Sent
  <2>3. UNCHANGED <<mode, anchor, server, cache, days, view, calm>>
    BY <1>14 DEF Submit, Punch, Correct, controls, caches, history
  <2>4. InStep(job'[s], Truth(MonthOf(anchor)))  BY <1>8, <2>2
  <2>5. QED  BY <1>7, <2>1, <2>3, <2>4
<1>15. ASSUME NEW s \in Slots, Refuse(s) PROVE Goal
  <2>1. /\ job[s].at \in Asks /\ job'[s].at = job[s].at
        /\ \A x \in Slots : x # s => job'[x] = job[x]
    BY <1>15, Deciding
  <2>2. UNCHANGED <<mode, anchor, server, cache, days, view, calm>>
    BY <1>15 DEF Refuse, controls, caches, history
  <2>3. InStep(job'[s], Truth(MonthOf(anchor)))  BY <1>8, <2>1
  <2>4. QED  BY <1>7, <2>1, <2>2, <2>3
<1>16. CASE ReloadToday \/ \E s \in Slots : Lose(s) \/ CarryOut(s)
  BY <1>3, <1>16 DEF ReloadToday, Lose, CarryOut
<1>17. CASE Midnight \/ UNCHANGED vars
  <2>1. UNCHANGED <<mode, anchor, server, cache, days, view, job, calm>>
    BY <1>17 DEF Midnight, vars, controls, caches, history
  <2>2. calm /\ OneSheet /\ Truth(MonthOf(anchor))' = Truth(MonthOf(anchor))
    BY <1>3, <2>1, SameTruth
  <2>3. Recovers(job, days, view, Truth(MonthOf(anchor)))  BY <2>2 DEF Recovering
  <2>4. QED  BY <2>1, <2>2, <2>3
<1>18. ASSUME NEW s \in Slots, Land(s) PROVE Goal
  BY <1>6, <1>9, <1>10, <1>18 DEF Land
<1>19. QED
  BY <1>5, <1>12, <1>13, <1>14, <1>15, <1>16, <1>17, <1>18 DEF Next

LEMMA AlwaysRecovering == Spec => [](Typed /\ Recovering)
BY InitTyped, StepTyped, InitRecovering, StepRecovering, PTL DEF Spec

\* When the chains have ended, a page that shows one sheet shows the truth.
LEMMA RightWhenSettled ==
    ASSUME Typed, Recovering, Settled, OneSheet
    PROVE  /\ view.summary = Summary(MonthOf(anchor))
           /\ view.rows = RowsIn(Booked(MonthOf(anchor)), WeekRange(anchor))
           /\ view.fixes = pending
<1> DEFINE t == Truth(MonthOf(anchor))
<1>1. calm /\ \A s \in Slots : job[s] = Idle  BY DEF Settled, Quiet, Free
<1>2. Recovers(job, days, view, t)  BY <1>1 DEF Recovering
<1>3. /\ t.summary = Summary(MonthOf(anchor)) /\ t.rows = Booked(MonthOf(anchor))
      /\ t.fixes = pending /\ t.anchor = anchor
  BY TruthFields
<1> HIDE DEF t
<1>4. Right(view, t)  BY <1>1, <1>2 DEF Recovers, Leads
<1>5. QED  BY <1>3, <1>4 DEF Right

\* When the chains that were started without a disturbance have ended, however many there
\* were and however they overlapped, a week that lies on one sheet shows that sheet as the
\* server has it, its days and no others, and the corrections
\* (getMonthlyTimesheetPeriodData, getTimesheetByPeriod).
THEOREM SettledViewAlwaysRight == Spec => []SettledViewIsRight
<1>1. ASSUME Typed, Recovering PROVE SettledViewIsRight
  <2> SUFFICES ASSUME Settled, OneSheet
               PROVE  /\ view.summary = Summary(MonthOf(anchor))
                      /\ Displayed = RowsIn(Booked(MonthOf(anchor)), WeekRange(anchor))
                      /\ view.fixes = pending
    BY DEF SettledViewIsRight
  <2>1. /\ view.summary = Summary(MonthOf(anchor)) /\ view.fixes = pending
        /\ view.rows = RowsIn(Booked(MonthOf(anchor)), WeekRange(anchor))
    BY <1>1, RightWhenSettled
  <2>2. Displayed = RowsIn(view.rows, WeekRange(anchor))
    BY DEF OneSheet, Displayed
  <2>3. Displayed = view.rows  BY <2>1, <2>2 DEF RowsIn
  <2>4. QED  BY <2>1, <2>3
<1>2. QED  BY <1>1, AlwaysRecovering, PTL

\* The days booked on a sheet end with the 16th.
LEMMA BookedEnds ==
    ASSUME NEW d \in Days, NEW m \in Months, PeriodOf(d) = m
    PROVE  d \in Int /\ DayIn(m, 16) \in Int /\ d <= DayIn(m, 16)
<1> DEFINE n == MonthOf(d)
<1>1. n \in Months /\ d \in First[n]..First[n + 1] - 1 /\ d \in Nat  BY MonthOfDay
<1> HIDE DEF n
<1>2. /\ n \in Nat /\ First[n] \in Nat /\ First[n + 1] \in Nat /\ First[m] \in Nat
  BY <1>1, MonthLengths
<1>3. DayOf(d) = d - First[n] + 1  BY DEF DayOf, n
<1>4. PeriodOf(d) = IF DayOf(d) >= 17 THEN n + 1 ELSE n  BY DEF PeriodOf, n
<1>5. CASE DayOf(d) >= 17
  <2>1. m = n + 1  BY <1>4, <1>5
  <2>2. d < First[m]  BY <1>1, <1>2, <2>1
  <2>3. QED  BY <1>1, <1>2, <2>2 DEF DayIn
<1>6. CASE ~(DayOf(d) >= 17)
  <2>1. m = n  BY <1>4, <1>6
  <2>2. QED  BY <1>1, <1>2, <1>3, <1>6, <2>1 DEF DayIn
<1>7. QED  BY <1>5, <1>6

\* In the days in which a sheet can be handed in, the dashboard as it opens shows the last
\* days of the very sheet that the server accepts, and offers to hand it in exactly when
\* the server would take it, in every calendar (getDefaultAnchorDate,
\* SubmitMonthlyTimesheet).
THEOREM DefaultViewAlwaysSubmits == Spec => []DefaultViewSubmits
<1>1. ASSUME Typed, Recovering PROVE DefaultViewSubmits
  <2> DEFINE m == SubmittableMonth(today)
             a == DefaultAnchor(today)
  <2> SUFFICES ASSUME Settled, page = "dashboard", InWindow(today), mode = "week", anchor = a
               PROVE  /\ view.summary.month = m
                      /\ Displayed = {r \in Booked(m) : r[1] >= WeekRange(DayIn(m, 16)).start}
                      /\ Offered <=> AcceptsSheet(m)
    BY DEF DefaultViewSubmits
  <2>1. /\ today \in Days /\ m \in Months /\ m # 0 /\ anchor \in Days
        /\ today \in First[m]..First[m + 1] - 1
    BY <1>1, MonthOfDay, ConstantFacts DEF Typed, TypeOK, SubmittableMonth
  <2>2. a = DayIn(m, 16)  BY DEF DefaultAnchor, SubmittableMonth
  <2>3. /\ MonthOf(WeekRange(a).start) = m /\ MonthOf(a) = m
        /\ PeriodOf(WeekRange(a).start) = m
    <3>1. /\ LoadedMonth("week", a) = m /\ SummaryMonth(a) = m
          /\ PeriodOf(WeekRange(a).start) = m
      BY <2>1, DefaultWeekFits
    <3>2. QED  BY <3>1 DEF LoadedMonth, SummaryMonth, PeriodConfig
  <2> HIDE DEF m, a
  <2>4. OneSheet  BY <2>3 DEF OneSheet
  <2>5. /\ view.summary = Summary(m) /\ view.rows = RowsIn(Booked(m), WeekRange(a))
        /\ view.fixes = pending
    BY <1>1, <2>3, <2>4, RightWhenSettled
  <2>6. /\ view.summary.month = m /\ view.summary.status = sheet[m]
        /\ view.summary.canSubmit = CanSubmit(m)
    BY <2>5 DEF Summary
  <2>7. Displayed = RowsIn(Booked(m), WeekRange(a))
    BY <2>5 DEF Displayed, RowsIn
  <2>8. ASSUME NEW r \in Booked(m)
        PROVE  r[1] \in WeekRange(a).start..WeekRange(a).end <=> r[1] >= WeekRange(a).start
    <3>1. r[1] \in Workdays /\ PeriodOf(r[1]) = m  BY DEF Booked
    <3>2. r[1] \in Int /\ a \in Int /\ r[1] <= a
      BY <2>1, <2>2, <3>1, BookedEnds, ConstantFacts
    <3>3. WeekRange(a).start \in a - 6..a /\ WeekRange(a).end = WeekRange(a).start + 6
      BY <3>2, WeekContains
    <3>4. QED  BY <3>2, <3>3
  <2>9. Displayed = {r \in Booked(m) : r[1] >= WeekRange(DayIn(m, 16)).start}
    BY <2>2, <2>7, <2>8 DEF RowsIn
  <2>10. Offered <=> CanSubmit(m) /\ sheet[m] # "submitted"
    BY <2>1, <2>6 DEF Offered, Settled
  <2>11. CanSubmit(m) => sheet[m] = "draft"
    <3>1. sheet[m] \in {"none", "draft", "submitted"}  BY <1>1, <2>1 DEF Typed, TypeOK
    <3>2. CanSubmit(m) => sheet[m] # "none"
      BY <1>1, <2>1 DEF CanSubmit, Recovering, BookedHaveSheets
    <3>3. QED  BY <3>1, <3>2 DEF CanSubmit
  <2>12. AcceptsSheet(m) <=> sheet[m] = "draft" /\ CanSubmit(m)
    BY <2>1 DEF AcceptsSheet, m
  <2>13. QED  BY <2>6, <2>9, <2>10, <2>11, <2>12
<1>2. QED  BY <1>1, AlwaysRecovering, PTL

=============================================================================

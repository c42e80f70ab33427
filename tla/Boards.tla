------------------------------- MODULE Boards -------------------------------
(***************************************************************************)
(* The manager's board and the employee's leave page, over the papers of   *)
(* one employee: applications for leave, a monthly sheet and requests for  *)
(* correction.                                                             *)
(*                                                                         *)
(* A page shows what it was told last and acts on what it shows.  Its      *)
(* requests overtake each other, reach the server or not, and are answered *)
(* or not; meanwhile the same papers are decided in another tab.  The      *)
(* board writes a decision down itself when it is answered, without asking *)
(* for the list again.  A decision goes through the steps of its           *)
(* transaction, so that it may be repeated while the first, whose answer   *)
(* nobody waits for any more, is still under way; what the server does for *)
(* any other request is one step.                                          *)
(***************************************************************************)
EXTENDS Integers, FiniteSets

CONSTANTS
    Calls,        \* BOUND: the requests of the pages that are under way together
    Leaves,       \* BOUND: the applications that the employee may make, each once
    PaidLeaves,   \* those of a paid type
    First, Last,  \* the first and the last day of each
    Weekdays,     \* the days that are not a Saturday or a Sunday
    Sheets,       \* the employee's sheet for the month on the board
    Corrections,  \* BOUND: the corrections that the employee may request
    Total,        \* users.totalDaysofLeave
    MaxPapers,    \* BOUND: the papers that are handed in
    MaxDecisions, \* BOUND: decisions that the server begins to carry out
    MaxBalance,   \* BOUND: greatest balance (racing refunds have no other)
    None

Papers == Leaves \cup Sheets \cup Corrections

ASSUME PapersAssumption ==
    /\ PaidLeaves \subseteq Leaves
    /\ Leaves \cap Sheets = {} /\ Leaves \cap Corrections = {} /\ Sheets \cap Corrections = {}
    /\ None \notin Papers
    /\ Total \in Nat
    /\ MaxPapers \in Nat
    /\ MaxDecisions \in Nat /\ MaxBalance \in Nat
    /\ First \in [Leaves -> Nat] /\ Last \in [Leaves -> Nat]
    /\ \A l \in Leaves : First[l] <= Last[l]
    /\ Weekdays \subseteq Nat

VARIABLES
    server,      \* the status of each paper in the database (NONE: no row)
    remain,      \* users.remainDaysofLeave
    given,       \* history: the decisions that the server has carried out
    begun,       \* how many it has begun
    board,       \* the status that the board shows (NONE: no row)
    balance,     \* the employee's days of leave, as the board knows them
    processing,  \* processingId: the row whose buttons are disabled
    summary,     \* the days of leave that the employee's page shows
    calls        \* the requests of both pages, and the decisions under way

serverVars == <<server, remain, given, begun>>
boardVars == <<board, balance, processing>>
vars == <<serverVars, boardVars, summary, calls>>

Status == {"NONE", "PENDING", "APPROVED", "REJECTED", "CANCELLED"}
Verdicts == {"APPROVED", "REJECTED"}

\* What is on each list: "mine" is the employee's, the others the board's.
Listed == [leaves |-> Leaves, sheets |-> Sheets, corrections |-> Corrections, mine |-> {}]
Lists == DOMAIN Listed
NoRows == [p \in Papers |-> "NONE"]

\* A request of a page, or a decision that no page waits for ("elsewhere").
Call == [does: {"nothing", "load", "reload", "review", "elsewhere", "apply"},
         of: Papers \cup Lists \cup {None}, say: Verdicts \cup {"NONE"},
         stage: {"sent", "read", "write"}, old: Status,
         answer: {"none", "ok", "error"}, rows: [Papers -> Status], days: Int]
Free == [does |-> "nothing", of |-> None, say |-> "NONE", stage |-> "sent", old |-> "NONE",
         answer |-> "none", rows |-> NoRows, days |-> 0]

TypeOK ==
    /\ server \in [Papers -> Status]
    /\ remain \in Int
    /\ given \subseteq Papers \X Verdicts
    /\ begun \in Nat
    /\ board \in [Papers -> Status]
    /\ balance \in Int
    /\ processing \in Papers \cup {None}
    /\ summary \in Int
    /\ calls \in [Calls -> Call]

Init ==
    /\ server = [p \in Papers |-> "NONE"]
    /\ remain = Total
    /\ given = {}
    /\ begun = 0
    /\ board = NoRows
    /\ balance = 0
    /\ processing = None
    /\ summary = 0
    /\ calls = [c \in Calls |-> Free]

\* calculateLeaveDays of the pages counts every day, calculateBusinessDays of
\* the server the weekdays; the row's totalDays is what the server counted.
CalendarDaysMutant(l) == Last[l] - First[l]
CalendarDays(l) == Last[l] - First[l] + 1
Duration(l) == Cardinality({d \in Weekdays : First[l] <= d /\ d <= Last[l]})
Days(l) == First[l] .. Last[l]

-----------------------------------------------------------------------------
(* The server *)

\* Of leave, a decision may replace any other status, another decision too;
\* one that repeats the status is answered with no data, which the page takes
\* for an error.
DecidableLeave(l, say) == server[l] \notin {"NONE", say}

DecidableSheet(s) == server[s] = "PENDING"

DecidableCorrection(c) ==
    /\ server[c] = "PENDING"
    /\ \A s \in Sheets : server[s] # "APPROVED"

Decidable(p, say) ==
    \/ p \in Leaves /\ DecidableLeave(p, say)
    \/ p \in Sheets /\ DecidableSheet(p)
    \/ p \in Corrections /\ DecidableCorrection(p)

\* The expiry job.
Expire(l) ==
    /\ l \in Leaves
    /\ server[l] = "PENDING"
    /\ server' = [server EXCEPT ![l] = "CANCELLED"]
    /\ UNCHANGED <<remain, given, begun, boardVars, summary, calls>>

HasRoom(p) == server[p] # "NONE" \/ Cardinality({q \in Papers : server[q] # "NONE"}) < MaxPapers

\* The employee hands in the sheet or asks for a correction (Workspace).
HandInSheet(s) ==
    /\ s \in Sheets
    /\ server[s] \in {"NONE", "REJECTED"}
    /\ HasRoom(s)
    /\ \A c \in Corrections : server[c] # "PENDING"
    /\ server' = [server EXCEPT ![s] = "PENDING"]
    /\ UNCHANGED <<remain, given, begun, boardVars, summary, calls>>

RequestCorrection(c) ==
    /\ c \in Corrections
    /\ server[c] = "NONE"
    /\ HasRoom(c)
    /\ \A s \in Sheets : server[s] \in {"NONE", "REJECTED"}
    /\ server' = [server EXCEPT ![c] = "PENDING"]
    /\ UNCHANGED <<remain, given, begun, boardVars, summary, calls>>

-----------------------------------------------------------------------------
(* Requests and answers *)

Starts(c, call) == calls[c] = Free /\ calls' = [calls EXCEPT ![c] = call]
Waits(c, does) == calls[c].does \in does /\ calls[c].answer = "none"
Failed(call) == [Free EXCEPT !.does = call.does, !.answer = "error"]
Done(call) == [Free EXCEPT !.does = call.does, !.of = call.of, !.say = call.say, !.answer = "ok"]
Answers(c, answer) ==
    calls' = [calls EXCEPT ![c] = IF answer = "error" THEN Failed(@) ELSE Done(@)]
Under(c, stages) == Waits(c, {"review", "elsewhere"}) /\ calls[c].stage \in stages
Received(c, does) == calls[c].does \in does /\ calls[c].answer # "none"
Ends(c) == calls' = [calls EXCEPT ![c] = Free]

\* No answer: the request does not arrive, the server fails, or the answer is
\* lost.  The page says that it failed, and enables its buttons.
Lose(c) ==
    /\ calls[c].does \notin {"nothing", "load"}
    /\ calls[c].answer # "error"
    /\ processing' = IF calls[c].does = "review" THEN None ELSE processing
    /\ Ends(c)
    /\ UNCHANGED <<serverVars, board, balance, summary>>

\* The client gives up a decision that the server has begun.
GiveUp(c) ==
    /\ Under(c, {"read", "write"})
    /\ calls[c].does = "review"
    /\ processing' = None
    /\ calls' = [calls EXCEPT ![c].does = "elsewhere"]
    /\ UNCHANGED <<serverVars, board, balance, summary>>

\* The server lists the corrections that are pending, the rest in any status.
RowsOf(list) ==
    [p \in Papers |->
       IF p \in Listed[list] /\ (list = "corrections" => server[p] = "PENDING")
       THEN server[p] ELSE "NONE"]

\* What an answer says of the employee's days.  The one about corrections has no
\* balance in it, which the board reads as zero.
DaysIn(list) == IF list = "corrections" THEN 0 ELSE remain

\* When the page opens, and 1.5 s after a notification, of whoever's paper.  A
\* request for a list counts from the moment it is answered, and one that gets
\* no answer changes nothing on the board.
Load(c, list) ==
    /\ Starts(c, [Free EXCEPT !.does = "load", !.of = list, !.answer = "ok",
                              !.rows = RowsOf(list), !.days = DaysIn(list)])
    /\ UNCHANGED <<serverVars, boardVars, summary>>

HandleReload(c) ==
    /\ Waits(c, {"reload"})
    /\ calls' = [calls EXCEPT ![c].answer = "ok", ![c].days = remain]
    /\ UNCHANGED <<serverVars, boardVars, summary>>

\* The list on the board is replaced; what came with it is merged into what
\* the board knows of the employee, who is in every row.
Merged(call) ==
    IF call.of # "sheets" /\ call.rows = NoRows THEN balance ELSE call.days

ReceiveList(c) ==
    /\ Received(c, {"load"})
    /\ calls[c].of # "mine"
    /\ board' = [p \in Papers |->
         IF p \in Listed[calls[c].of] THEN calls[c].rows[p] ELSE board[p]]
    /\ balance' = Merged(calls[c])
    /\ Ends(c)
    /\ UNCHANGED <<serverVars, processing, summary>>

ReceiveMine(c) ==
    /\ Received(c, {"load", "reload"})
    /\ calls[c].of = "mine"
    /\ summary' = calls[c].days
    /\ Ends(c)
    /\ UNCHANGED <<serverVars, boardVars>>

-----------------------------------------------------------------------------
(* The manager decides *)

\* handleApprove..., handleSubmitReject.  The board does not let approve what
\* it believes the employee has no days for.
PressMutant(c, p, say) ==
    /\ board[p] = "PENDING"
    /\ p # processing
    /\ p \in PaidLeaves /\ say = "APPROVED" => balance >= Duration(p)
    /\ Starts(c, [Free EXCEPT !.does = "review", !.of = p, !.say = say])
    /\ processing' = p
    /\ board' = [board EXCEPT ![p] = say]
    /\ UNCHANGED <<serverVars, balance, summary>>
Press(c, p, say) ==
    /\ board[p] = "PENDING"
    /\ p # processing
    /\ p \in PaidLeaves /\ say = "APPROVED" => balance >= Duration(p)
    /\ Starts(c, [Free EXCEPT !.does = "review", !.of = p, !.say = say])
    /\ processing' = p
    /\ UNCHANGED <<serverVars, board, balance, summary>>

\* A decision is one transaction.  It reads the paper, and of a leave then the
\* applicant, and writes on what it read.
Begun(call) ==
    [call EXCEPT !.stage = IF call.of \in Leaves THEN "read" ELSE "write",
                 !.old = server[call.of]]
Begins == begun < MaxDecisions /\ begun' = begun + 1
TurnDown(c) == IF calls[c].does = "review" THEN Answers(c, "error") ELSE Ends(c)

ReviewRead(c) ==
    /\ Under(c, {"sent"})
    /\ IF Decidable(calls[c].of, calls[c].say)
       THEN Begins /\ calls' = [calls EXCEPT ![c] = Begun(@)]
       ELSE TurnDown(c) /\ UNCHANGED begun
    /\ UNCHANGED <<server, remain, given, boardVars, summary>>

\* Another tab of the manager, or a request that the page gave up waiting for
\* and that reaches the server later.
DecideElsewhere(c) ==
    /\ \E p \in Papers, say \in Verdicts :
         /\ Decidable(p, say)
         /\ Starts(c, Begun([Free EXCEPT !.does = "elsewhere", !.of = p, !.say = say]))
    /\ Begins
    /\ UNCHANGED <<server, remain, given, boardVars, summary>>

ReviewBalance(c) ==
    /\ Under(c, {"read"})
    /\ LET p == calls[c].of
       IN IF p \in PaidLeaves /\ calls[c].say = "APPROVED" /\ remain < Duration(p)
          THEN TurnDown(c)
          ELSE calls' = [calls EXCEPT ![c].stage = "write",
                                      ![c].days = IF p \in PaidLeaves THEN remain ELSE 0]
    /\ UNCHANGED <<serverVars, boardVars, summary>>

\* The balance that a decision leaves, out of the status and the balance read.
Balance(call) ==
    IF call.of \in PaidLeaves /\ call.say = "APPROVED" THEN call.days - Duration(call.of)
    ELSE IF call.of \in PaidLeaves /\ call.old = "APPROVED" THEN call.days + Duration(call.of)
    ELSE remain

ReviewWrite(c) ==
    /\ Under(c, {"write"})
    /\ LET p == calls[c].of
           say == calls[c].say
       IN /\ server' = [server EXCEPT ![p] = say]
          /\ remain' = Balance(calls[c])
          /\ remain' <= MaxBalance
          /\ given' = given \cup {<<p, say>>}
    /\ IF calls[c].does = "review" THEN Answers(c, "ok") ELSE Ends(c)
    /\ UNCHANGED <<begun, boardVars, summary>>

\* processingId holds one row: an answer about one enables the buttons of all.
ReceiveReview(c) ==
    /\ Received(c, {"review"})
    /\ IF calls[c].answer = "error" THEN UNCHANGED <<board, balance>>
       ELSE LET p == calls[c].of
            IN /\ board' = [board EXCEPT ![p] = IF p \in Corrections \/ @ = "NONE" THEN "NONE"
                                                ELSE calls[c].say]
               /\ balance' = IF p \in PaidLeaves /\ calls[c].say = "APPROVED"
                             THEN balance - Duration(p) ELSE balance
    /\ processing' = None
    /\ Ends(c)
    /\ UNCHANGED <<serverVars, summary>>

-----------------------------------------------------------------------------
(* The employee applies for leave *)

Submitting == \E c \in Calls : calls[c].does \in {"apply", "reload"}

\* LeavePage asks for the days whatever the type, the dashboard's form when
\* the type is paid.
PageAccepts(l) == l \in PaidLeaves => CalendarDays(l) <= summary

\* The form may be sent again after an error, by one who does not know that
\* it got through.
Apply(c, l) ==
    /\ ~Submitting
    /\ server[l] \in {"NONE", "PENDING", "APPROVED"}
    /\ HasRoom(l)
    /\ PageAccepts(l)
    /\ Starts(c, [Free EXCEPT !.does = "apply", !.of = l, !.days = summary])
    /\ UNCHANGED <<serverVars, boardVars, summary>>

Affordable(l) == l \in PaidLeaves => remain >= Duration(l)
Overlapping(l) ==
    \E k \in Leaves : server[k] \in {"PENDING", "APPROVED"} /\ Days(k) \cap Days(l) # {}

HandleApply(c) ==
    /\ Waits(c, {"apply"})
    /\ LET l == calls[c].of
       IN IF Duration(l) > 0 /\ Affordable(l) /\ ~Overlapping(l) /\ server[l] = "NONE"
          THEN HasRoom(l) /\ server' = [server EXCEPT ![l] = "PENDING"] /\ Answers(c, "ok")
          ELSE Answers(c, "error") /\ UNCHANGED server
    /\ UNCHANGED <<remain, given, begun, boardVars, summary>>

ReceiveApply(c) ==
    /\ Received(c, {"apply"})
    /\ calls' = [calls EXCEPT ![c] =
                   IF calls[c].answer = "error" THEN Free
                   ELSE [Free EXCEPT !.does = "reload", !.of = "mine"]]
    /\ UNCHANGED <<serverVars, boardVars, summary>>

-----------------------------------------------------------------------------
CallStep(c) ==
    \/ Lose(c) \/ GiveUp(c)
    \/ \E list \in Lists : Load(c, list)
    \/ HandleReload(c) \/ ReceiveList(c) \/ ReceiveMine(c)
    \/ \E p \in Papers, say \in Verdicts : Press(c, p, say)
    \/ ReviewRead(c) \/ DecideElsewhere(c) \/ ReviewBalance(c) \/ ReviewWrite(c) \/ ReceiveReview(c)
    \/ \E l \in Leaves : Apply(c, l)
    \/ HandleApply(c) \/ ReceiveApply(c)

Next ==
    \/ \E p \in Papers : Expire(p) \/ HandInSheet(p) \/ RequestCorrection(p)
    \/ \E c \in Calls : CallStep(c)

Spec == Init /\ [][Next]_vars
-----------------------------------------------------------------------------
(* Properties *)

\* The board never shows a decision that nobody made: what it writes down
\* itself the server has done, however late, lost or repeated the answers.
ShownWasDecided ==
    \A p \in Papers : board[p] \in Verdicts => <<p, board[p]>> \in given

\* The server turns an application down for want of days only if the balance
\* has changed since the form was filled in: the two count the days in
\* different ways, but the page never lets through what the server would not.
RefusedOnlyIfStale ==
    \A c \in Calls : Waits(c, {"apply"}) /\ calls[c].days = remain => Affordable(calls[c].of)

-----------------------------------------------------------------------------
(* Statements of the comments and the messages that the code does not keep  *)

\* "Deduct days if changing to approved from something else": no days are
\* taken but by a decision that makes a leave approved which was not.
DeductsOnlyOnChange ==
    [][remain' < remain =>
         \E l \in PaidLeaves : server[l] # "APPROVED" /\ server'[l] = "APPROVED"]_remain

\* "So du phep ... khong du": when the page says that the days do not suffice
\* for a request, they do not.
ShortOnlyIfShort ==
    \A l \in PaidLeaves :
       /\ board[l] = "PENDING" /\ server[l] = "PENDING"
       /\ calls = [c \in Calls |-> Free]
       /\ balance < Duration(l)
       => ~Affordable(l)
=============================================================================

---------------------------- MODULE BoardsProofs ----------------------------
(* Theorems about Boards, for every set of papers, every calendar and every  *)
(* number of calls under way, however calls and answers overtake each other, *)
(* get lost or reach the server late, and whatever is decided elsewhere,     *)
(* before a decision of the board, after it or in the midst of it.           *)
EXTENDS Boards, FiniteSetTheorems, TLAPS

-----------------------------------------------------------------------------
(* The days of an application *)

WeekdaysOf(l) == {d \in Weekdays : First[l] <= d /\ d <= Last[l]}

\* What the server counts is a number of days, at most the calendar days that
\* the page counts (calculateBusinessDays, calculateLeaveDays).
LEMMA DurationAtMostCalendar ==
  ASSUME NEW l \in Leaves
  PROVE  /\ IsFiniteSet(WeekdaysOf(l))
         /\ Duration(l) = Cardinality(WeekdaysOf(l))
         /\ Duration(l) \in Nat
         /\ Duration(l) <= CalendarDays(l)
<1>1. First[l] \in Nat /\ Last[l] \in Nat /\ First[l] <= Last[l] /\ Weekdays \subseteq Nat
  BY PapersAssumption
<1>2. IsFiniteSet(Days(l)) /\ Cardinality(Days(l)) = Last[l] - First[l] + 1
  <2>1. First[l] \in Int /\ Last[l] \in Int /\ ~(First[l] > Last[l])
    BY <1>1
  <2>2. /\ IsFiniteSet(First[l]..Last[l])
        /\ Cardinality(First[l]..Last[l]) =
             IF First[l] > Last[l] THEN 0 ELSE Last[l] - First[l] + 1
    BY <2>1, FS_Interval
  <2>3. QED
    BY <2>1, <2>2 DEF Days
<1>3. WeekdaysOf(l) \subseteq Days(l)
  <2>1. ASSUME NEW d \in WeekdaysOf(l) PROVE d \in First[l]..Last[l]
    <3>1. d \in Nat /\ First[l] <= d /\ d <= Last[l]
      BY <1>1 DEF WeekdaysOf
    <3>2. QED
      BY <1>1, <3>1
  <2>2. QED
    BY <2>1 DEF Days
<1>4. IsFiniteSet(WeekdaysOf(l)) /\ Cardinality(WeekdaysOf(l)) <= Cardinality(Days(l))
  BY <1>2, <1>3, FS_Subset
<1>5. Cardinality(WeekdaysOf(l)) \in Nat
  BY <1>4, FS_CardinalityType
<1>6. Duration(l) = Cardinality(WeekdaysOf(l))
  BY DEF Duration, WeekdaysOf
<1>7. QED
  BY <1>2, <1>4, <1>5, <1>6 DEF CalendarDays

-----------------------------------------------------------------------------
(* Type correctness *)

\* What a call that is under way or answered names: a list, a paper and a
\* verdict, or an application for which the page found days enough.
InHand(call) ==
    /\ call.does = "load" => call.of \in Lists /\ call.answer = "ok"
    /\ call.does \in {"review", "elsewhere"} /\ call.answer # "error" =>
         call.of \in Papers /\ call.say \in Verdicts
    /\ call.does = "apply" /\ call.answer = "none" =>
         /\ call.of \in Leaves
         /\ call.of \in PaidLeaves => CalendarDays(call.of) <= call.days

Typed == TypeOK /\ \A c \in Calls : InHand(calls[c])

\* A call that is free, and one that has failed, name nothing.
LEMMA FreeType ==
  /\ NoRows \in [Papers -> Status] /\ \A p \in Papers : NoRows[p] = "NONE"
  /\ Free \in Call /\ InHand(Free) /\ Free.does = "nothing" /\ Free.rows = NoRows
  /\ Free.answer = "none"
  /\ \A call \in Call : /\ Failed(call) \in Call
                        /\ Failed(call).does = call.does
                        /\ Failed(call).answer = "error" /\ Failed(call).rows = NoRows
                        /\ Done(call) \in Call
                        /\ Done(call).does = call.does
                        /\ Done(call).of = call.of /\ Done(call).say = call.say
                        /\ Done(call).answer = "ok" /\ Done(call).rows = NoRows
<1>1. NoRows \in [Papers -> Status] /\ \A p \in Papers : NoRows[p] = "NONE"
  BY DEF NoRows, Status
<1>2. Free \in Call /\ Free.does = "nothing" /\ Free.rows = NoRows /\ Free.answer = "none"
  BY <1>1 DEF Free, Call, Status
<1>3. InHand(Free)
  BY DEF InHand, Free
<1>4. ASSUME NEW call \in Call
      PROVE  /\ Failed(call) \in Call /\ Failed(call).does = call.does
             /\ Failed(call).answer = "error" /\ Failed(call).rows = NoRows
  <2>1. Failed(call) = [Free EXCEPT !.does = call.does, !.answer = "error"]
    BY DEF Failed
  <2>2. QED
    BY <1>2, <2>1 DEF Call
<1>5. ASSUME NEW call \in Call
      PROVE  /\ Done(call) \in Call /\ Done(call).does = call.does
             /\ Done(call).of = call.of /\ Done(call).say = call.say
             /\ Done(call).answer = "ok" /\ Done(call).rows = NoRows
  <2>1. Done(call) = [Free EXCEPT !.does = call.does, !.of = call.of,
                                  !.say = call.say, !.answer = "ok"]
    BY DEF Done
  <2>2. QED
    BY <1>2, <2>1 DEF Call
<1>6. QED
  BY <1>1, <1>2, <1>3, <1>4, <1>5

\* A slot that is given a call with something in hand.
LEMMA CallType ==
  ASSUME Typed, NEW c \in Calls, NEW next \in Call, InHand(next),
         calls' = [calls EXCEPT ![c] = next]
  PROVE  /\ calls' \in [Calls -> Call]
         /\ calls'[c] = next
         /\ \A d \in Calls \ {c} : calls'[d] = calls[d]
         /\ \A d \in Calls : InHand(calls'[d])
<1>1. calls \in [Calls -> Call]
  BY DEF Typed, TypeOK
<1>2. /\ calls' \in [Calls -> Call] /\ calls'[c] = next
      /\ \A d \in Calls \ {c} : calls'[d] = calls[d]
  BY <1>1
<1>3. QED
  BY <1>2 DEF Typed

\* What a step puts into the slot c.
Puts(c, next) ==
    /\ next \in Call /\ InHand(next)
    /\ calls' = [calls EXCEPT ![c] = next]

\* The answer of the server leaves of the call what was asked, or makes it fail.
LEMMA AnswersType ==
  ASSUME Typed, NEW c \in Calls, NEW answer \in {"ok", "error"}, Answers(c, answer),
         calls[c].answer = "none"
  PROVE  \E next : /\ Puts(c, next) /\ next.does = calls[c].does
                   /\ next.answer = answer /\ next.rows = NoRows
                   /\ answer = "ok" => next.of = calls[c].of /\ next.say = calls[c].say
<1>1. calls \in [Calls -> Call] /\ calls[c] \in Call /\ InHand(calls[c])
  BY DEF Typed, TypeOK
<1>2. CASE answer = "error"
  <2>1. calls' = [calls EXCEPT ![c] = Failed(calls[c])]
    BY <1>1, <1>2 DEF Answers
  <2>2. /\ Failed(calls[c]) \in Call /\ Failed(calls[c]).does = calls[c].does
        /\ Failed(calls[c]).answer = "error" /\ Failed(calls[c]).rows = NoRows
    BY <1>1, FreeType
  <2>3. InHand(Failed(calls[c]))
    BY <1>1, <2>2 DEF InHand
  <2>4. QED
    BY <1>2, <2>1, <2>2, <2>3 DEF Puts
<1>3. CASE answer = "ok"
  <2>1. calls' = [calls EXCEPT ![c] = Done(calls[c])]
    BY <1>1, <1>3 DEF Answers
  <2>2. /\ Done(calls[c]) \in Call /\ Done(calls[c]).does = calls[c].does
        /\ Done(calls[c]).of = calls[c].of /\ Done(calls[c]).say = calls[c].say
        /\ Done(calls[c]).answer = "ok" /\ Done(calls[c]).rows = NoRows
    BY <1>1, FreeType
  <2>3. InHand(Done(calls[c]))
    BY <1>1, <2>2 DEF InHand
  <2>4. QED
    BY <1>3, <2>1, <2>2, <2>3 DEF Puts
<1>4. QED
  BY <1>2, <1>3

\* A decision that has been turned down leaves its slot, or fails.
LEMMA TurnDownType ==
  ASSUME Typed, NEW c \in Calls, TurnDown(c), calls[c].answer = "none"
  PROVE  \E next : Puts(c, next) /\ next.rows = NoRows /\ next.answer # "ok"
<1>1. CASE Answers(c, "error")
  BY <1>1, AnswersType
<1>2. CASE Ends(c)
  BY <1>2, FreeType DEF Ends, Puts
<1>3. QED
  BY <1>1, <1>2 DEF TurnDown

\* A decision that begins keeps what it is about.
LEMMA BegunType ==
  ASSUME TypeOK, NEW call \in Call, call.of \in Papers, call.say \in Verdicts,
         call.does \in {"review", "elsewhere"}
  PROVE  /\ Begun(call) \in Call /\ InHand(Begun(call))
         /\ Begun(call).rows = call.rows /\ Begun(call).answer = call.answer
<1>1. server[call.of] \in Status
  BY DEF TypeOK
<1>2. /\ Begun(call) \in Call
      /\ Begun(call).does = call.does /\ Begun(call).of = call.of /\ Begun(call).say = call.say
      /\ Begun(call).rows = call.rows /\ Begun(call).answer = call.answer
  BY <1>1 DEF Begun, Call
<1>3. QED
  BY <1>2 DEF InHand

\* Where a decision is under way, and what it is about.
LEMMA UnderWay ==
  ASSUME Typed, NEW c \in Calls, NEW stages, Under(c, stages)
  PROVE  /\ calls[c] \in Call /\ calls[c].answer = "none"
         /\ calls[c].does \in {"review", "elsewhere"}
         /\ calls[c].of \in Papers /\ calls[c].say \in Verdicts
BY DEF Typed, TypeOK, Under, Waits, InHand

\* The steps of a decision show nobody rows, and the page is answered that it is
\* carried out by the last of them only.
LEMMA DecisionSteps ==
  ASSUME Typed, NEW c \in Calls,
         \/ GiveUp(c) \/ ReviewRead(c) \/ DecideElsewhere(c)
         \/ ReviewBalance(c) \/ ReviewWrite(c)
  PROVE  \E next : /\ Puts(c, next) /\ next.rows \in {NoRows, calls[c].rows}
                   /\ next.answer = "ok" =>
                        ReviewWrite(c) /\ next.of = calls[c].of /\ next.say = calls[c].say
<1> USE FreeType DEF Puts
<1>0. calls \in [Calls -> Call] /\ calls[c] \in Call /\ InHand(calls[c]) /\ TypeOK /\ remain \in Int
  BY DEF Typed, TypeOK
<1>1. CASE GiveUp(c)
  <2> DEFINE next == [calls[c] EXCEPT !.does = "elsewhere"]
  <2>1. /\ next \in Call /\ next.does = "elsewhere" /\ next.answer = "none"
        /\ next.of = calls[c].of /\ next.say = calls[c].say /\ next.rows = calls[c].rows
    BY <1>0, <1>1, UnderWay DEF GiveUp, Call
  <2>2. calls' = [calls EXCEPT ![c] = next]
    BY <1>0, <1>1 DEF GiveUp
  <2>3. calls[c].of \in Papers /\ calls[c].say \in Verdicts
    BY <1>1, UnderWay DEF GiveUp
  <2> HIDE DEF next
  <2>4. QED
    BY <2>1, <2>2, <2>3 DEF InHand
<1>2. CASE ReviewRead(c)
  <2>1. /\ calls[c].answer = "none" /\ calls[c].does \in {"review", "elsewhere"}
        /\ calls[c].of \in Papers /\ calls[c].say \in Verdicts
    BY <1>2, UnderWay DEF ReviewRead
  <2>2. CASE calls' = [calls EXCEPT ![c] = Begun(calls[c])]
    <3>1. /\ Begun(calls[c]) \in Call /\ InHand(Begun(calls[c]))
          /\ Begun(calls[c]).rows = calls[c].rows /\ Begun(calls[c]).answer = "none"
      BY <1>0, <2>1, BegunType
    <3>2. QED
      BY <2>2, <3>1
  <2>3. CASE TurnDown(c)
    BY <2>1, <2>3, TurnDownType
  <2>4. QED
    BY <1>0, <1>2, <2>2, <2>3 DEF ReviewRead
<1>3. CASE DecideElsewhere(c)
  <2>1. PICK p \in Papers, say \in Verdicts :
          Starts(c, Begun([Free EXCEPT !.does = "elsewhere", !.of = p, !.say = say]))
    BY <1>3 DEF DecideElsewhere
  <2> DEFINE call == [Free EXCEPT !.does = "elsewhere", !.of = p, !.say = say]
  <2>2. /\ call \in Call /\ call.does = "elsewhere" /\ call.of = p /\ call.say = say
        /\ call.rows = NoRows /\ call.answer = "none"
    BY DEF Call, Free
  <2>3. calls' = [calls EXCEPT ![c] = Begun(call)]
    BY <2>1 DEF Starts
  <2> HIDE DEF call
  <2>4. /\ Begun(call) \in Call /\ InHand(Begun(call))
        /\ Begun(call).rows = NoRows /\ Begun(call).answer = "none"
    BY <1>0, <2>2, BegunType
  <2>5. QED
    BY <2>3, <2>4
<1>4. CASE ReviewBalance(c)
  <2> DEFINE days == IF calls[c].of \in PaidLeaves THEN remain ELSE 0
             next == [calls[c] EXCEPT !.stage = "write", !.days = days]
  <2>1. /\ calls[c].answer = "none" /\ calls[c].does \in {"review", "elsewhere"}
        /\ calls[c].of \in Papers /\ calls[c].say \in Verdicts
    BY <1>4, UnderWay DEF ReviewBalance
  <2>2. days \in Int
    BY <1>0
  <2>3. TurnDown(c) \/ calls' = [calls EXCEPT ![c] = next]
    BY <1>0, <1>4 DEF ReviewBalance
  <2> HIDE DEF days
  <2>4. /\ next \in Call /\ next.does = calls[c].does /\ next.answer = "none"
        /\ next.of = calls[c].of /\ next.say = calls[c].say /\ next.rows = calls[c].rows
    BY <1>0, <2>1, <2>2 DEF Call
  <2> HIDE DEF next
  <2>5. InHand(next)
    BY <2>1, <2>4 DEF InHand
  <2>6. QED
    BY <2>1, <2>3, <2>4, <2>5, TurnDownType
<1>5. CASE ReviewWrite(c)
  <2>1. calls[c].answer = "none" /\ (Answers(c, "ok") \/ Ends(c))
    BY <1>5, UnderWay DEF ReviewWrite
  <2>2. CASE Answers(c, "ok")
    BY <1>5, <2>1, <2>2, AnswersType
  <2>3. CASE Ends(c)
    BY <2>3 DEF Ends
  <2>4. QED
    BY <2>1, <2>2, <2>3
<1>6. QED
  BY <1>1, <1>2, <1>3, <1>4, <1>5

\* What each step of a slot puts into it.
LEMMA SlotSteps ==
  ASSUME Typed, NEW c \in Calls, CallStep(c)
  PROVE  \E next : Puts(c, next)
<1> USE FreeType DEF Puts
<1>0. /\ calls \in [Calls -> Call] /\ calls[c] \in Call /\ InHand(calls[c])
      /\ remain \in Int /\ summary \in Int /\ server \in [Papers -> Status]
  BY DEF Typed, TypeOK
<1>1. CASE Lose(c) \/ ReceiveList(c) \/ ReceiveMine(c) \/ ReceiveReview(c)
  BY <1>1 DEF Lose, ReceiveList, ReceiveMine, ReceiveReview, Ends
<1>2. ASSUME NEW list \in Lists, Load(c, list) PROVE \E next : Puts(c, next)
  <2> DEFINE next == [Free EXCEPT !.does = "load", !.of = list, !.answer = "ok",
                                  !.rows = RowsOf(list), !.days = DaysIn(list)]
  <2>1. RowsOf(list) \in [Papers -> Status]
    BY <1>0 DEF RowsOf, Status
  <2>2. DaysIn(list) \in Int
    BY <1>0 DEF DaysIn
  <2>3. next \in Call /\ next.does = "load" /\ next.of = list /\ next.answer = "ok"
    BY <2>1, <2>2 DEF Call
  <2>4. calls' = [calls EXCEPT ![c] = next]
    BY <1>2 DEF Load, Starts
  <2> HIDE DEF next
  <2>5. QED
    BY <2>3, <2>4 DEF InHand
<1>3. CASE HandleReload(c)
  <2> DEFINE next == [calls[c] EXCEPT !.answer = "ok", !.days = remain]
  <2>1. next \in Call /\ next.does = "reload"
    BY <1>0, <1>3 DEF Call, HandleReload, Waits
  <2>2. calls' = [calls EXCEPT ![c] = next]
    BY <1>0, <1>3 DEF HandleReload
  <2> HIDE DEF next
  <2>3. QED
    BY <2>1, <2>2 DEF InHand
<1>4. ASSUME NEW p \in Papers, NEW say \in Verdicts, Press(c, p, say)
      PROVE  \E next : Puts(c, next)
  <2> DEFINE next == [Free EXCEPT !.does = "review", !.of = p, !.say = say]
  <2>1. next \in Call /\ next.does = "review" /\ next.of = p /\ next.say = say
    BY DEF Call
  <2>2. calls' = [calls EXCEPT ![c] = next]
    BY <1>4 DEF Press, Starts
  <2> HIDE DEF next
  <2>3. QED
    BY <2>1, <2>2 DEF InHand
<1>5. CASE \/ GiveUp(c) \/ ReviewRead(c) \/ DecideElsewhere(c)
           \/ ReviewBalance(c) \/ ReviewWrite(c)
  BY <1>5, DecisionSteps
<1>6. ASSUME NEW l \in Leaves, Apply(c, l) PROVE \E next : Puts(c, next)
  <2> DEFINE next == [Free EXCEPT !.does = "apply", !.of = l, !.days = summary]
  <2>1. next \in Call /\ next.does = "apply" /\ next.of = l /\ next.days = summary
    BY <1>0 DEF Call, Papers
  <2>2. calls' = [calls EXCEPT ![c] = next] /\ PageAccepts(l)
    BY <1>6 DEF Apply, Starts
  <2> HIDE DEF next
  <2>3. QED
    BY <2>1, <2>2 DEF InHand, PageAccepts
<1>7. CASE HandleApply(c)
  BY <1>7, AnswersType DEF HandleApply, Waits
<1>8. CASE ReceiveApply(c)
  <2> DEFINE reload == [Free EXCEPT !.does = "reload", !.of = "mine"]
  <2>1. reload \in Call /\ reload.does = "reload"
    BY DEF Call, Lists, Listed
  <2>2. calls' = [calls EXCEPT ![c] = Free] \/ calls' = [calls EXCEPT ![c] = reload]
    BY <1>8 DEF ReceiveApply
  <2> HIDE DEF reload
  <2>3. QED
    BY <2>1, <2>2 DEF InHand
<1>9. QED
  BY <1>1, <1>2, <1>3, <1>4, <1>5, <1>6, <1>7, <1>8 DEF CallStep

\* A paid application is a leave, and no other paper is.
LEMMA PapersApart ==
  /\ PaidLeaves \subseteq Leaves
  /\ \A p \in PaidLeaves : p \in Papers /\ p \notin Sheets /\ p \notin Corrections
BY PapersAssumption DEF Papers

\* A decision that is carried out keeps the rows of the server rows.
LEMMA WriteType ==
  ASSUME Typed, NEW c \in Calls, ReviewWrite(c)
  PROVE  /\ server' \in [Papers -> Status]
         /\ remain' \in Int
         /\ given' \subseteq Papers \X Verdicts
<1>1. /\ calls[c] \in Call /\ calls[c].of \in Papers /\ calls[c].say \in Verdicts
      /\ calls[c].say \in Status /\ TypeOK
  BY UnderWay DEF ReviewWrite, Verdicts, Status, Typed
<1>2. Balance(calls[c]) \in Int
  <2>1. calls[c].days \in Int /\ remain \in Int
    BY <1>1 DEF Call, TypeOK
  <2>2. calls[c].of \in PaidLeaves => Duration(calls[c].of) \in Int
    BY PapersApart, DurationAtMostCalendar
  <2>3. QED
    BY <2>1, <2>2 DEF Balance
<1>3. QED
  BY <1>1, <1>2 DEF ReviewWrite, TypeOK

\* The type invariant, and what the calls have in hand, are inductive.
LEMMA TypedInit == Init => Typed
BY FreeType, PapersAssumption DEF Init, Typed, TypeOK, Status

LEMMA TypedStep == Typed /\ [Next]_vars => Typed'
<1> SUFFICES ASSUME Typed, [Next]_vars PROVE Typed'
  OBVIOUS
<1> USE DEF Typed
<1>2. ASSUME NEW p \in Papers, Expire(p) \/ HandInSheet(p) \/ RequestCorrection(p)
      PROVE  Typed'
  BY <1>2 DEF Expire, HandInSheet, RequestCorrection, boardVars, TypeOK, Status
<1>3. ASSUME NEW c \in Calls, CallStep(c) PROVE Typed'
  <2>1. calls' \in [Calls -> Call] /\ \A d \in Calls : InHand(calls'[d])
    BY <1>3, SlotSteps, CallType DEF Puts
  <2>2. calls[c] \in Call /\ InHand(calls[c])
    BY DEF TypeOK
  <2> SUFFICES /\ server' \in [Papers -> Status] /\ remain' \in Int
               /\ given' \subseteq Papers \X Verdicts /\ begun' \in Nat
               /\ board' \in [Papers -> Status] /\ balance' \in Int
               /\ processing' \in Papers \cup {None} /\ summary' \in Int
    BY <2>1 DEF TypeOK
  <2>3. CASE Lose(c) \/ GiveUp(c)
    BY <2>3 DEF Lose, GiveUp, TypeOK, serverVars
  <2>4. CASE \/ \E list \in Lists : Load(c, list)
             \/ HandleReload(c) \/ ReceiveApply(c)
             \/ \E l \in Leaves : Apply(c, l)
    BY <2>4 DEF Load, HandleReload, ReceiveApply, Apply, TypeOK, serverVars, boardVars
  <2>5. CASE ReceiveList(c)
    <3>1. Merged(calls[c]) \in Int
      BY <2>2 DEF Merged, Call, TypeOK
    <3>2. board' \in [Papers -> Status]
      BY <2>2, <2>5 DEF ReceiveList, Call, TypeOK
    <3>3. QED
      BY <2>5, <3>1, <3>2 DEF ReceiveList, TypeOK, serverVars
  <2>6. CASE ReceiveMine(c)
    BY <2>2, <2>6 DEF ReceiveMine, TypeOK, serverVars, boardVars, Call
  <2>7. ASSUME NEW p \in Papers, NEW say \in Verdicts, Press(c, p, say)
        PROVE  processing' = p /\ UNCHANGED <<serverVars, board, balance, summary>>
    BY <2>7 DEF Press
  <2>8. CASE ReviewRead(c) \/ DecideElsewhere(c) \/ ReviewBalance(c)
    <3>1. begun' \in Nat
      <4>1. begun' = begun \/ begun' = begun + 1
        BY <2>8 DEF ReviewRead, DecideElsewhere, ReviewBalance, Begins, serverVars
      <4>2. QED
        BY <4>1 DEF TypeOK
    <3>2. QED
      BY <2>8, <3>1 DEF ReviewRead, DecideElsewhere, ReviewBalance, TypeOK, serverVars, boardVars
  <2>9. CASE ReviewWrite(c)
    BY <2>9, WriteType DEF ReviewWrite, TypeOK, boardVars
  <2>10. CASE ReceiveReview(c)
    <3>1. CASE calls[c].answer = "error"
      BY <2>10, <3>1 DEF ReceiveReview, TypeOK, serverVars
    <3>2. CASE calls[c].answer # "error"
      <4>1. calls[c].of \in Papers /\ calls[c].say \in Status
        BY <2>2, <2>10, <3>2 DEF ReceiveReview, Received, InHand, Verdicts, Status
      <4>2. calls[c].of \in PaidLeaves => Duration(calls[c].of) \in Int
        BY PapersApart, DurationAtMostCalendar
      <4>3. balance' \in Int
        BY <2>10, <3>2, <4>2 DEF ReceiveReview, TypeOK
      <4>4. board' \in [Papers -> Status]
        BY <2>10, <3>2, <4>1 DEF ReceiveReview, TypeOK, Status
      <4>5. QED
        BY <2>10, <4>3, <4>4 DEF ReceiveReview, TypeOK, serverVars
    <3>3. QED
      BY <3>1, <3>2
  <2>11. CASE HandleApply(c)
    BY <2>11 DEF HandleApply, TypeOK, boardVars, Status
  <2>12. QED
    BY <1>3, <2>3, <2>4, <2>5, <2>6, <2>7, <2>8, <2>10, <2>11, <2>9 DEF CallStep, TypeOK, serverVars
<1>4. CASE UNCHANGED vars
  BY <1>4 DEF vars, serverVars, boardVars, TypeOK
<1>5. QED
  BY <1>2, <1>3, <1>4 DEF Next

LEMMA TypedAlways == Spec => []Typed
BY TypedInit, TypedStep, PTL DEF Spec

\* Every variable of the two pages and of the server keeps its type.
THEOREM BoardsTypeCorrect == Spec => []TypeOK
<1>1. Typed => TypeOK
  BY DEF Typed
<1>2. QED
  BY <1>1, TypedAlways, PTL

-----------------------------------------------------------------------------
(* Applications *)

\* Of an application that waits for the server, the page found that the days it
\* showed suffice by its own count, hence they do by that of the server.
THEOREM RefusedOnlyIfStaleAlways == Spec => []RefusedOnlyIfStale
<1>1. Typed => RefusedOnlyIfStale
  <2> SUFFICES ASSUME Typed, NEW c \in Calls, Waits(c, {"apply"}), calls[c].days = remain
               PROVE  Affordable(calls[c].of)
    BY DEF RefusedOnlyIfStale
  <2>1. /\ calls[c].of \in Leaves /\ remain \in Int
        /\ calls[c].of \in PaidLeaves => CalendarDays(calls[c].of) <= remain
    BY DEF Typed, TypeOK, InHand, Waits
  <2>2. First[calls[c].of] \in Nat /\ Last[calls[c].of] \in Nat
    BY <2>1, PapersAssumption
  <2>3. Duration(calls[c].of) \in Nat /\ Duration(calls[c].of) <= CalendarDays(calls[c].of)
    BY <2>1, DurationAtMostCalendar
  <2>4. CalendarDays(calls[c].of) \in Int
    BY <2>2 DEF CalendarDays
  <2>5. QED
    BY <2>1, <2>3, <2>4 DEF Affordable
<1>2. QED
  BY <1>1, TypedAlways, PTL

-----------------------------------------------------------------------------
(* What the board shows *)

\* Rows that say nothing but decisions of the set made.
Told(rows, made) == \A p \in Papers : rows[p] \in Verdicts => <<p, rows[p]>> \in made

\* Not only the board: the server, the lists that are on their way, and the
\* answers to reviews say nothing that was not decided either.
Honest(call, made) ==
    /\ Told(call.rows, made)
    /\ call.does = "review" /\ call.answer = "ok" => <<call.of, call.say>> \in made

AllTold ==
    /\ Told(server, given)
    /\ Told(board, given)
    /\ \A c \in Calls : Honest(calls[c], given)

\* What has been decided stays decided.
LEMMA ToldStays ==
  ASSUME NEW made, NEW later, made \subseteq later
  PROVE  /\ \A rows : Told(rows, made) => Told(rows, later)
         /\ \A call : Honest(call, made) => Honest(call, later)
BY DEF Told, Honest

\* A decision is written down by the server when it is carried out.
LEMMA WriteTold ==
  ASSUME TypeOK, AllTold, NEW c \in Calls, ReviewWrite(c)
  PROVE  /\ given \subseteq given' /\ <<calls[c].of, calls[c].say>> \in given'
         /\ Told(server', given')
<1>1. /\ given \subseteq given' /\ <<calls[c].of, calls[c].say>> \in given'
      /\ server' = [server EXCEPT ![calls[c].of] = calls[c].say]
  BY DEF ReviewWrite
<1>2. QED
  BY <1>1 DEF AllTold, Told, TypeOK

\* It is enough to look at the slot that steps.
LEMMA ToldFrame ==
  ASSUME Typed, AllTold, NEW c \in Calls, NEW next,
         calls' = [calls EXCEPT ![c] = next], Honest(next, given'),
         given \subseteq given', Told(server', given'), Told(board', given')
  PROVE  AllTold'
<1>1. calls'[c] = next /\ \A d \in Calls \ {c} : calls'[d] = calls[d]
  BY DEF Typed, TypeOK
<1>2. QED
  BY <1>1, ToldStays DEF AllTold

\* A page that has nothing to say, and one that shows what it got.
LEMMA FreeHonest ==
  /\ \A made : Told(NoRows, made) /\ Honest(Free, made)
  /\ \A call \in Call : \A made : Honest(Failed(call), made)
<1>1. \A made : Told(NoRows, made)
  BY FreeType DEF Told, Verdicts
<1>2. QED
  BY <1>1, FreeType DEF Honest

\* What a step of one slot adds is decided.
LEMMA SlotTold ==
  ASSUME Typed, AllTold, NEW c \in Calls, CallStep(c)
  PROVE  AllTold'
<1> USE FreeHonest
<1>0. /\ calls[c] \in Call /\ InHand(calls[c]) /\ Honest(calls[c], given) /\ TypeOK
      /\ Told(server, given) /\ Told(board, given)
  BY DEF Typed, TypeOK, AllTold
<1>1. CASE Lose(c) \/ ReceiveMine(c)
  <2>1. calls' = [calls EXCEPT ![c] = Free] /\ UNCHANGED <<server, given, board>>
    BY <1>1 DEF Lose, ReceiveMine, Ends, serverVars, boardVars
  <2>2. QED
    BY <1>0, <2>1, ToldFrame
<1>2. ASSUME NEW list \in Lists, Load(c, list) PROVE AllTold'
  <2> DEFINE next == [Free EXCEPT !.does = "load", !.of = list, !.answer = "ok",
                                  !.rows = RowsOf(list), !.days = DaysIn(list)]
  <2>1. calls' = [calls EXCEPT ![c] = next] /\ UNCHANGED <<server, given, board>>
    BY <1>2 DEF Load, Starts, serverVars, boardVars
  <2>2. Told(RowsOf(list), given)
    BY <1>0 DEF Told, RowsOf, Verdicts
  <2>3. next.does = "load" /\ next.rows = RowsOf(list)
    BY FreeType DEF Call
  <2> HIDE DEF next
  <2>4. Honest(next, given)
    BY <2>2, <2>3 DEF Honest
  <2>5. QED
    BY <1>0, <2>1, <2>4, ToldFrame
<1>3. CASE HandleReload(c)
  <2> DEFINE next == [calls[c] EXCEPT !.answer = "ok", !.days = remain]
  <2>1. next.does = "reload" /\ next.rows = calls[c].rows
    BY <1>0, <1>3 DEF Call, HandleReload, Waits
  <2>2. calls' = [calls EXCEPT ![c] = next] /\ UNCHANGED <<server, given, board>>
    BY <1>3 DEF HandleReload, Typed, TypeOK, serverVars, boardVars
  <2> HIDE DEF next
  <2>3. Honest(next, given)
    BY <1>0, <2>1 DEF Honest
  <2>4. QED
    BY <1>0, <2>2, <2>3, ToldFrame
<1>4. CASE ReceiveList(c)
  <2>1. calls' = [calls EXCEPT ![c] = Free] /\ UNCHANGED <<server, given>>
    BY <1>4 DEF ReceiveList, Ends, serverVars
  <2>2. Told(board', given)
    BY <1>0, <1>4 DEF ReceiveList, Told, Honest
  <2>3. QED
    BY <1>0, <2>1, <2>2, ToldFrame
<1>5. ASSUME NEW p \in Papers, NEW say \in Verdicts, Press(c, p, say)
      PROVE  AllTold'
  <2> DEFINE next == [Free EXCEPT !.does = "review", !.of = p, !.say = say]
  <2>1. next.rows = NoRows /\ next.answer = "none"
    BY FreeType DEF Call, Free
  <2>2. calls' = [calls EXCEPT ![c] = next] /\ UNCHANGED <<server, given, board>>
    BY <1>5 DEF Press, Starts, serverVars
  <2> HIDE DEF next
  <2>3. Honest(next, given)
    BY <2>1 DEF Honest
  <2>4. QED
    BY <1>0, <2>2, <2>3, ToldFrame
<1>6. CASE \/ GiveUp(c) \/ ReviewRead(c) \/ DecideElsewhere(c)
           \/ ReviewBalance(c) \/ ReviewWrite(c)
  <2>1. PICK next : /\ Puts(c, next) /\ next.rows \in {NoRows, calls[c].rows}
                    /\ next.answer = "ok" =>
                         ReviewWrite(c) /\ next.of = calls[c].of /\ next.say = calls[c].say
    BY <1>6, DecisionSteps
  <2>2. board' = board /\ calls' = [calls EXCEPT ![c] = next]
    BY <1>6, <2>1 DEF GiveUp, ReviewRead, DecideElsewhere, ReviewBalance, ReviewWrite, boardVars, Puts
  <2>3. CASE ReviewWrite(c)
    <3>1. /\ given \subseteq given' /\ <<calls[c].of, calls[c].say>> \in given'
          /\ Told(server', given')
      BY <1>0, <2>3, WriteTold
    <3>2. Told(NoRows, given') /\ Told(calls[c].rows, given') /\ Told(board', given')
      BY <1>0, <2>2, <3>1, ToldStays DEF Honest
    <3>3. Honest(next, given')
      BY <2>1, <3>1, <3>2 DEF Honest
    <3>4. QED
      BY <2>2, <3>1, <3>2, <3>3, ToldFrame
  <2>4. CASE ~ReviewWrite(c)
    <3>1. UNCHANGED <<server, given>>
      BY <1>6, <2>4 DEF GiveUp, ReviewRead, DecideElsewhere, ReviewBalance, serverVars
    <3>2. Told(next.rows, given)
      BY <1>0, <2>1 DEF Honest
    <3>3. Honest(next, given)
      BY <2>1, <2>4, <3>2 DEF Honest
    <3>4. QED
      BY <1>0, <2>2, <3>1, <3>3, ToldFrame
  <2>5. QED
    BY <2>3, <2>4
<1>7. CASE ReceiveReview(c)
  <2>1. calls' = [calls EXCEPT ![c] = Free] /\ UNCHANGED <<server, given>>
    BY <1>7 DEF ReceiveReview, Ends, serverVars
  <2>2. Told(board', given)
    <3>1. CASE calls[c].answer = "error"
      BY <1>0, <1>7, <3>1 DEF ReceiveReview
    <3>2. CASE calls[c].answer # "error"
      <4>1. calls[c].of \in Papers /\ <<calls[c].of, calls[c].say>> \in given
        BY <1>0, <1>7, <3>2 DEF ReceiveReview, Received, InHand, Honest, Call
      <4>2. \A q \in Papers : \/ board'[q] = board[q] \/ board'[q] = "NONE"
                              \/ q = calls[c].of /\ board'[q] = calls[c].say
        BY <1>0, <1>7, <3>2 DEF ReceiveReview, TypeOK
      <4>3. QED
        BY <1>0, <4>1, <4>2 DEF Told, Verdicts
    <3>3. QED
      BY <3>1, <3>2
  <2>3. QED
    BY <1>0, <2>1, <2>2, ToldFrame
<1>8. ASSUME NEW l \in Leaves, Apply(c, l) PROVE AllTold'
  <2> DEFINE next == [Free EXCEPT !.does = "apply", !.of = l, !.days = summary]
  <2>1. next.rows = NoRows /\ next.does = "apply"
    BY FreeType DEF Call
  <2>2. calls' = [calls EXCEPT ![c] = next] /\ UNCHANGED <<server, given, board>>
    BY <1>8 DEF Apply, Starts, serverVars, boardVars
  <2> HIDE DEF next
  <2>3. Honest(next, given)
    BY <2>1 DEF Honest
  <2>4. QED
    BY <1>0, <2>2, <2>3, ToldFrame
<1>9. CASE HandleApply(c)
  <2>1. /\ UNCHANGED <<given, board>> /\ calls[c].answer = "none" /\ calls[c].does = "apply"
        /\ Answers(c, "ok") \/ Answers(c, "error")
    BY <1>9 DEF HandleApply, boardVars, Waits
  <2>2. Told(server', given)
    BY <1>0, <1>9 DEF HandleApply, Told, TypeOK, Verdicts
  <2>3. PICK next : /\ calls' = [calls EXCEPT ![c] = next]
                    /\ next.does = "apply" /\ next.rows = NoRows
    BY <2>1, AnswersType DEF Puts
  <2>4. Honest(next, given)
    BY <1>0, <2>3 DEF Honest
  <2>5. QED
    BY <1>0, <2>1, <2>2, <2>3, <2>4, ToldFrame
<1>10. CASE ReceiveApply(c)
  <2> DEFINE reload == [Free EXCEPT !.does = "reload", !.of = "mine"]
  <2>1. reload.rows = NoRows /\ reload.does = "reload"
    BY FreeType DEF Call
  <2>2. /\ calls' = [calls EXCEPT ![c] = Free] \/ calls' = [calls EXCEPT ![c] = reload]
        /\ UNCHANGED <<server, given, board>>
    BY <1>10 DEF ReceiveApply, serverVars, boardVars
  <2> HIDE DEF reload
  <2>3. Honest(reload, given)
    BY <2>1 DEF Honest
  <2>4. QED
    BY <1>0, <2>2, <2>3, ToldFrame
<1>11. QED
  BY <1>1, <1>2, <1>3, <1>4, <1>5, <1>6, <1>7, <1>8, <1>9, <1>10 DEF CallStep

LEMMA AllToldInit == Init => AllTold
BY FreeHonest DEF Init, AllTold, Told, Verdicts

LEMMA AllToldStep == Typed /\ AllTold /\ [Next]_vars => AllTold'
<1> SUFFICES ASSUME Typed, AllTold, [Next]_vars PROVE AllTold'
  OBVIOUS
<1>2. ASSUME NEW p \in Papers, Expire(p) \/ HandInSheet(p) \/ RequestCorrection(p)
      PROVE  AllTold'
  <2>1. UNCHANGED <<given, board, calls>>
    BY <1>2 DEF Expire, HandInSheet, RequestCorrection, boardVars
  <2>2. Told(server', given)
    BY <1>2 DEF Expire, HandInSheet, RequestCorrection, AllTold, Told, Typed, TypeOK, Verdicts
  <2>3. QED
    BY <2>1, <2>2 DEF AllTold
<1>3. CASE \E c \in Calls : CallStep(c)
  BY <1>3, SlotTold
<1>4. CASE UNCHANGED vars
  BY <1>4 DEF vars, serverVars, boardVars, AllTold
<1>5. QED
  BY <1>2, <1>3, <1>4 DEF Next

\* The board never shows a decision that the server has not carried out, for any
\* number of papers and of calls that overtake each other
\* (handleApprove..., handleSubmitReject, the lists of the board).
THEOREM ShownWasDecidedAlways == Spec => []ShownWasDecided
<1>1. AllTold => ShownWasDecided
  BY DEF AllTold, Told, ShownWasDecided
<1>2. QED
  BY <1>1, TypedInit, TypedStep, AllToldInit, AllToldStep, PTL DEF Spec

=============================================================================

------------------------- MODULE LeaveBalanceProofs -------------------------
(* Theorems about LeaveBalance, for every value of its constants.  The first *)
(* part holds however requests, jobs and edits of the leave types interleave; *)
(* the second when requests and jobs are handled one at a time and no leave  *)
(* type is edited, while midnight, the new year's reset and failures still   *)
(* interleave.                                                               *)
EXTENDS LeaveBalance, FiniteSetTheorems, TLAPS

-----------------------------------------------------------------------------
(* Durations *)

\* The business days of an application are finitely many.
LEMMA DurationType ==
  ASSUME NEW a
  PROVE  /\ IsFiniteSet(Weekdays)
         /\ IsFiniteSet(BusinessDays(a))
         /\ Duration(a) \in Nat
<1>1. IsFiniteSet(1..Horizon)
  BY DaysAssumption, FS_Interval
<1>2. IsFiniteSet(Weekdays)
  BY <1>1, DaysAssumption, FS_Subset
<1>3. BusinessDays(a) \in SUBSET Weekdays
  BY DEF BusinessDays
<1>4. IsFiniteSet(BusinessDays(a))
  BY <1>2, <1>3, FS_Subset
<1>5. QED
  BY <1>2, <1>4, FS_CardinalityType DEF Duration

-----------------------------------------------------------------------------
(* Type correctness *)

\* A blank row has the type of an application, an idle worker that of a job.
LEMMA IdleIsJob == Blank \in Application /\ Idle \in Job
<1>1. (CHOOSE t \in Types : TRUE) \in Types
  BY TypesAssumption
<1>2. 1 \in Days
  BY DaysAssumption DEF Days
<1>3. Blank \in Application
  BY <1>1, <1>2 DEF Blank, Application
<1>4. QED
  BY <1>3 DEF Idle, Job, LeaveStatus

\* A worker that moves to a well-typed job leaves job well typed.
LEMMA GotoType ==
  ASSUME job \in [Workers -> Job], NEW w \in Workers, NEW next \in Job, Goto(w, next)
  PROVE  job' \in [Workers -> Job]
  BY DEF Goto

\* So does a worker that finishes.
LEMMA FinishType ==
  ASSUME job \in [Workers -> Job], NEW w \in Workers, Finish(w)
  PROVE  job' \in [Workers -> Job]
  BY IdleIsJob, GotoType DEF Finish

\* A review leaves an integer.
LEMMA BalanceType ==
  ASSUME remain \in Int, NEW j \in Job
  PROVE  Balance(j) \in Int
<1>1. Duration(applications[j.id]) \in Nat
  BY DurationType
<1>2. j.seen \in Int
  BY DEF Job
<1>3. QED
  BY <1>1, <1>2 DEF Balance

\* A creation that goes on to look for applications of the same days carries
\* what it is about to create.
LEMMA GoesOn ==
  ASSUME TypeOK, NEW w \in Workers, ApplyType(w), ~Finish(w)
  PROVE  /\ job' \in [Workers -> Job]
         /\ job'[w].at = "apply.look" /\ job'[w].what = job[w].what
<1> DEFINE next == [job[w] EXCEPT !.at = "apply.look", !.seen = 0]
<1>1. Goto(w, next)
  BY Zenon DEF ApplyType
<1>2. job \in [Workers -> Job] /\ job[w] \in Job
  BY DEF TypeOK
<1>3. next \in Job /\ next.at = "apply.look" /\ next.what = job[w].what
  <2>1. ASSUME NEW k \in Int, NEW j \in Job
        PROVE  [j EXCEPT !.at = "apply.look", !.seen = k] \in Job
    BY DEF Job
  <2>2. next \in Job
    <3>1. 0 \in Int
      OBVIOUS
    <3>2. QED
      BY <1>2, <2>1, <3>1, Zenon
  <2>3. next.at = "apply.look"
    BY <1>2 DEF Job
  <2>4. next.what = job[w].what
    BY <1>2 DEF Job
  <2>5. QED
    BY <2>2, <2>3, <2>4
<1>4. job'[w] = next
  BY <1>1, <1>2 DEF Goto
<1> HIDE DEF next
<1>5. QED
  BY <1>1, <1>2, <1>3, <1>4, GotoType

\* Every step of the system keeps the types.
LEMMA TypeStep ==
  ASSUME TypeOK, [Next]_vars
  PROVE  TypeOK'
<1> USE DEF TypeOK
<1>1. CASE NextDay
  <2>1. now' \in 1..(Horizon + 1)
    BY <1>1, DaysAssumption DEF NextDay
  <2>2. expiryDue' \in BOOLEAN /\ resetDue' \in BOOLEAN
    BY <1>1 DEF NextDay
  <2>3. UNCHANGED <<remain, types, applications, job>>
    BY <1>1 DEF NextDay
  <2>4. QED
    BY <2>1, <2>2, <2>3
<1>2. CASE AnnualReset
  <2>1. remain' \in Int
    BY <1>2, DaysAssumption DEF AnnualReset
  <2>2. resetDue' \in BOOLEAN /\ UNCHANGED <<now, expiryDue, types, applications, job>>
    BY <1>2 DEF AnnualReset
  <2>3. QED
    BY <2>1, <2>2
<1>3. ASSUME NEW t \in Types, EditType(t) PROVE TypeOK'
  BY <1>3 DEF EditType
<1>4. ASSUME NEW w \in Workers, Step(w) PROVE TypeOK'
  <2> job[w] \in Job
    OBVIOUS
  <2>1. CASE Abort(w)
    BY <2>1, FinishType DEF Abort
  <2>2. CASE Apply(w)
    <3>1. PICK from, to \in Days, t \in Types :
            Goto(w, [Idle EXCEPT !.at = "apply.type",
                       !.what = [status |-> "PENDING", from |-> from, to |-> to, type |-> t],
                       !.seen = remain])
      BY <2>2 DEF Apply
    <3> DEFINE a == [status |-> "PENDING", from |-> from, to |-> to, type |-> t]
    <3>2. a \in Application
      BY DEF Application, LeaveStatus
    <3>3. [Idle EXCEPT !.at = "apply.type", !.what = a, !.seen = remain] \in Job
      BY <3>2, IdleIsJob DEF Job
    <3>4. job' \in [Workers -> Job]
      BY <3>1, <3>3, GotoType
    <3>5. QED
      BY <2>2, <3>4 DEF Apply
  <2>13. CASE ApplyType(w)
    <3>1. job' \in [Workers -> Job]
      BY <2>13, GoesOn, FinishType
    <3>2. QED
      BY <2>13, <3>1 DEF ApplyType
  <2>3. CASE ApplyLook(w)
    <3>1. [job[w] EXCEPT !.at = "apply.write"] \in Job
      BY DEF Job
    <3>2. job' \in [Workers -> Job]
      BY <2>3, <3>1, GotoType, FinishType DEF ApplyLook
    <3>3. QED
      BY <2>3, <3>2 DEF ApplyLook
  <2>4. CASE ApplyWrite(w)
    <3>1. job[w].what \in Application
      BY DEF Job
    <3>2. applications' \in [Ids -> Application]
      BY <2>4, <3>1 DEF ApplyWrite, InStatus
    <3>3. QED
      BY <2>4, <3>2, FinishType DEF ApplyWrite
  <2>5. CASE ReviewRead(w)
    <3>1. PICK a \in InStatus(LeaveStatus), verdict \in {"APPROVED", "REJECTED"} :
            Goto(w, [Idle EXCEPT !.at = "review", !.id = a, !.say = verdict,
                                 !.old = applications[a].status,
                                 !.pays = types[applications[a].type].paid])
      BY <2>5 DEF ReviewRead
    <3>2. /\ a \in Ids /\ applications[a].status \in LeaveStatus
          /\ types[applications[a].type].paid \in BOOLEAN
      BY DEF InStatus, Application, TypeRow
    <3>3. [Idle EXCEPT !.at = "review", !.id = a, !.say = verdict,
                       !.old = applications[a].status,
                       !.pays = types[applications[a].type].paid] \in Job
      BY <3>2, IdleIsJob DEF Job, LeaveStatus
    <3>4. job' \in [Workers -> Job]
      BY <3>1, <3>3, GotoType
    <3>5. QED
      BY <2>5, <3>4 DEF ReviewRead
  <2>6. CASE ReviewBalance(w)
    <3>1. [job[w] EXCEPT !.at = "review.write", !.seen = remain] \in Job
      BY DEF Job
    <3>2. job' \in [Workers -> Job]
      BY <2>6, <3>1, GotoType, FinishType DEF ReviewBalance
    <3>3. QED
      BY <2>6, <3>2 DEF ReviewBalance
  <2>7. CASE ReviewWrite(w)
    <3>1. remain' \in Int
      BY <2>7, BalanceType DEF ReviewWrite
    <3>2. applications' \in [Ids -> Application]
      BY <2>7 DEF ReviewWrite, Application, Job
    <3>3. QED
      BY <2>7, <3>1, <3>2, FinishType DEF ReviewWrite
  <2>8. ASSUME NEW cutoff, ExpireList(w, cutoff), expiryDue' \in BOOLEAN PROVE TypeOK'
    <3> DEFINE expired == {a \in InStatus({"PENDING"}) : applications[a].to <= cutoff}
    <3>1. [Idle EXCEPT !.at = "expire", !.list = expired] \in Job
      BY IdleIsJob DEF Job, InStatus
    <3>2. job' \in [Workers -> Job]
      BY <2>8, <3>1, GotoType DEF ExpireList
    <3>3. QED
      BY <2>8, <3>2 DEF ExpireList
  <2>9. CASE ExpireDaily(w)
    BY <2>9, <2>8 DEF ExpireDaily
  <2>10. CASE ExpireAtStartup(w)
    BY <2>10, <2>8 DEF ExpireAtStartup
  <2>11. CASE ExpireWrite(w)
    <3>1. applications' \in [Ids -> Application]
      BY <2>11 DEF ExpireWrite, Application, LeaveStatus
    <3>2. QED
      BY <2>11, <3>1, FinishType DEF ExpireWrite
  <2>12. QED
    BY <1>4, <2>1, <2>2, <2>3, <2>4, <2>5, <2>6, <2>7, <2>9, <2>10, <2>11, <2>13 DEF Step
<1>5. CASE UNCHANGED vars
  BY <1>5 DEF vars
<1>6. QED
  BY <1>1, <1>2, <1>3, <1>4, <1>5 DEF Next

\* The initial state has the types.
LEMMA InitType == Init => TypeOK
<1> SUFFICES ASSUME Init PROVE TypeOK
  OBVIOUS
<1>1. applications \in [Ids -> Application] /\ job \in [Workers -> Job]
  BY IdleIsJob DEF Init
<1>2. types \in [Types -> TypeRow]
  BY DEF Init, TypeRow
<1>3. now \in 1..(Horizon + 1) /\ remain \in Int
  BY DaysAssumption DEF Init
<1>4. QED
  BY <1>1, <1>2, <1>3 DEF Init, TypeOK

\* Every variable keeps its type.
THEOREM TypeCorrect == Spec => []TypeOK
<1>1. TypeOK /\ [Next]_vars => TypeOK'
  BY TypeStep
<1>2. QED
  BY <1>1, InitType, PTL DEF Spec

-----------------------------------------------------------------------------
(* What no step changes *)

\* An application that exists stays, with its days and its type.
LEMMA RowsStay ==
  ASSUME TypeOK, [Next]_vars, NEW a \in InStatus(LeaveStatus)
  PROVE  /\ applications'[a].from = applications[a].from
         /\ applications'[a].to = applications[a].to
         /\ applications'[a].type = applications[a].type
         /\ applications'[a].status \in LeaveStatus
<1> USE DEF TypeOK
<1> /\ a \in Ids /\ applications[a] \in Application
    /\ applications[a].status \in LeaveStatus /\ applications[a].status # "NONE"
  BY DEF InStatus, LeaveStatus
<1>1. CASE UNCHANGED applications
  BY <1>1
<1>2. ASSUME NEW w \in Workers, ApplyWrite(w) PROVE applications'[a] = applications[a]
  BY <1>2 DEF ApplyWrite, InStatus
<1>3. ASSUME NEW w \in Workers, ReviewWrite(w)
      PROVE  applications'[a] \in {applications[a], [applications[a] EXCEPT !.status = job[w].say]}
  BY <1>3 DEF ReviewWrite
<1>4. ASSUME NEW w \in Workers, ExpireWrite(w)
      PROVE  applications'[a] \in {applications[a], [applications[a] EXCEPT !.status = "CANCELLED"]}
  BY <1>4 DEF ExpireWrite
<1>5. \A w \in Workers : job[w].say \in LeaveStatus
  BY DEF Job
<1>6. ASSUME NEW say \in LeaveStatus,
             applications'[a] \in {applications[a], [applications[a] EXCEPT !.status = say]}
      PROVE  /\ applications'[a].from = applications[a].from
             /\ applications'[a].to = applications[a].to
             /\ applications'[a].type = applications[a].type
             /\ applications'[a].status \in LeaveStatus
  BY <1>6 DEF Application
<1>7. "CANCELLED" \in LeaveStatus
  BY DEF LeaveStatus
<1>8. CASE \E w \in Workers : ApplyWrite(w) \/ ReviewWrite(w) \/ ExpireWrite(w)
  BY <1>2, <1>3, <1>4, <1>5, <1>6, <1>7, <1>8
<1>9. QED
  BY <1>1, <1>8 DEF Next, Step, NextDay, AnnualReset, EditType, Abort, Apply, ApplyType,
     ApplyLook, ReviewRead, ReviewBalance, ExpireDaily, ExpireAtStartup, ExpireList, vars

\* Time does not go back.
LEMMA TimePasses ==
  ASSUME TypeOK, [Next]_vars
  PROVE  now \in Int /\ now' \in Int /\ now <= now'
<1>1. now \in Int
  BY DaysAssumption DEF TypeOK
<1>2. now' = now \/ now' = now + 1
  BY DEF Next, Step, NextDay, AnnualReset, EditType, Abort, Apply, ApplyType, ApplyLook,
     ApplyWrite, ReviewRead, ReviewBalance, ReviewWrite, ExpireDaily, ExpireAtStartup,
     ExpireList, ExpireWrite, vars
<1>3. QED
  BY <1>1, <1>2

\* A step of one worker leaves the others where they are.
LEMMA OthersWait ==
  ASSUME TypeOK, NEW w \in Workers, Step(w), NEW v \in Workers, v # w
  PROVE  job'[v] = job[v]
  BY DEF TypeOK, Step, Abort, Apply, ApplyType, ApplyLook, ApplyWrite, ReviewRead,
     ReviewBalance, ReviewWrite, ExpireDaily, ExpireAtStartup, ExpireList, ExpireWrite,
     Goto, Finish

\* Applications for the same days have the same duration.
LEMMA SameDuration ==
  ASSUME NEW a, NEW b, a.from = b.from, a.to = b.to
  PROVE  BusinessDays(a) = BusinessDays(b) /\ Duration(a) = Duration(b)
<1>1. BusinessDays(a) = BusinessDays(b)
  BY DEF BusinessDays
<1>2. QED
  BY <1>1 DEF Duration

-----------------------------------------------------------------------------
(* The inductive invariant of the concurrent system *)

\* What a waiting worker remembers stays true.
LEMMA WaitingRemembers ==
  ASSUME TypeOK, [Next]_vars, NEW w \in Workers, Remembers(w), job'[w] = job[w]
  PROVE  Remembers(w)'
<1> USE DEF Remembers, At
<1> job[w] \in Job
  BY DEF TypeOK
<1>1. job[w].at \in {"apply.type", "apply.look", "apply.write"} => job'[w].what.status = "PENDING"
  OBVIOUS
<1>2. ASSUME job[w].at \in {"review", "review.write"}
      PROVE  /\ job[w].id \in InStatus(LeaveStatus)'
             /\ job[w].say \in {"APPROVED", "REJECTED"}
             /\ Duration(applications[job[w].id])' = Duration(applications[job[w].id])
  <2>1. job[w].id \in InStatus(LeaveStatus) /\ job[w].say \in {"APPROVED", "REJECTED"}
    BY <1>2
  <2>2. job[w].id \in InStatus(LeaveStatus)'
    BY <2>1, RowsStay DEF InStatus
  <2>3. Duration(applications'[job[w].id]) = Duration(applications[job[w].id])
    BY <2>1, RowsStay, SameDuration
  <2>4. Duration(applications[job[w].id])' = Duration(applications'[job[w].id])
    BY DEF Duration, BusinessDays
  <2>5. QED
    BY <2>1, <2>2, <2>3, <2>4
<1>3. ASSUME job[w].at = "review.write"
      PROVE  /\ job[w].seen >= 0
             /\ job[w].pays /\ Deducts(job[w].old, job[w].say)
                  => job[w].seen >= Duration(applications[job[w].id])'
  BY <1>2, <1>3
<1>4. ASSUME job[w].at = "expire", NEW a \in job[w].list
      PROVE  a \in InStatus(LeaveStatus)' /\ applications'[a].to <= now'
  <2>1. a \in InStatus(LeaveStatus) /\ applications[a].to <= now
    BY <1>4
  <2>2. a \in Ids /\ applications[a].to \in Int
    BY <2>1, DaysAssumption DEF TypeOK, InStatus, Application, Days
  <2>3. QED
    BY <2>1, <2>2, RowsStay, TimePasses DEF InStatus
<1>5. QED
  BY <1>1, <1>2, <1>3, <1>4 DEF InStatus

\* What a worker reads is true when it reads it.
LEMMA WorkerRemembers ==
  ASSUME IInv, NEW w \in Workers, Step(w)
  PROVE  Remembers(w)'
<1> USE DEF IInv, TypeOK, At, Goto
<1> job[w] \in Job
  OBVIOUS
<1>1. ASSUME Finish(w) PROVE Remembers(w)'
  BY <1>1 DEF Finish, Remembers, Idle
<1>2. CASE Apply(w)
  BY <1>2 DEF Apply, Remembers, Idle
<1>11. CASE ApplyType(w)
  <2>1. CASE Finish(w)
    BY <1>1, <2>1
  <2>2. CASE ~Finish(w)
    <3>1. job'[w].at = "apply.look" /\ job'[w].what = job[w].what
      BY <1>11, <2>2, GoesOn
    <3>2. job[w].what.status = "PENDING"
      BY <1>11 DEF ApplyType, WorkersRemember, Remembers
    <3>3. QED
      BY <3>1, <3>2 DEF Remembers
  <2>3. QED
    BY <2>1, <2>2
<1>3. CASE ApplyLook(w)
  BY <1>1, <1>3 DEF ApplyLook, WorkersRemember, Remembers, Job
<1>4. CASE ReviewRead(w)
  BY <1>4 DEF ReviewRead, Remembers, Idle, InStatus
<1>5. CASE ReviewBalance(w)
  <2>1. CASE Finish(w)
    BY <1>1, <2>1
  <2>2. CASE ~Finish(w)
    <3> DEFINE next == [job[w] EXCEPT !.at = "review.write", !.seen = remain]
    <3>1. /\ next.at = "review.write" /\ next.seen = remain /\ next.id = job[w].id
          /\ next.say = job[w].say /\ next.old = job[w].old /\ next.pays = job[w].pays
      BY DEF Job
    <3>2. /\ job'[w] = next /\ applications' = applications
          /\ ~ (/\ job[w].pays
                /\ Deducts(job[w].old, job[w].say)
                /\ remain < Duration(applications[job[w].id]))
      BY <1>5, <2>2 DEF ReviewBalance
    <3>3. job[w].id \in InStatus(LeaveStatus) /\ job[w].say \in {"APPROVED", "REJECTED"}
      BY <1>5 DEF ReviewBalance, WorkersRemember, Remembers
    <3>4. Duration(applications[job[w].id])' = Duration(applications[job[w].id])
      <4>1. Duration(applications[job[w].id])' = Duration(applications'[job'[w].id])
        BY DEF Duration, BusinessDays
      <4>2. QED
        BY <3>1, <3>2 DEF Duration, BusinessDays
    <3>5. Duration(applications[job[w].id]) \in Nat
      BY DurationType
    <3>6. job[w].id \in InStatus(LeaveStatus)'
      BY <3>2, <3>3 DEF InStatus
    <3>7. remain >= 0
      BY DEF NeverNegative
    <3>8. /\ job'[w].seen >= 0
          /\ job'[w].pays /\ Deducts(job'[w].old, job'[w].say)
               => job'[w].seen >= Duration(applications[job[w].id])
      BY <3>1, <3>2, <3>5, <3>7
    <3>9. QED
      BY <3>1, <3>2, <3>3, <3>4, <3>6, <3>8 DEF Remembers
  <2>3. QED
    BY <2>1, <2>2
<1>6. ASSUME NEW cutoff \in Int, cutoff <= now, ExpireList(w, cutoff) PROVE Remembers(w)'
  <2> DEFINE expired == {a \in InStatus({"PENDING"}) : applications[a].to <= cutoff}
  <2>1. CASE expired = {}
    <3>1. job'[w].at = "idle"
      BY <1>6, <2>1 DEF ExpireList
    <3>2. QED
      BY <3>1 DEF Remembers
  <2>2. CASE expired # {}
    <3>1. job'[w].at = "expire" /\ job'[w].list = expired
      BY <1>6, <2>2 DEF ExpireList, Idle
    <3>2. now' = now /\ applications' = applications
      BY <1>6 DEF ExpireList
    <3>3. \A a \in expired : a \in InStatus(LeaveStatus) /\ applications[a].to <= now
      <4>1. now \in Int /\ \A a \in Ids : applications[a].to \in Int
        BY DaysAssumption DEF Application, Days
      <4>2. QED
        BY <1>6, <4>1 DEF InStatus, LeaveStatus
    <3>4. QED
      BY <3>1, <3>2, <3>3 DEF Remembers, InStatus
  <2>3. QED
    BY <2>1, <2>2
<1>7. CASE ExpireDaily(w)
  BY <1>6, <1>7, DaysAssumption DEF ExpireDaily
<1>8. CASE ExpireAtStartup(w)
  BY <1>6, <1>8, DaysAssumption DEF ExpireAtStartup
<1>9. CASE Abort(w) \/ ApplyWrite(w) \/ ReviewWrite(w) \/ ExpireWrite(w)
  BY <1>1, <1>9 DEF Abort, ApplyWrite, ReviewWrite, ExpireWrite
<1>10. QED
  BY <1>2, <1>3, <1>4, <1>5, <1>7, <1>8, <1>9, <1>11 DEF Step

\* Only a review and the reset of the new year change the balance, and
\* neither takes it below zero.
LEMMA BalanceStep ==
  ASSUME IInv, [Next]_vars
  PROVE  NeverNegative'
<1> USE DEF IInv, NeverNegative
<1>1. CASE remain' = remain
  BY <1>1
<1>2. CASE AnnualReset
  BY <1>2, DaysAssumption DEF AnnualReset
<1>3. ASSUME NEW w \in Workers, ReviewWrite(w) PROVE NeverNegative'
  <2> DEFINE days == Duration(applications[job[w].id])
  <2>1. days \in Nat
    BY DurationType
  <2>2. job[w].seen \in Int
    BY DEF TypeOK, Job
  <2>3. /\ job[w].seen >= 0
        /\ job[w].pays /\ Deducts(job[w].old, job[w].say) => job[w].seen >= days
    BY <1>3 DEF ReviewWrite, WorkersRemember, Remembers
  <2>4. \/ remain' = remain
        \/ remain' = job[w].seen + days
        \/ /\ remain' = job[w].seen - days
           /\ job[w].pays /\ Deducts(job[w].old, job[w].say)
    <3>1. remain' = Balance(job[w])
      BY <1>3 DEF ReviewWrite
    <3>2. Balance(job[w]) = IF job[w].pays /\ Deducts(job[w].old, job[w].say)
                            THEN job[w].seen - days
                            ELSE IF job[w].pays /\ Refunds(job[w].old, job[w].say)
                            THEN job[w].seen + days
                            ELSE remain
      BY DEF Balance
    <3>3. QED
      BY <3>1, <3>2
  <2>5. QED
    BY <2>1, <2>2, <2>3, <2>4
<1>4. QED
  BY <1>1, <1>2, <1>3 DEF Next, Step, NextDay, EditType, Abort, Apply, ApplyType,
     ApplyLook, ApplyWrite, ReviewRead, ReviewBalance, ExpireDaily, ExpireAtStartup,
     ExpireList, ExpireWrite, vars

\* Only the expiry job cancels, and only what its list says has ended.
LEMMA CancelledStep ==
  ASSUME IInv, [Next]_vars
  PROVE  CancelledAfterItsEnd'
<1> USE DEF IInv, TypeOK
<1> SUFFICES ASSUME NEW a \in Ids, applications'[a].status = "CANCELLED"
             PROVE  applications'[a].to <= now'
  BY DEF CancelledAfterItsEnd, InStatus
<1> applications[a] \in Application /\ applications[a].to \in Int
  BY DaysAssumption DEF Application, Days
<1>1. CASE applications'[a] = applications[a]
  BY <1>1, TimePasses DEF CancelledAfterItsEnd, InStatus
<1>2. ASSUME NEW w \in Workers, ApplyWrite(w) PROVE applications'[a] = applications[a]
  <2>1. job[w].what.status = "PENDING"
    BY <1>2 DEF ApplyWrite, WorkersRemember, Remembers, At
  <2>2. QED
    BY <1>2, <2>1 DEF ApplyWrite
<1>3. ASSUME NEW w \in Workers, ReviewWrite(w) PROVE applications'[a] = applications[a]
  <2>1. job[w].say # "CANCELLED"
    BY <1>3 DEF ReviewWrite, WorkersRemember, Remembers, At
  <2>2. a = job[w].id => applications'[a].status = job[w].say
    BY <1>3 DEF ReviewWrite, Application
  <2>3. QED
    BY <1>3, <2>1, <2>2 DEF ReviewWrite
<1>4. ASSUME NEW w \in Workers, ExpireWrite(w), applications'[a] # applications[a]
      PROVE  applications'[a].to <= now'
  <2>1. a \in job[w].list
    BY <1>4 DEF ExpireWrite
  <2>2. applications[a].to <= now /\ a \in InStatus(LeaveStatus)
    BY <1>4, <2>1 DEF ExpireWrite, WorkersRemember, Remembers
  <2>3. applications'[a].to = applications[a].to
    BY <1>4, <2>2, RowsStay DEF Next, Step
  <2>4. QED
    BY <2>2, <2>3, <1>4 DEF ExpireWrite
<1>5. QED
  BY <1>1, <1>2, <1>3, <1>4 DEF Next, Step, NextDay, AnnualReset, EditType, Abort, Apply,
     ApplyType, ApplyLook, ReviewRead, ReviewBalance, ExpireDaily, ExpireAtStartup,
     ExpireList, vars

\* Every step keeps what the workers remember true.
LEMMA RemembersStep ==
  ASSUME IInv, [Next]_vars
  PROVE  WorkersRemember'
<1> USE DEF IInv, WorkersRemember
<1>1. ASSUME NEW w \in Workers, Step(w) PROVE WorkersRemember'
  BY <1>1, OthersWait, WaitingRemembers, WorkerRemembers
<1>2. CASE UNCHANGED job
  BY <1>2, WaitingRemembers
<1>3. QED
  BY <1>1, <1>2 DEF Next, NextDay, AnnualReset, EditType, vars

\* The invariant of the concurrent system, for any number of workers, days,
\* applications and leave types, any allowance and any edits of the types.
THEOREM Concurrent == Spec => []IInv
<1>1. Init => IInv
  <2> SUFFICES ASSUME Init PROVE IInv
    OBVIOUS
  <2>1. NeverNegative
    BY DaysAssumption DEF Init, NeverNegative
  <2>2. CancelledAfterItsEnd
    BY DEF Init, CancelledAfterItsEnd, InStatus, Blank
  <2>3. WorkersRemember
    BY DEF Init, WorkersRemember, Remembers, At, Idle
  <2>4. QED
    BY <2>1, <2>2, <2>3, InitType DEF IInv
<1>2. IInv /\ [Next]_vars => IInv'
  BY TypeStep, BalanceStep, CancelledStep, RemembersStep DEF IInv
<1>3. QED
  BY <1>1, <1>2, PTL DEF Spec

\* The balance never goes below zero, although reviews lose each other's
\* updates of it.
THEOREM BalanceNeverNegative == Spec => []NeverNegative
<1>1. IInv => NeverNegative
  BY DEF IInv
<1>2. QED
  BY <1>1, Concurrent, PTL

\* The expiry job never cancels an application before its last day.
THEOREM NothingExpiresEarly == Spec => []CancelledAfterItsEnd
<1>1. IInv => CancelledAfterItsEnd
  BY DEF IInv
<1>2. QED
  BY <1>1, Concurrent, PTL

-----------------------------------------------------------------------------
(* The days that are charged *)

\* The days that an application would be charged for, each with its identifier.
Pairs(rows, a) == {a} \X BusinessDays(rows[a])

\* Whether an application is charged for.
Charged(rows, tys, a) == rows[a].status = "APPROVED" /\ tys[rows[a].type].paid

\* The charged days of given rows, application by application.
ChargedIn(rows, tys) ==
    {p \in Ids \X Weekdays : Charged(rows, tys, p[1]) /\ p \in Pairs(rows, p[1])}

\* The charged days are finitely many.
LEMMA ChargedFinite ==
  ASSUME NEW S \in SUBSET (Ids \X Weekdays)
  PROVE  IsFiniteSet(S) /\ Cardinality(S) \in Nat
<1>1. IsFiniteSet(Ids)
  BY DaysAssumption, FS_Interval DEF Ids
<1>2. IsFiniteSet(Weekdays)
  BY DurationType
<1>3. IsFiniteSet(Ids \X Weekdays)
  BY <1>1, <1>2, FS_Product
<1>4. IsFiniteSet(S)
  BY <1>3, FS_Subset
<1>5. QED
  BY <1>4, FS_CardinalityType

\* An application is charged for as many days as it lasts.
LEMMA PairsSize ==
  ASSUME NEW rows, NEW a \in Ids
  PROVE  /\ IsFiniteSet(Pairs(rows, a))
         /\ Cardinality(Pairs(rows, a)) = Duration(rows[a])
         /\ Pairs(rows, a) \subseteq Ids \X Weekdays
<1>1. IsFiniteSet({a}) /\ Cardinality({a}) = 1
  BY FS_Singleton
<1>2. IsFiniteSet(BusinessDays(rows[a])) /\ Duration(rows[a]) \in Nat
  BY DurationType
<1>3. /\ IsFiniteSet(Pairs(rows, a))
      /\ Cardinality(Pairs(rows, a)) = Cardinality({a}) * Cardinality(BusinessDays(rows[a]))
  BY <1>1, <1>2, FS_Product DEF Pairs
<1>4. Cardinality(Pairs(rows, a)) = Duration(rows[a])
  BY <1>1, <1>2, <1>3 DEF Duration
<1>5. QED
  BY <1>3, <1>4 DEF Pairs, BusinessDays

\* The number of charged days is a number.
LEMMA ChargedType == Cardinality(ChargedDays) \in Nat
<1>1. ChargedDays \in SUBSET (Ids \X Weekdays)
  BY DEF ChargedDays
<1>2. QED
  BY <1>1, ChargedFinite

\* ChargedIn is the definition of ChargedDays, before and after a step.
LEMMA ChargedInIs ==
  /\ ChargedDays = ChargedIn(applications, types)
  /\ ChargedDays' = ChargedIn(applications', types')
<1>1. \A rows : \A p \in Ids \X Weekdays :
        p \in Pairs(rows, p[1]) <=> p[2] \in BusinessDays(rows[p[1]])
  BY DEF Pairs
<1>2. QED
  BY <1>1 DEF ChargedDays, ChargedIn, Charged, BusinessDays

\* Rows that charge the same applications for the same days charge the same.
LEMMA SameCharged ==
  ASSUME NEW rows, NEW rows2, NEW tys,
         \A a \in Ids : Charged(rows, tys, a) = Charged(rows2, tys, a),
         \A a \in Ids : Charged(rows, tys, a) => Pairs(rows, a) = Pairs(rows2, a)
  PROVE  ChargedIn(rows, tys) = ChargedIn(rows2, tys)
BY DEF ChargedIn

\* Rows that charge for one application more charge for its days more.
LEMMA OneMoreCharged ==
  ASSUME NEW rows, NEW rows2, NEW tys, NEW a \in Ids,
         ~ Charged(rows, tys, a), Charged(rows2, tys, a),
         \A b \in Ids \ {a} : rows2[b] = rows[b]
  PROVE  Cardinality(ChargedIn(rows2, tys)) = Cardinality(ChargedIn(rows, tys)) + Duration(rows2[a])
<1> DEFINE S == ChargedIn(rows, tys)
           T == Pairs(rows2, a)
<1>1. ChargedIn(rows2, tys) = S \cup T
  <2>1. \A p \in T : p \in Ids \X Weekdays /\ p[1] = a
    BY PairsSize DEF Pairs
  <2>2. ASSUME NEW p \in Ids \X Weekdays
        PROVE  p \in ChargedIn(rows2, tys) <=> p \in S \cup T
    <3>1. CASE p[1] = a
      BY <3>1 DEF ChargedIn
    <3>2. CASE p[1] # a
      BY <2>1, <3>2 DEF ChargedIn, Charged, Pairs
    <3>3. QED
      BY <3>1, <3>2
  <2>3. QED
    BY <2>1, <2>2 DEF ChargedIn
<1>2. S \cap T = {}
  BY DEF ChargedIn, Pairs
<1>3. /\ IsFiniteSet(S) /\ Cardinality(S) \in Nat
      /\ IsFiniteSet(T) /\ Cardinality(T) = Duration(rows2[a])
      /\ Duration(rows2[a]) \in Nat
  BY ChargedFinite, PairsSize, DurationType DEF ChargedIn
<1>4. Cardinality(S \cup T) = Cardinality(S) + Cardinality(T) - Cardinality({})
  BY <1>2, <1>3, FS_Union
<1>5. QED
  BY <1>1, <1>3, <1>4, FS_EmptySet

-----------------------------------------------------------------------------
(* The books, step by step *)

\* A review that writes on what it read keeps the books: it moves days
\* between the balance and the charged days, or touches neither.
LEMMA ReviewKeepsBooks ==
  ASSUME IInv, SInv, NEW w \in Workers, ReviewWrite(w)
  PROVE  BalanceAccounts'
<1> USE DEF IInv, TypeOK
<1> DEFINE id == job[w].id
           before == Cardinality(ChargedDays)
           after == Cardinality(ChargedIn(applications', types))
           days == Duration(applications[id])
<1>1. job[w] \in Job /\ job[w].at = "review.write"
  BY DEF ReviewWrite, At
<1>2. id \in Ids /\ job[w].say \in {"APPROVED", "REJECTED"}
  BY <1>1 DEF WorkersRemember, Remembers, InStatus
<1>3. /\ applications[id].status = job[w].old
      /\ types[applications[id].type].paid = job[w].pays
      /\ job[w].seen + before >= Total
      /\ now <= YearEnd => job[w].seen = remain
  BY <1>1 DEF SInv, NothingDisturbed, Undisturbed, At
<1>4. /\ types' = types /\ now' = now /\ remain' = Balance(job[w])
      /\ applications' = [applications EXCEPT ![id].status = job[w].say]
  BY DEF ReviewWrite
<1>5. /\ applications'[id].status = job[w].say
      /\ applications'[id].from = applications[id].from
      /\ applications'[id].to = applications[id].to
      /\ applications'[id].type = applications[id].type
      /\ \A b \in Ids \ {id} : applications'[b] = applications[b]
  BY <1>2, <1>4 DEF Application
<1>6. Duration(applications'[id]) = days /\ BusinessDays(applications'[id]) = BusinessDays(applications[id])
  BY <1>5, SameDuration
<1>7. before \in Nat /\ after \in Nat /\ days \in Nat /\ job[w].seen \in Int /\ remain \in Int
      /\ now \in Int /\ YearEnd \in Int /\ Total \in Int
  <2>1. before = Cardinality(ChargedIn(applications, types))
    BY ChargedInIs
  <2>2. after \in Nat
    BY ChargedFinite DEF ChargedIn
  <2>3. QED
    BY <1>1, <2>2, ChargedType, DurationType, DaysAssumption DEF Job
<1>8. before = Cardinality(ChargedIn(applications, types)) /\ Cardinality(ChargedDays') = after
  BY <1>4, ChargedInIs
<1>9. Balance(job[w]) = IF job[w].pays /\ Deducts(job[w].old, job[w].say)
                        THEN job[w].seen - days
                        ELSE IF job[w].pays /\ Refunds(job[w].old, job[w].say)
                        THEN job[w].seen + days
                        ELSE remain
  BY DEF Balance
<1>10. /\ Charged(applications, types, id) <=> job[w].old = "APPROVED" /\ job[w].pays
       /\ Charged(applications', types, id) <=> job[w].say = "APPROVED" /\ job[w].pays
  BY <1>3, <1>5 DEF Charged
<1>11. CASE job[w].pays /\ Deducts(job[w].old, job[w].say)
  <2>1. after = before + days
    BY <1>2, <1>5, <1>6, <1>8, <1>10, <1>11, OneMoreCharged DEF Deducts
  <2>2. remain' = job[w].seen - days
    BY <1>4, <1>9, <1>11
  <2>3. QED
    BY <2>1, <2>2, <1>3, <1>4, <1>7, <1>8 DEF SInv, BalanceAccounts
<1>12. CASE job[w].pays /\ Refunds(job[w].old, job[w].say)
  <2>1. before = after + days
    BY <1>2, <1>5, <1>8, <1>10, <1>12, OneMoreCharged DEF Refunds
  <2>2. remain' = job[w].seen + days
    BY <1>4, <1>9, <1>12 DEF Deducts, Refunds
  <2>3. QED
    BY <2>1, <2>2, <1>3, <1>4, <1>7, <1>8 DEF SInv, BalanceAccounts
<1>13. CASE ~ (job[w].pays /\ Deducts(job[w].old, job[w].say))
            /\ ~ (job[w].pays /\ Refunds(job[w].old, job[w].say))
  <2>1. \A b \in Ids : /\ Charged(applications, types, b) = Charged(applications', types, b)
                       /\ Pairs(applications, b) = Pairs(applications', b)
    BY <1>5, <1>6, <1>10, <1>13 DEF Charged, Pairs, Deducts, Refunds
  <2>2. after = before
    BY <2>1, <1>8, SameCharged
  <2>3. remain' = remain
    BY <1>4, <1>9, <1>13
  <2>4. QED
    BY <2>2, <2>3, <1>4, <1>7, <1>8 DEF SInv, BalanceAccounts
<1>14. QED
  BY <1>11, <1>12, <1>13

\* The other steps leave the charged days alone.
LEMMA OthersChargeNothing ==
  ASSUME EditedTypes = {}, IInv, SInv, [Next]_vars, \A w \in Workers : ~ ReviewWrite(w)
  PROVE  ChargedDays' = ChargedDays
<1> USE DEF IInv, TypeOK
<1>1. types' = types
  BY DEF Next, Step, NextDay, AnnualReset, EditType, Abort, Apply, ApplyType, ApplyLook,
     ApplyWrite, ReviewRead, ReviewBalance, ExpireDaily, ExpireAtStartup, ExpireList,
     ExpireWrite, vars
<1>2. \A a \in Ids : \/ applications'[a] = applications[a]
                     \/ /\ applications[a].status # "APPROVED"
                        /\ applications'[a].status # "APPROVED"
  <2>1. ASSUME NEW w \in Workers, ApplyWrite(w), NEW a \in Ids
        PROVE  \/ applications'[a] = applications[a]
               \/ /\ applications[a].status # "APPROVED"
                  /\ applications'[a].status # "APPROVED"
    <3>1. job[w].what.status = "PENDING"
      BY <2>1 DEF ApplyWrite, At, WorkersRemember, Remembers
    <3>2. QED
      BY <2>1, <3>1 DEF ApplyWrite, InStatus
  <2>2. ASSUME NEW w \in Workers, ExpireWrite(w), NEW a \in Ids
        PROVE  \/ applications'[a] = applications[a]
               \/ /\ applications[a].status # "APPROVED"
                  /\ applications'[a].status # "APPROVED"
    <3>1. job[w].list \subseteq InStatus({"PENDING"})
      BY <2>2 DEF ExpireWrite, At, SInv, NothingDisturbed, Undisturbed
    <3>2. [applications[a] EXCEPT !.status = "CANCELLED"].status = "CANCELLED"
      BY DEF Application
    <3>3. a \in job[w].list => applications'[a].status = "CANCELLED"
      BY <2>2, <3>2 DEF ExpireWrite
    <3>4. QED
      BY <2>2, <3>1, <3>3 DEF ExpireWrite, InStatus
  <2>3. CASE UNCHANGED applications
    BY <2>3
  <2>4. QED
    BY <2>1, <2>2, <2>3 DEF Next, Step, NextDay, AnnualReset, EditType, Abort, Apply,
       ApplyType, ApplyLook, ReviewRead, ReviewBalance, ExpireDaily, ExpireAtStartup,
       ExpireList, vars
<1>3. \A a \in Ids :
        /\ Charged(applications, types, a) = Charged(applications', types, a)
        /\ Charged(applications, types, a) => Pairs(applications, a) = Pairs(applications', a)
  BY <1>2 DEF Charged, Pairs
<1>4. ChargedIn(applications, types) = ChargedIn(applications', types)
  BY <1>3, SameCharged
<1>5. QED
  BY <1>1, <1>4, ChargedInIs

\* Every step keeps the books.
LEMMA BooksStep ==
  ASSUME EditedTypes = {}, IInv, SInv, [Next]_vars
  PROVE  BalanceAccounts' /\ ResetInNewYear'
<1>1. /\ now \in Int /\ YearEnd \in Int /\ Total \in Int /\ remain \in Int
      /\ Cardinality(ChargedDays) \in Nat
      /\ BalanceAccounts /\ ResetInNewYear
  BY DaysAssumption, ChargedType DEF IInv, TypeOK, SInv
<1>2. ASSUME NEW w \in Workers, ReviewWrite(w) PROVE BalanceAccounts' /\ ResetInNewYear'
  <2>1. BalanceAccounts'
    BY <1>2, ReviewKeepsBooks
  <2>2. ResetInNewYear'
    BY <1>1, <1>2 DEF ReviewWrite, ResetInNewYear
  <2>3. QED
    BY <2>1, <2>2
<1>3. CASE \A w \in Workers : ~ ReviewWrite(w)
  <2>1. ChargedDays' = ChargedDays
    BY <1>3, OthersChargeNothing
  <2>2. CASE NextDay
    <3>1. now' = now + 1 /\ remain' = remain /\ (resetDue' => now = YearEnd)
      BY <2>2 DEF NextDay
    <3>2. QED
      BY <2>1, <3>1, <1>1 DEF BalanceAccounts, ResetInNewYear
  <2>3. CASE AnnualReset
    BY <2>1, <2>3, <1>1 DEF AnnualReset, BalanceAccounts, ResetInNewYear
  <2>4. CASE UNCHANGED <<now, remain, resetDue>>
    BY <2>1, <2>4, <1>1 DEF BalanceAccounts, ResetInNewYear
  <2>5. QED
    BY <1>3, <2>2, <2>3, <2>4 DEF Next, Step, EditType, Abort, Apply, ApplyType,
       ApplyLook, ApplyWrite, ReviewRead, ReviewBalance, ExpireDaily, ExpireAtStartup,
       ExpireList, ExpireWrite, vars
<1>4. QED
  BY <1>2, <1>3

-----------------------------------------------------------------------------
(* No two applications wait for the same day *)

\* Intervals that do not overlap have no day in common.
LEMMA OverlapMeets ==
  ASSUME NEW a, NEW b, a.from \in Int, a.to \in Int, b.from \in Int, b.to \in Int,
         ~ Overlap(a, b) \/ ~ Overlap(b, a)
  PROVE  (a.from .. a.to) \cap (b.from .. b.to) = {}
BY DEF Overlap

\* The creation adds an application that no pending one overlaps, and nothing
\* else makes an application pending.
LEMMA DisjointStep ==
  ASSUME IInv, SInv, [Next]_vars
  PROVE  PendingDisjoint'
<1> USE DEF IInv, TypeOK
<1>1. \A a \in Ids : applications[a].from \in Int /\ applications[a].to \in Int
  BY DaysAssumption DEF Application, Days
<1>2. ASSUME \A a \in Ids : \/ applications'[a] = applications[a]
                            \/ applications'[a].status # "PENDING"
      PROVE  PendingDisjoint'
  BY <1>2 DEF SInv, PendingDisjoint, InStatus, DaysOff
<1>3. ASSUME NEW w \in Workers, ApplyWrite(w) PROVE PendingDisjoint'
  <2>1. job[w] \in Job /\ job[w].at = "apply.write"
    BY <1>3 DEF ApplyWrite, At
  <2>2. \A b \in InStatus({"PENDING"}) : ~Overlap(applications[b], job[w].what)
    BY <2>1 DEF SInv, NothingDisturbed, Undisturbed, At
  <2>3. PICK a \in Ids : applications' = [applications EXCEPT ![a] = job[w].what]
    BY <1>3 DEF ApplyWrite, InStatus
  <2>4. applications'[a] = job[w].what /\ \A b \in Ids \ {a} : applications'[b] = applications[b]
    BY <2>3
  <2>5. job[w].what.from \in Int /\ job[w].what.to \in Int
    BY <2>1, DaysAssumption DEF Job, Application, Days
  <2>6. ASSUME NEW b \in InStatus({"PENDING"})
        PROVE  (applications[b].from .. applications[b].to)
                 \cap (job[w].what.from .. job[w].what.to) = {}
    <3>1. b \in Ids
      BY DEF InStatus
    <3>2. QED
      BY <1>1, <2>2, <2>5, <3>1, OverlapMeets
  <2>7. SUFFICES ASSUME NEW b \in InStatus({"PENDING"})', NEW c \in InStatus({"PENDING"})', b # c
                 PROVE  (applications'[b].from .. applications'[b].to)
                          \cap (applications'[c].from .. applications'[c].to) = {}
    BY DEF PendingDisjoint, DaysOff
  <2>8. b \in Ids /\ c \in Ids
    BY DEF InStatus
  <2>9. CASE b # a /\ c # a
    BY <2>4, <2>7, <2>8, <2>9 DEF SInv, PendingDisjoint, InStatus, DaysOff
  <2>10. CASE b = a
    <3>1. c \in InStatus({"PENDING"})
      BY <2>4, <2>7, <2>8, <2>10 DEF InStatus
    <3>2. QED
      BY <2>4, <2>6, <2>7, <2>8, <2>10, <3>1
  <2>11. CASE c = a
    <3>1. b \in InStatus({"PENDING"})
      BY <2>4, <2>7, <2>8, <2>11 DEF InStatus
    <3>2. QED
      BY <2>4, <2>6, <2>7, <2>8, <2>11, <3>1
  <2>12. QED
    BY <2>9, <2>10, <2>11
<1>4. ASSUME NEW w \in Workers, ReviewWrite(w), NEW a \in Ids
      PROVE  applications'[a] = applications[a] \/ applications'[a].status # "PENDING"
  <2>1. job[w].say # "PENDING"
    BY <1>4 DEF ReviewWrite, WorkersRemember, Remembers, At
  <2>2. a = job[w].id => applications'[a].status = job[w].say
    BY <1>4 DEF ReviewWrite, Application
  <2>3. QED
    BY <1>4, <2>1, <2>2 DEF ReviewWrite
<1>5. ASSUME NEW w \in Workers, ExpireWrite(w), NEW a \in Ids
      PROVE  applications'[a] = applications[a] \/ applications'[a].status # "PENDING"
  <2>1. a \in job[w].list => applications'[a].status = "CANCELLED"
    BY <1>5 DEF ExpireWrite, Application
  <2>2. QED
    BY <1>5, <2>1 DEF ExpireWrite
<1>6. CASE UNCHANGED applications
  BY <1>2, <1>6
<1>7. QED
  BY <1>2, <1>3, <1>4, <1>5, <1>6 DEF Next, Step, NextDay, AnnualReset, EditType, Abort,
     Apply, ApplyType, ApplyLook, ReviewRead, ReviewBalance, ExpireDaily, ExpireAtStartup,
     ExpireList, vars

-----------------------------------------------------------------------------
(* Nothing that the worker read has changed *)

\* The steps of the world around the worker disturb nothing that it read.
LEMMA WorldUndisturbed ==
  ASSUME EditedTypes = {}, IInv, SInv, NEW w \in Workers,
         NextDay \/ AnnualReset \/ (\E t \in Types : EditType(t)) \/ UNCHANGED vars
  PROVE  Undisturbed(w)'
<1>1. UNCHANGED <<types, applications, job>>
  BY DEF NextDay, AnnualReset, EditType, vars
<1>2. ChargedDays' = ChargedDays
  BY <1>1 DEF ChargedDays, BusinessDays
<1>3. now \in Int /\ YearEnd \in Int
  BY DaysAssumption DEF IInv, TypeOK
<1>4. now' <= YearEnd => now <= YearEnd /\ remain' = remain
  <2>1. CASE NextDay
    <3>1. now' = now + 1 /\ remain' = remain
      BY <2>1 DEF NextDay
    <3>2. QED
      BY <3>1, <1>3
  <2>2. CASE AnnualReset
    <3>1. now' = now /\ now > YearEnd
      BY <2>2 DEF AnnualReset, SInv, ResetInNewYear
    <3>2. QED
      BY <3>1, <1>3
  <2>3. CASE (\E t \in Types : EditType(t)) \/ UNCHANGED vars
    BY <2>3 DEF EditType, vars
  <2>4. QED
    BY <2>1, <2>2, <2>3
<1>5. QED
  BY <1>1, <1>2, <1>4 DEF SInv, NothingDisturbed, Undisturbed, At, InStatus

\* Nor does a step of the worker itself.
LEMMA WorkerUndisturbed ==
  ASSUME IInv, SInv, NEW w \in Workers, Step(w)
  PROVE  Undisturbed(w)'
<1> USE DEF IInv, TypeOK, Goto
<1> job[w] \in Job
  OBVIOUS
<1>1. ASSUME job'[w].at \in {"idle", "apply.type", "apply.look"} PROVE Undisturbed(w)'
  BY <1>1 DEF Undisturbed, At
<1>2. ASSUME Finish(w) PROVE Undisturbed(w)'
  BY <1>1, <1>2 DEF Finish, Idle
<1>3. CASE Apply(w)
  BY <1>1, <1>3 DEF Apply, Idle
<1>11. CASE ApplyType(w)
  <2>1. CASE Finish(w)
    BY <1>2, <2>1
  <2>2. CASE ~Finish(w)
    <3>1. job'[w].at = "apply.look"
      BY <1>11, <2>2, GoesOn
    <3>2. QED
      BY <1>1, <3>1
  <2>3. QED
    BY <2>1, <2>2
<1>4. CASE ApplyLook(w)
  <2>1. CASE Finish(w)
    BY <1>2, <2>1
  <2>2. CASE ~Finish(w)
    <3> DEFINE next == [job[w] EXCEPT !.at = "apply.write"]
    <3>1. next.at = "apply.write" /\ next.what = job[w].what
      BY DEF Job
    <3>2. /\ job'[w] = next /\ applications' = applications
          /\ \A a \in InStatus({"PENDING", "APPROVED"}) : ~Overlap(applications[a], job[w].what)
      BY <1>4, <2>2 DEF ApplyLook
    <3>3. QED
      BY <3>1, <3>2 DEF Undisturbed, At, InStatus, Overlap
  <2>3. QED
    BY <2>1, <2>2
<1>5. CASE ReviewRead(w)
  <2>1. PICK a \in Ids, verdict \in {"APPROVED", "REJECTED"} :
          job' = [job EXCEPT ![w] = [Idle EXCEPT !.at = "review", !.id = a, !.say = verdict,
                                       !.old = applications[a].status,
                                       !.pays = types[applications[a].type].paid]]
    BY <1>5 DEF ReviewRead, InStatus
  <2>2. /\ job'[w].at = "review" /\ job'[w].id = a
        /\ job'[w].old = applications[a].status
        /\ job'[w].pays = types[applications[a].type].paid
    BY <2>1 DEF Idle
  <2>3. applications' = applications /\ types' = types
    BY <1>5 DEF ReviewRead
  <2>4. QED
    BY <2>2, <2>3 DEF Undisturbed, At
<1>6. CASE ReviewBalance(w)
  <2>1. CASE Finish(w)
    BY <1>2, <2>1
  <2>2. CASE ~Finish(w)
    <3> DEFINE next == [job[w] EXCEPT !.at = "review.write", !.seen = remain]
    <3>1. /\ next.at = "review.write" /\ next.seen = remain
          /\ next.id = job[w].id /\ next.old = job[w].old /\ next.pays = job[w].pays
      BY DEF Job
    <3>2. job'[w] = next /\ UNCHANGED <<now, remain, types, applications>>
      BY <1>6, <2>2 DEF ReviewBalance
    <3>3. /\ applications[job[w].id].status = job[w].old
          /\ types[applications[job[w].id].type].paid = job[w].pays
      BY <1>6 DEF ReviewBalance, SInv, NothingDisturbed, Undisturbed, At
    <3>4. ChargedDays' = ChargedDays
      BY <3>2 DEF ChargedDays, BusinessDays
    <3>5. remain + Cardinality(ChargedDays) >= Total
      BY DEF SInv, BalanceAccounts
    <3>6. QED
      BY <3>1, <3>2, <3>3, <3>4, <3>5 DEF Undisturbed, At
  <2>3. QED
    BY <2>1, <2>2
<1>7. ASSUME NEW cutoff, ExpireList(w, cutoff) PROVE Undisturbed(w)'
  <2> DEFINE expired == {a \in InStatus({"PENDING"}) : applications[a].to <= cutoff}
  <2>1. CASE expired = {}
    <3>1. job'[w].at = "idle"
      BY <1>7, <2>1 DEF ExpireList, At
    <3>2. QED
      BY <1>1, <3>1
  <2>2. CASE expired # {}
    <3>1. job'[w].at = "expire" /\ job'[w].list = expired /\ applications' = applications
      BY <1>7, <2>2 DEF ExpireList, Idle
    <3>2. QED
      BY <3>1 DEF Undisturbed, At, InStatus
  <2>3. QED
    BY <2>1, <2>2
<1>8. CASE ExpireDaily(w) \/ ExpireAtStartup(w)
  BY <1>7, <1>8 DEF ExpireDaily, ExpireAtStartup
<1>9. CASE Abort(w) \/ ApplyWrite(w) \/ ReviewWrite(w) \/ ExpireWrite(w)
  BY <1>2, <1>9 DEF Abort, ApplyWrite, ReviewWrite, ExpireWrite
<1>10. QED
  BY <1>3, <1>4, <1>5, <1>6, <1>8, <1>9, <1>11 DEF Step

-----------------------------------------------------------------------------
(* The theorems *)

\* Every step keeps the invariant of requests handled one at a time.
LEMMA SerialStep ==
  ASSUME OneAtATime, EditedTypes = {}, IInv, SInv, [Next]_vars
  PROVE  SInv'
<1>1. BalanceAccounts' /\ ResetInNewYear' /\ PendingDisjoint'
  BY BooksStep, DisjointStep
<1>2. ASSUME NEW v \in Workers PROVE Undisturbed(v)'
  <2>1. CASE \E w \in Workers : Step(w)
    BY <2>1, WorkerUndisturbed DEF OneAtATime
  <2>2. CASE ~ \E w \in Workers : Step(w)
    BY <2>2, WorldUndisturbed DEF Next
  <2>3. QED
    BY <2>1, <2>2
<1>3. QED
  BY <1>1, <1>2 DEF SInv, NothingDisturbed

\* The invariant, for any working days, any allowance, any number of
\* applications and leave types and any end of the year.
THEOREM Serial ==
  ASSUME OneAtATime, EditedTypes = {}
  PROVE  Spec => [](IInv /\ SInv)
<1>1. Init => SInv
  <2> SUFFICES ASSUME Init PROVE SInv
    OBVIOUS
  <2>1. \A a \in Ids : applications[a].status = "NONE"
    BY DEF Init, Blank
  <2>2. ChargedDays = {}
    BY <2>1 DEF ChargedDays
  <2>3. Cardinality(ChargedDays) = 0
    BY <2>2, FS_EmptySet
  <2>4. BalanceAccounts /\ ResetInNewYear
    BY <2>3, DaysAssumption DEF Init, BalanceAccounts, ResetInNewYear
  <2>5. PendingDisjoint
    BY <2>1 DEF PendingDisjoint, InStatus
  <2>6. NothingDisturbed
    BY DEF Init, NothingDisturbed, Undisturbed, At, Idle
  <2>7. QED
    BY <2>4, <2>5, <2>6 DEF SInv
<1>2. IInv /\ SInv /\ [Next]_vars => SInv'
  BY SerialStep
<1>3. QED
  BY <1>1, <1>2, Concurrent, PTL DEF Spec

\* Handled one at a time, the balance and the approved days add up to the
\* yearly allowance.
THEOREM BooksBalance ==
  ASSUME OneAtATime, EditedTypes = {}
  PROVE  Spec => []BalanceAccounts
<1>1. SInv => BalanceAccounts
  BY DEF SInv
<1>2. QED
  BY <1>1, Serial, PTL

\* Handled one at a time, no two applications wait for the same day.
THEOREM PendingStaysDisjoint ==
  ASSUME OneAtATime, EditedTypes = {}
  PROVE  Spec => []PendingDisjoint
<1>1. SInv => PendingDisjoint
  BY DEF SInv
<1>2. QED
  BY <1>1, Serial, PTL
=============================================================================

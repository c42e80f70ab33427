--------------------------- MODULE OrgChartProofs ---------------------------
(* Theorems about OrgChart and Access for every set of people, departments,  *)
(* workers, every seed that satisfies SeedAssumption and every   *)
(* number of requests, and that Access implements OrgChart.                  *)
EXTENDS Access, TLAPS

-----------------------------------------------------------------------------
(* Type correctness *)

\* What a worker has in hand names what its step needs.
InHand(w) ==
    /\ At(w, "import") => job[w].rest # <<>>
    /\ At(w, "appoint") => job[w].held \in Depts
    /\ job[w].at \in {"update", "update.write", "create"} => job[w].who \in Users
    /\ At(w, "update.write") /\ job[w].to.role = "manager" => job[w].to.dept # None

Held == TypeOK /\ PlacesExist /\ \A w \in Workers : InHand(w)

\* Handing over a seat keeps every row a row.
LEMMA TransferType ==
  ASSUME NEW users \in [Users -> Place], NEW d \in Depts, NEW old, NEW new
  PROVE  /\ Transfer(users, d, old, new) \in [Users -> Place]
         /\ \A u \in Users :
              LET new_row == Transfer(users, d, old, new)[u]
              IN /\ u = new => new_row.role = "manager" /\ new_row.dept = d
                 /\ u # new /\ u = old =>
                      new_row.role = "employee" /\ new_row.dept = users[u].dept
                 /\ u # new /\ u # old => new_row = users[u]
<1>1. ASSUME NEW u \in Users
      PROVE  /\ Transfer(users, d, old, new)[u] =
                  IF u = new THEN [role |-> "manager", dept |-> d]
                  ELSE IF u = old THEN [users[u] EXCEPT !.role = "employee"]
                  ELSE users[u]
             /\ Transfer(users, d, old, new)[u] \in Place
             /\ users[u] \in Place
  <2>1. users[u] \in Place /\ [users[u] EXCEPT !.role = "employee"] \in Place
    BY DEF Place, Roles
  <2>2. [role |-> "manager", dept |-> d] \in Place
    BY DEF Place, Roles
  <2>3. Transfer(users, d, old, new)[u] =
                  IF u = new THEN [role |-> "manager", dept |-> d]
                  ELSE IF u = old THEN [users[u] EXCEPT !.role = "employee"]
                  ELSE users[u]
    BY DEF Transfer
  <2>4. QED
    BY <2>1, <2>2, <2>3
<1>2. Transfer(users, d, old, new) \in [Users -> Place]
  BY <1>1 DEF Transfer
<1>3. QED
  BY <1>1, <1>2 DEF Place

\* A role and a department make a place.
LEMMA PlaceType ==
  ASSUME TypeOK
  PROVE  /\ \A role \in Roles, d \in known \cup {None} : [role |-> role, dept |-> d] \in Place
         /\ \A u \in Users : user[u] \in Place
         /\ \A d \in known \cup {None} : d \in Depts \cup {None}
         /\ \A d \in known \cup Depts : seat[d] \in Users \cup {None}
BY DEF TypeOK, Place

\* The idle worker is well-typed.
LEMMA IdleType == Idle \in Job /\ Idle.at = "idle" /\ Idle.rest = <<>>
BY DEF Idle, Job, Absent, Place, Roles

\* What a worker does next is well-typed when its request ends.
LEMMA FinishType ==
  ASSUME TypeOK, NEW w \in Workers, Finish(w)
  PROVE  /\ job' \in [Workers -> Job]
         /\ job'[w].at \in {"idle", "import"}
         /\ job'[w].at = "import" => job'[w].rest # <<>>
         /\ \A x \in Workers \ {w} : job'[x] = job[x]
<1>1. job[w] \in Job
  BY DEF TypeOK
<1>2. CASE job[w].rest = <<>>
  BY <1>2, IdleType DEF Finish, Goto, TypeOK
<1>3. CASE job[w].rest # <<>>
  <2> DEFINE next == [Idle EXCEPT !.at = "import", !.rest = job[w].rest]
  <2>1. next \in Job /\ next.at = "import" /\ next.rest = job[w].rest
    BY <1>1 DEF Idle, Job, Absent, Place, Roles
  <2>2. job' = [job EXCEPT ![w] = next]
    BY <1>3 DEF Finish, Goto
  <2> QED
    BY <1>3, <2>1, <2>2 DEF TypeOK
<1>4. QED
  BY <1>2, <1>3

\* A step of a worker that gives it a well-typed job keeps the others' jobs.
LEMMA GotoType ==
  ASSUME TypeOK, NEW w \in Workers, NEW next \in Job, Goto(w, next)
  PROVE  /\ job' \in [Workers -> Job]
         /\ job'[w] = next
         /\ \A x \in Workers \ {w} : job'[x] = job[x]
BY DEF Goto, TypeOK

\* The seed is well-typed.
LEMMA HeldInit == Init => Held
<1> SUFFICES ASSUME Init PROVE Held
  OBVIOUS
<1>1. TypeOK
  BY SeedAssumption, IdleType DEF Init, TypeOK
<1>2. PlacesExist
  BY SeedAssumption DEF Init, PlacesExist
<1>3. \A w \in Workers : InHand(w)
  BY IdleType DEF Init, InHand, At
<1>4. QED
  BY <1>1, <1>2, <1>3 DEF Held

\* A worker whose job and whose tables are as before has in hand what it had.
LEMMA InHandFrame ==
  ASSUME NEW x \in Workers, InHand(x), job'[x] = job[x]
  PROVE  InHand(x)'
BY DEF InHand, At

\* The arrival of a request keeps the types of the counter and the histories.
LEMMA ArriveType ==
  ASSUME TypeOK, NEW b \in BOOLEAN, Arrive(b)
  PROVE  count' \in Nat /\ drift' \in BOOLEAN /\ raced' \in BOOLEAN
<1>1. count' \in Nat
  BY DEF Arrive, TypeOK
<1>2. drift' = (drift \/ b) /\ raced' = (raced \/ Busy # {})
  BY DEF Arrive, Overlap
<1>3. QED
  BY <1>1, <1>2 DEF TypeOK

\* Every step of a worker keeps what Held says.
LEMMA WorkHeld ==
  ASSUME Held, NEW w \in Workers, Work(w)
  PROVE  Held'
<1> USE DEF Held
<1>0. /\ job[w] \in Job /\ InHand(w)
      /\ \A x \in Workers : InHand(x)
  BY DEF TypeOK
<1>1. CASE Abort(w)
  <2>1. Goto(w, Idle) /\ UNCHANGED <<user, seat, known, count, drift, raced>>
    BY <1>1 DEF Abort
  <2>2. /\ job' \in [Workers -> Job] /\ job'[w] = Idle
        /\ \A x \in Workers \ {w} : job'[x] = job[x]
    BY <2>1, GotoType, IdleType
  <2>3. InHand(w)'
    BY <2>2, IdleType DEF InHand, At
  <2>4. QED
    BY <1>0, <2>1, <2>2, <2>3, InHandFrame DEF TypeOK, PlacesExist
<1>2. CASE Edit(w)
  <2>1. PICK u \in Users, role \in Roles, d \in known :
          /\ Arrive(Strays(u, [role |-> role, dept |-> d]))
          /\ Goto(w, [Idle EXCEPT !.at = "update", !.op = "edit", !.who = u,
                                  !.to = [role |-> role, dept |-> d]])
    BY <1>2 DEF Edit, FormValue, BackendRole, Roles
  <2> DEFINE next == [Idle EXCEPT !.at = "update", !.op = "edit", !.who = u,
                                  !.to = [role |-> role, dept |-> d]]
  <2>2. next \in Job /\ next.at = "update" /\ next.who = u
    BY IdleType, PlaceType DEF Job, TypeOK
  <2>3. /\ job' \in [Workers -> Job] /\ job'[w] = next
        /\ \A x \in Workers \ {w} : job'[x] = job[x]
    BY <2>1, <2>2, GotoType
  <2>4. InHand(w)'
    BY <2>2, <2>3 DEF InHand, At
  <2>5. Strays(u, [role |-> role, dept |-> d]) \in BOOLEAN
    BY DEF Strays
  <2>6. count' \in Nat /\ drift' \in BOOLEAN /\ raced' \in BOOLEAN
    BY <2>1, <2>5, ArriveType
  <2>7. UNCHANGED <<user, seat, known>>
    BY <1>2 DEF Edit, FormValue, BackendRole, Roles
  <2>8. QED
    BY <1>0, <2>3, <2>4, <2>6, <2>7, InHandFrame DEF TypeOK, PlacesExist
<1>3. CASE Sign(w)
  <2>1. PICK u \in Users :
          Goto(w, [Idle EXCEPT !.at = "update", !.op = "sign", !.who = u, !.to = user[u]])
    BY <1>3 DEF Sign
  <2> DEFINE next == [Idle EXCEPT !.at = "update", !.op = "sign", !.who = u, !.to = user[u]]
  <2>2. next \in Job /\ next.at = "update" /\ next.who = u
    BY IdleType, PlaceType DEF Job, TypeOK
  <2>3. /\ job' \in [Workers -> Job] /\ job'[w] = next
        /\ \A x \in Workers \ {w} : job'[x] = job[x]
    BY <2>1, <2>2, GotoType
  <2>4. InHand(w)'
    BY <2>2, <2>3 DEF InHand, At
  <2>5. raced' = (raced \/ Busy # {})
    BY <1>3 DEF Sign, Overlap
  <2>6. raced' \in BOOLEAN
    BY <2>5 DEF TypeOK
  <2>7. UNCHANGED <<user, seat, known, count, drift>>
    BY <1>3 DEF Sign
  <2>8. QED
    BY <1>0, <2>3, <2>4, <2>6, <2>7, InHandFrame DEF TypeOK, PlacesExist
<1>4. CASE UpdateBegin(w)
  <2> DEFINE u == job[w].who
             to == job[w].to
  <2>1. PICK held \in IF Leads(u) = {} THEN {None} ELSE Leads(u) :
          Goto(w, [job[w] EXCEPT !.at = "update.write", !.held = held,
                     !.seen = IF to.role = "manager" THEN seat[to.dept] ELSE None])
    BY <1>4 DEF UpdateBegin
  <2> DEFINE next == [job[w] EXCEPT !.at = "update.write", !.held = held,
                        !.seen = IF to.role = "manager" THEN seat[to.dept] ELSE None]
  <2>2. to \in Place /\ u \in Users /\ held \in Depts \cup {None}
    BY <1>0, <1>4 DEF UpdateBegin, At, InHand, Leads, Job
  <2>3. to.role = "manager" => to.dept # None /\ seat[to.dept] \in Users \cup {None}
    BY <1>4, <2>2 DEF UpdateBegin, TypeOK, Place
  <2>4. next \in Job /\ next.at = "update.write" /\ next.who = u /\ next.to = to
    BY <1>0, <2>2, <2>3 DEF Job
  <2>5. /\ job' \in [Workers -> Job] /\ job'[w] = next
        /\ \A x \in Workers \ {w} : job'[x] = job[x]
    BY <2>1, <2>4, GotoType
  <2>6. InHand(w)'
    BY <2>2, <2>3, <2>4, <2>5 DEF InHand, At
  <2>7. UNCHANGED <<user, seat, known, count, drift, raced>>
    BY <1>4 DEF UpdateBegin
  <2>8. QED
    BY <1>0, <2>5, <2>6, <2>7, InHandFrame DEF TypeOK, PlacesExist
<1>5. CASE UpdateWrite(w)
  <2> DEFINE u == job[w].who
             to == job[w].to
             held == job[w].held
  <2>1. /\ to \in Place /\ to.dept \in known \cup {None} /\ held \in Depts \cup {None}
        /\ u \in Users /\ (to.role = "manager" => to.dept # None)
    BY <1>0, <1>5 DEF UpdateWrite, At, InHand, Job
  <2>2. /\ Finish(w) /\ UNCHANGED <<known, count, drift, raced>>
        /\ seat' = IF Vacates(to, held) THEN [seat EXCEPT ![held] = None] ELSE seat
        /\ user' = IF to.role = "manager" THEN Transfer(user, to.dept, job[w].seen, u)
                                          ELSE [user EXCEPT ![u] = to]
    BY <1>5 DEF UpdateWrite
  <2>3. known \subseteq Depts /\ None \notin known
    BY NoneAssumption DEF TypeOK
  <2>4. seat' \in [Depts -> Users \cup {None}]
    BY <2>1, <2>2 DEF TypeOK
  <2>5. user' \in [Users -> Place] /\ PlacesExist'
    <3>1. CASE to.role = "manager"
      <4>1. to.dept \in known
        BY <2>1, <3>1
      <4>2. user' = Transfer(user, to.dept, job[w].seen, u)
        BY <2>2, <3>1
      <4>3. user \in [Users -> Place] /\ to.dept \in Depts /\ known' = known
        BY <2>2, <2>3, <4>1 DEF TypeOK
      <4>4. QED
        BY <2>3, <4>1, <4>2, <4>3, TransferType DEF PlacesExist
    <3>2. CASE to.role # "manager"
      <4>1. user' = [user EXCEPT ![u] = to]
        BY <2>2, <3>2
      <4>2. QED
        BY <2>1, <2>2, <3>2, <4>1 DEF TypeOK, PlacesExist
    <3>3. QED
      BY <3>1, <3>2
  <2>6. QED
    BY <1>0, <2>2, <2>4, <2>5, FinishType, InHandFrame DEF TypeOK, InHand, At
<1>6. CASE Create(w)
  <2>1. PICK u \in Users, role \in Roles, d \in known \cup {None} :
          /\ Arrive(FALSE)
          /\ Goto(w, [Idle EXCEPT !.at = "create", !.op = "create", !.who = u,
                                  !.to = [role |-> role, dept |-> d],
                                  !.seen = IF d = None THEN None ELSE seat[d]])
    BY <1>6 DEF Create
  <2> DEFINE next == [Idle EXCEPT !.at = "create", !.op = "create", !.who = u,
                                  !.to = [role |-> role, dept |-> d],
                                  !.seen = IF d = None THEN None ELSE seat[d]]
  <2>2. /\ next \in Job /\ next.at = "create" /\ next.who = u
        /\ next.to.role = role /\ next.to.dept = d
    BY IdleType, PlaceType DEF Job, TypeOK
  <2>3. /\ job' \in [Workers -> Job] /\ job'[w] = next
        /\ \A x \in Workers \ {w} : job'[x] = job[x]
    BY <2>1, <2>2, GotoType
  <2>4. InHand(w)'
    BY <2>1, <2>2, <2>3 DEF InHand, At
  <2>5. count' \in Nat /\ drift' \in BOOLEAN /\ raced' \in BOOLEAN
    BY <2>1, ArriveType
  <2>6. UNCHANGED <<user, seat, known>>
    BY <1>6 DEF Create
  <2>7. QED
    BY <1>0, <2>3, <2>4, <2>5, <2>6, InHandFrame DEF TypeOK, PlacesExist
<1>7. CASE CreateWrite(w)
  <2> DEFINE u == job[w].who
             to == job[w].to
  <2>1. to \in Place /\ u \in Users
    BY <1>0, <1>7 DEF CreateWrite, At, InHand, Job
  <2>2. Finish(w) /\ UNCHANGED <<known, count, drift, raced>>
    BY <1>7 DEF CreateWrite
  <2>3. known \subseteq Depts /\ None \notin known
    BY NoneAssumption DEF TypeOK
  <2>4. /\ user' \in [Users -> Place] /\ PlacesExist'
        /\ seat' \in [Depts -> Users \cup {None}]
    <3>1. CASE UNCHANGED <<user, seat>>
      BY <2>2, <3>1 DEF TypeOK, PlacesExist
    <3>2. CASE /\ to.dept \in known /\ to.role = "manager"
               /\ user' = Transfer(user, to.dept, job[w].seen, u)
               /\ seat' = [seat EXCEPT ![to.dept] = u]
      <4>1. seat' \in [Depts -> Users \cup {None}]
        BY <2>1, <2>3, <3>2 DEF TypeOK
      <4>2. QED
        BY <2>2, <2>3, <3>2, <4>1, TransferType DEF TypeOK, PlacesExist
    <3>3. CASE /\ to.dept \in known \cup {None}
               /\ user' = [user EXCEPT ![u] = to] /\ seat' = seat
      BY <2>1, <2>2, <3>3 DEF TypeOK, PlacesExist
    <3>4. QED
      BY <1>7, <2>1, <3>1, <3>2, <3>3 DEF CreateWrite
  <2>5. QED
    BY <1>0, <2>2, <2>4, FinishType, InHandFrame DEF TypeOK, InHand, At
<1>8. CASE Import(w)
  <2>1. PICK u, v \in Users, ru, rv \in Roles, du, dv \in known :
          /\ Arrive(FALSE)
          /\ Goto(w, [Idle EXCEPT !.at = "import",
                        !.rest = <<<<u, [role |-> ru, dept |-> du]>>,
                                   <<v, [role |-> rv, dept |-> dv]>>>>])
    BY <1>8 DEF Import, Newcomers
  <2> DEFINE rows == <<<<u, [role |-> ru, dept |-> du]>>, <<v, [role |-> rv, dept |-> dv]>>>>
             next == [Idle EXCEPT !.at = "import", !.rest = rows]
  <2>2. rows \in Seq(Users \X Post) /\ rows # <<>>
    <3>1. <<u, [role |-> ru, dept |-> du]>> \in Users \X Post
      BY DEF TypeOK, Post
    <3>2. <<v, [role |-> rv, dept |-> dv]>> \in Users \X Post
      BY DEF TypeOK, Post
    <3>3. QED
      BY <3>1, <3>2
  <2>3. next \in Job /\ next.at = "import" /\ next.rest = rows
    <3> HIDE DEF rows
    <3> QED
      BY <2>2 DEF Idle, Job, Absent, Place, Roles
  <2>4. /\ job' \in [Workers -> Job] /\ job'[w] = next
        /\ \A x \in Workers \ {w} : job'[x] = job[x]
    BY <2>1, <2>3, GotoType
  <2>5. InHand(w)'
    <3> HIDE DEF rows
    <3> QED
      BY <2>2, <2>3, <2>4 DEF InHand, At
  <2>6. count' \in Nat /\ drift' \in BOOLEAN /\ raced' \in BOOLEAN
    BY <2>1, ArriveType
  <2>7. UNCHANGED <<user, seat, known>>
    BY <1>8 DEF Import
  <2>8. QED
    <3> HIDE DEF next
    <3> QED
      BY <1>0, <2>4, <2>5, <2>6, <2>7, InHandFrame DEF TypeOK, PlacesExist
<1>9. CASE ImportRow(w)
  <2> DEFINE row == Head(job[w].rest)
             rest == Tail(job[w].rest)
             create == [Idle EXCEPT !.at = "create", !.op = "create", !.who = row[1],
                                    !.to = row[2], !.seen = seat[row[2].dept], !.rest = rest]
             skip == [job[w] EXCEPT !.rest = rest]
  <2>1. row \in Users \X Post /\ rest \in Seq(Users \X Post)
    BY <1>0, <1>9 DEF ImportRow, InHand, At, Job
  <2>2. UNCHANGED <<user, seat, known, count, drift, raced>>
    BY <1>9 DEF ImportRow
  <2>3. known \subseteq Depts /\ None \notin known
    BY NoneAssumption DEF TypeOK
  <2>4. CASE row[2].dept \in known /\ Goto(w, create)
    <3>1. row[1] \in Users /\ row[2] \in Place /\ seat[row[2].dept] \in Users \cup {None}
      BY <2>1, <2>3, <2>4 DEF TypeOK, Post, Place
    <3>2. create \in Job /\ create.at = "create" /\ create.who = row[1] /\ create.to = row[2]
      <4> HIDE DEF row, rest
      <4> QED
        BY <2>1, <3>1 DEF Idle, Job, Absent
    <3>3. /\ job' \in [Workers -> Job] /\ job'[w] = create
          /\ \A x \in Workers \ {w} : job'[x] = job[x]
      BY <2>4, <3>2, GotoType
    <3>4. InHand(w)'
      <4> HIDE DEF create
      <4> QED
        BY <2>3, <2>4, <3>1, <3>2, <3>3 DEF InHand, At
    <3>5. QED
      BY <1>0, <2>2, <3>3, <3>4, InHandFrame DEF TypeOK, PlacesExist
  <2>5. CASE Goto(w, IF rest = <<>> THEN Idle ELSE skip)
    <3>1. skip \in Job /\ skip.at = "import" /\ skip.rest = rest
      BY <1>0, <1>9, <2>1 DEF Job, ImportRow, At
    <3>2. (IF rest = <<>> THEN Idle ELSE skip) \in Job
      BY <3>1, IdleType
    <3>3. /\ job' \in [Workers -> Job] /\ job'[w] = (IF rest = <<>> THEN Idle ELSE skip)
          /\ \A x \in Workers \ {w} : job'[x] = job[x]
      BY <2>5, <3>2, GotoType
    <3>4. InHand(w)'
      BY <3>1, <3>3, IdleType DEF InHand, At
    <3>5. QED
      BY <1>0, <2>2, <3>3, <3>4, InHandFrame DEF TypeOK, PlacesExist
  <2>6. QED
    BY <1>9, <2>4, <2>5 DEF ImportRow
<1>10. CASE Appoint(w)
  <2>1. PICK d \in Depts, m \in Users \cup {None} :
          /\ Arrive(m # None /\ Leads(m) \ {d} # {})
          /\ Goto(w, [Idle EXCEPT !.at = "appoint", !.who = m, !.held = d, !.seen = seat[d],
                                  !.op = IF d \in known THEN "appoint" ELSE "found"])
    BY <1>10 DEF Appoint
  <2> DEFINE next == [Idle EXCEPT !.at = "appoint", !.who = m, !.held = d, !.seen = seat[d],
                                  !.op = IF d \in known THEN "appoint" ELSE "found"]
  <2>2. next \in Job /\ next.at = "appoint" /\ next.held = d
    <3>1. seat[d] \in Users \cup {None}
      BY PlaceType
    <3>2. QED
      BY <3>1, IdleType DEF Job
  <2>3. /\ job' \in [Workers -> Job] /\ job'[w] = next
        /\ \A x \in Workers \ {w} : job'[x] = job[x]
    BY <2>1, <2>2, GotoType
  <2>4. InHand(w)'
    BY <2>2, <2>3 DEF InHand, At
  <2>5. count' \in Nat /\ drift' \in BOOLEAN /\ raced' \in BOOLEAN
    BY <2>1, ArriveType
  <2>6. UNCHANGED <<user, seat, known>>
    BY <1>10 DEF Appoint
  <2>7. QED
    BY <1>0, <2>3, <2>4, <2>5, <2>6, InHandFrame DEF TypeOK, PlacesExist
<1>11. CASE AppointWrite(w)
  <2> DEFINE m == job[w].who
             d == job[w].held
  <2>1. d \in Depts /\ m \in Users \cup {None} /\ d # None
    BY <1>0, <1>11, NoneAssumption DEF AppointWrite, At, InHand, Job
  <2>2. /\ Finish(w) /\ UNCHANGED <<count, drift, raced>>
        /\ known' = known \cup {d} /\ seat' = [seat EXCEPT ![d] = m]
        /\ user' = user \/ user' = Transfer(user, d, job[w].seen, m)
    BY <1>11 DEF AppointWrite
  <2>3. seat' \in [Depts -> Users \cup {None}] /\ known' \subseteq Depts
    BY <2>1, <2>2 DEF TypeOK
  <2>4. CASE user' = user
    BY <1>0, <2>2, <2>3, <2>4, FinishType, InHandFrame DEF TypeOK, InHand, At, PlacesExist
  <2>5. CASE user' = Transfer(user, d, job[w].seen, m)
    <3>1. user' \in [Users -> Place] /\ PlacesExist'
      BY <2>1, <2>2, <2>5, TransferType DEF TypeOK, PlacesExist
    <3>2. QED
      BY <1>0, <2>2, <2>3, <3>1, FinishType, InHandFrame DEF TypeOK, InHand, At
  <2>6. QED
    BY <2>2, <2>4, <2>5
<1>12. QED
  BY <1>1, <1>2, <1>3, <1>4, <1>5, <1>6, <1>7, <1>8, <1>9, <1>10, <1>11 DEF Work

\* Every step keeps what Held says.
LEMMA HeldStep == Held /\ [Next]_vars => Held'
<1> SUFFICES ASSUME Held, [Next]_vars PROVE Held'
  OBVIOUS
<1>1. CASE DeleteDepartment
  <2>1. PICK d \in known :
          /\ \A u \in Users : user[u].dept # d
          /\ Arrive(FALSE)
          /\ known' = known \ {d} /\ seat' = [seat EXCEPT ![d] = None]
          /\ UNCHANGED <<user, job>>
    BY <1>1 DEF DeleteDepartment
  <2>2. count' \in Nat /\ drift' \in BOOLEAN /\ raced' \in BOOLEAN
    BY <2>1, ArriveType DEF Held
  <2>3. QED
    BY <2>1, <2>2 DEF Held, TypeOK, PlacesExist, InHand, At
<1>2. CASE \E w \in Workers : Work(w)
  BY <1>2, WorkHeld
<1>3. CASE UNCHANGED vars
  BY <1>3 DEF Held, TypeOK, PlacesExist, InHand, At, vars
<1>4. QED
  BY <1>1, <1>2, <1>3 DEF Next

\* Held is an invariant.
LEMMA HeldAlways == Spec => []Held
BY HeldInit, HeldStep, PTL DEF Spec

\* Every variable keeps its type.
THEOREM OrgTypeCorrect == Spec => []TypeOK
<1>1. Held => TypeOK
  BY DEF Held
<1>2. QED
  BY <1>1, HeldAlways, PTL

\* However requests overlap, people work in departments that exist (updateUser,
\* createUser, updateDepartment, deleteDepartment).
THEOREM PeopleHavePlaces == Spec => []PlacesExist
<1>1. Held => PlacesExist
  BY DEF Held
<1>2. QED
  BY <1>1, HeldAlways, PTL

-----------------------------------------------------------------------------
(* The seats agree, as long as no request overlaps another *)

\* Agree, of given rows.
AgreeOn(users, seats) ==
    /\ \A d \in Depts : seats[d] # None =>
         /\ users[seats[d]].dept = d
         /\ users[seats[d]].role \in {"manager", "admin"}
    /\ \A u \in Users : users[u].role = "manager" /\ users[u].dept # None =>
         seats[users[u].dept] = u

LEMMA AgreeIs == (Agree <=> AgreeOn(user, seat)) /\ (Agree' <=> AgreeOn(user', seat'))
BY DEF Agree, AgreeOn

\* A seat that changes hands: the successor leads no other department.
LEMMA AgreeSucceed ==
  ASSUME TypeOK, Agree, NEW d \in Depts, NEW m \in Users, m # seat[d],
         \A e \in Depts : seat[e] = m => e = d
  PROVE  AgreeOn(Transfer(user, d, seat[d], m), [seat EXCEPT ![d] = m])
<1> DEFINE users == Transfer(user, d, seat[d], m)
           seats == [seat EXCEPT ![d] = m]
<1>1. /\ user \in [Users -> Place] /\ seat \in [Depts -> Users \cup {None}]
      /\ None \notin Users \cup Depts
  BY NoneAssumption DEF TypeOK
<1>2. \A u \in Users :
        /\ u = m => users[u].role = "manager" /\ users[u].dept = d
        /\ u # m /\ u = seat[d] => users[u].role = "employee" /\ users[u].dept = user[u].dept
        /\ u # m /\ u # seat[d] => users[u] = user[u]
  BY <1>1, TransferType
<1>3. seats[d] = m /\ \A e \in Depts : e # d => seats[e] = seat[e] /\ seat[e] # m
  BY <1>1
<1>4. ASSUME NEW e \in Depts, seats[e] # None
      PROVE  users[seats[e]].dept = e /\ users[seats[e]].role \in {"manager", "admin"}
  <2>1. CASE e = d
    BY <1>2, <1>3, <2>1
  <2>2. CASE e # d
    <3>1. /\ seats[e] = seat[e] /\ seat[e] \in Users /\ seat[e] # m
          /\ user[seat[e]].dept = e /\ user[seat[e]].role \in {"manager", "admin"}
      BY <1>1, <1>3, <1>4, <2>2 DEF Agree
    <3>2. seat[e] # seat[d]
      BY <1>1, <3>1, <2>2 DEF Agree
    <3>3. QED
      BY <1>2, <3>1, <3>2
  <2>3. QED
    BY <2>1, <2>2
<1>5. ASSUME NEW u \in Users, users[u].role = "manager", users[u].dept # None
      PROVE  seats[users[u].dept] = u
  <2>1. CASE u = m
    BY <1>2, <1>3, <2>1
  <2>2. CASE u # m
    <3>1. u # seat[d] /\ users[u] = user[u] /\ seat[user[u].dept] = u
      BY <1>2, <1>5, <2>2 DEF Agree
    <3>2. user[u].dept # d
      BY <3>1
    <3>3. user[u].dept \in Depts \cup {None}
      BY <1>1 DEF Place
    <3>4. QED
      BY <1>1, <3>1, <3>2, <3>3
  <2>3. QED
    BY <2>1, <2>2
<1>6. QED
  BY <1>4, <1>5 DEF AgreeOn

\* A seat that becomes vacant.
LEMMA AgreeVacate ==
  ASSUME TypeOK, Agree, NEW d \in Depts
  PROVE  AgreeOn(Transfer(user, d, seat[d], None), [seat EXCEPT ![d] = None])
<1> DEFINE users == Transfer(user, d, seat[d], None)
           seats == [seat EXCEPT ![d] = None]
<1>1. /\ user \in [Users -> Place] /\ seat \in [Depts -> Users \cup {None}]
      /\ None \notin Users \cup Depts
  BY NoneAssumption DEF TypeOK
<1>2. \A u \in Users :
        /\ u = seat[d] => users[u].role = "employee" /\ users[u].dept = user[u].dept
        /\ u # seat[d] => users[u] = user[u]
  BY <1>1, TransferType
<1>3. ASSUME NEW e \in Depts, seats[e] # None
      PROVE  users[seats[e]].dept = e /\ users[seats[e]].role \in {"manager", "admin"}
  <2>1. /\ e # d /\ seats[e] = seat[e] /\ seat[e] \in Users
        /\ user[seat[e]].dept = e /\ user[seat[e]].role \in {"manager", "admin"}
    BY <1>1, <1>3 DEF Agree
  <2>2. seat[e] # seat[d]
    BY <1>1, <2>1 DEF Agree
  <2>3. QED
    BY <1>2, <2>1, <2>2
<1>4. ASSUME NEW u \in Users, users[u].role = "manager", users[u].dept # None
      PROVE  seats[users[u].dept] = u
  <2>1. u # seat[d] /\ users[u] = user[u] /\ seat[user[u].dept] = u
    BY <1>2, <1>4 DEF Agree
  <2>2. user[u].dept # d /\ user[u].dept \in Depts \cup {None}
    BY <1>1, <2>1 DEF Place
  <2>3. QED
    BY <1>1, <2>1, <2>2
<1>5. QED
  BY <1>3, <1>4 DEF AgreeOn

\* Somebody whose row is rewritten: what was led stays led, by an administrator,
\* or is vacated; nobody becomes the manager of a department.
LEMMA AgreeRewrite ==
  ASSUME TypeOK, Agree, NEW u \in Users, NEW to \in Place, NEW seats,
         \/ /\ to.role = "admin" /\ Leads(u) \subseteq {to.dept} /\ seats = seat
         \/ /\ to.role \in {"employee", "none"} \/ to.dept = None
            /\ Leads(u) = {} /\ seats = seat
         \/ \E d \in Leads(u) :
              to.role = "employee" /\ seats = [seat EXCEPT ![d] = None]
  PROVE  AgreeOn([user EXCEPT ![u] = to], seats)
<1>1. /\ user \in [Users -> Place] /\ seat \in [Depts -> Users \cup {None}]
      /\ None \notin Users \cup Depts
  BY NoneAssumption DEF TypeOK
<1>2. \A v \in Users : v # u /\ user[v].role = "manager" /\ user[v].dept # None =>
        seat[user[v].dept] = v /\ user[v].dept \in Depts
  BY <1>1 DEF Agree, Place
<1>3. CASE /\ to.role = "admin" /\ Leads(u) \subseteq {to.dept} /\ seats = seat
  BY <1>1, <1>2, <1>3 DEF Agree, AgreeOn, Leads
<1>4. CASE /\ to.role \in {"employee", "none"} \/ to.dept = None
           /\ Leads(u) = {} /\ seats = seat
  BY <1>1, <1>2, <1>4 DEF Agree, AgreeOn, Leads
<1>5. ASSUME NEW d \in Leads(u), to.role = "employee", seats = [seat EXCEPT ![d] = None]
      PROVE  AgreeOn([user EXCEPT ![u] = to], seats)
  <2>1. d \in Depts /\ seat[d] = u
    BY <1>5 DEF Leads
  <2>2. \A e \in Depts : e # d => seats[e] = seat[e] /\ seat[e] # u
    BY <1>1, <1>5, <2>1 DEF Agree
  <2>3. seats[d] = None
    BY <1>1, <1>5, <2>1
  <2>4. \A v \in Users : v # u /\ user[v].role = "manager" /\ user[v].dept # None =>
          user[v].dept # d
    BY <1>1, <2>1 DEF Agree
  <2>5. QED
    BY <1>1, <1>2, <1>5, <2>2, <2>3, <2>4 DEF Agree, AgreeOn
<1>6. QED
  BY <1>3, <1>4, <1>5

-----------------------------------------------------------------------------
(* What a worker that is alone has read is still so *)

StillSo(w) ==
    /\ job[w].at \in {"update", "update.write"} =>
         /\ Exists(job[w].who)
         /\ \/ job[w].op = "sign" /\ job[w].to = user[job[w].who]
            \/ /\ job[w].op = "edit" /\ job[w].to.role \in Roles /\ job[w].to.dept # None
               /\ drift \/ ~Strays(job[w].who, job[w].to)
    /\ At(w, "update.write") =>
         /\ job[w].held \in IF Leads(job[w].who) = {} THEN {None} ELSE Leads(job[w].who)
         /\ job[w].to.role = "manager" =>
              Free(job[w].who, job[w].to.dept) /\ job[w].seen = seat[job[w].to.dept]
    /\ At(w, "create") =>
         /\ ~Exists(job[w].who)
         /\ job[w].to.dept # None => job[w].seen = seat[job[w].to.dept]
    /\ At(w, "appoint") =>
         /\ job[w].seen = seat[job[w].held]
         /\ job[w].who # None =>
              /\ Exists(job[w].who) /\ Free(job[w].who, job[w].held)
              /\ drift \/ Leads(job[w].who) \subseteq {job[w].held}

Alone == \A x, y \in Busy : x = y

Undrifted == SeatsAgree /\ (raced \/ (Alone /\ \A w \in Workers : StillSo(w)))

\* As long as nothing has overlapped, the others are idle and stay so.
LEMMA OthersIdle ==
  ASSUME Held, Undrifted, NEW w \in Workers, Work(w), ~raced'
  PROVE  /\ ~raced
         /\ \A x \in Workers \ {w} : job[x].at = "idle" /\ job'[x] = job[x]
<1>1. ~raced /\ (At(w, "idle") => Busy = {})
  <2>1. CASE Edit(w) \/ Sign(w) \/ Create(w) \/ Import(w) \/ Appoint(w)
    <3>1. raced' = (raced \/ Busy # {})
      BY <2>1 DEF Edit, Sign, Create, Import, Appoint, Arrive, Overlap
    <3>2. QED
      BY <3>1
  <2>2. CASE Abort(w) \/ UpdateBegin(w) \/ ImportRow(w)
    <3>1. raced' = raced /\ job[w].at # "idle"
      BY <2>2 DEF Abort, UpdateBegin, ImportRow, At
    <3>2. QED
      BY <3>1 DEF At
  <2>3. CASE UpdateWrite(w) \/ CreateWrite(w) \/ AppointWrite(w)
    BY <2>3 DEF UpdateWrite, CreateWrite, AppointWrite, At
  <2>4. QED
    BY <2>1, <2>2, <2>3 DEF Work
<1>2. \A x \in Workers \ {w} : job[x].at = "idle"
  BY <1>1 DEF Undrifted, Alone, Busy, At
<1>3. \E next : Goto(w, next)
  BY DEF Work, Abort, Edit, Sign, UpdateBegin, UpdateWrite, Create, CreateWrite, Import,
         ImportRow, Appoint, AppointWrite, Finish
<1>4. \A x \in Workers \ {w} : job'[x] = job[x]
  BY <1>3 DEF Goto, Held, TypeOK
<1>5. QED
  BY <1>1, <1>2, <1>4

\* It is enough to look at the worker that steps.
LEMMA StillSoFrame ==
  ASSUME NEW w \in Workers, StillSo(w)', SeatsAgree',
         \A x \in Workers \ {w} : job[x].at = "idle" /\ job'[x] = job[x]
  PROVE  Undrifted'
<1>1. \A x \in Workers \ {w} : StillSo(x)'
  BY DEF StillSo, At
<1>2. Alone'
  BY DEF Alone, Busy
<1>3. QED
  BY <1>1, <1>2 DEF Undrifted

\* A worker that has nothing in hand relies on nothing.
LEMMA StillSoIdle ==
  ASSUME NEW w \in Workers, job'[w].at \in {"idle", "import"}
  PROVE  StillSo(w)'
BY DEF StillSo, At

\* The update commits on what is so: the seats follow.
LEMMA UpdateAgrees ==
  ASSUME Held, Undrifted, ~raced, ~drift, NEW w \in Workers, UpdateWrite(w)
  PROVE  Agree'
<1> DEFINE u == job[w].who
           to == job[w].to
           held == job[w].held
<1>1. /\ Agree /\ StillSo(w) /\ At(w, "update.write") /\ TypeOK
      /\ seat' = IF Vacates(to, held) THEN [seat EXCEPT ![held] = None] ELSE seat
      /\ user' = IF to.role = "manager" THEN Transfer(user, to.dept, job[w].seen, u)
                                        ELSE [user EXCEPT ![u] = to]
  BY DEF UpdateWrite, Undrifted, SeatsAgree, Held
<1>2. /\ u \in Users /\ to \in Place /\ Exists(u) /\ None \notin Users \cup Depts
      /\ user[u] \in Place /\ (to.role = "manager" => to.dept \in Depts)
      /\ held \in IF Leads(u) = {} THEN {None} ELSE Leads(u)
      /\ to.role = "manager" => job[w].seen = seat[to.dept]
      /\ to = user[u] \/ (to.role \in Roles /\ ~Strays(u, to))
  BY <1>1, NoneAssumption DEF Held, InHand, TypeOK, Job, At, StillSo, Place
<1>3. \A d \in Leads(u) : d = user[u].dept /\ user[u].role \in {"manager", "admin"} /\ seat[d] = u
  BY <1>1, <1>2 DEF Leads, Agree
<1>4. CASE to.role = "manager"
  <2>1. seat[to.dept] = u /\ to.dept \in Leads(u)
    BY <1>1, <1>2, <1>4 DEF Strays, Agree, Leads
  <2>2. held = to.dept /\ user[u].dept = to.dept
    BY <1>2, <1>3, <2>1
  <2>3. user[u].role = "manager" \/ user[u].role = "admin"
    BY <1>3, <2>1
  <2>4. seat' = seat /\ user' = Transfer(user, to.dept, u, u)
    BY <1>1, <1>2, <1>4, <2>1, <2>2 DEF Vacates
  <2>5. \A v \in Users :
          /\ v = u => user'[v].role = "manager" /\ user'[v].dept = to.dept
          /\ v # u => user'[v] = user[v]
    BY <1>1, <1>2, <1>4, <2>4, TransferType DEF TypeOK
  <2>6. ASSUME NEW d \in Depts, seat[d] # None
        PROVE  user'[seat[d]].dept = d /\ user'[seat[d]].role \in {"manager", "admin"}
    <3>1. seat[d] \in Users /\ user[seat[d]].dept = d
          /\ user[seat[d]].role \in {"manager", "admin"}
      BY <1>1, <2>6 DEF Agree, TypeOK
    <3>2. QED
      BY <2>2, <2>5, <3>1
  <2>7. ASSUME NEW v \in Users, user'[v].role = "manager", user'[v].dept # None
        PROVE  seat[user'[v].dept] = v
    BY <1>1, <2>1, <2>5, <2>7 DEF Agree
  <2>8. AgreeOn(user', seat')
    BY <2>4, <2>6, <2>7 DEF AgreeOn
  <2>9. QED
    BY <2>8, AgreeIs
<1>5. CASE to.role = "admin"
  <2>1. seat' = seat /\ user' = [user EXCEPT ![u] = to]
    BY <1>1, <1>5 DEF Vacates
  <2>2. Leads(u) \subseteq {to.dept}
    BY <1>2, <1>3, <1>5 DEF Strays
  <2>3. AgreeOn([user EXCEPT ![u] = to], seat)
    BY <1>1, <1>2, <1>5, <2>2, AgreeRewrite
  <2>4. QED
    BY <2>1, <2>3, AgreeIs
<1>6. CASE to.role \in {"employee", "none"}
  <2>1. user' = [user EXCEPT ![u] = to] /\ to.role = "employee"
    BY <1>1, <1>2, <1>6 DEF Exists, Roles
  <2>2. CASE Leads(u) = {}
    <3>1. held = None /\ seat' = seat
      BY <1>1, <1>2, <2>2 DEF Vacates
    <3>2. AgreeOn([user EXCEPT ![u] = to], seat)
      BY <1>1, <1>2, <2>1, <2>2, AgreeRewrite
    <3>3. QED
      BY <2>1, <3>1, <3>2, AgreeIs
  <2>3. CASE Leads(u) # {}
    <3>1. held \in Leads(u) /\ held # None
      BY <1>2, <2>3 DEF Leads
    <3>2. seat' = [seat EXCEPT ![held] = None]
      BY <1>1, <2>1, <3>1 DEF Vacates
    <3>3. AgreeOn([user EXCEPT ![u] = to], [seat EXCEPT ![held] = None])
      <4> DEFINE seats == [seat EXCEPT ![held] = None]
      <4>1. \E d \in Leads(u) : to.role = "employee" /\ seats = [seat EXCEPT ![d] = None]
        BY <2>1, <3>1
      <4> HIDE DEF seats
      <4>2. AgreeOn([user EXCEPT ![u] = to], seats)
        BY <1>1, <1>2, <4>1, AgreeRewrite
      <4>3. QED
        BY <4>2 DEF seats
    <3>4. QED
      BY <2>1, <3>2, <3>3, AgreeIs
  <2>4. QED
    BY <2>2, <2>3
<1>7. QED
  BY <1>2, <1>4, <1>5, <1>6 DEF Place, Roles

\* So do a creation
LEMMA CreateAgrees ==
  ASSUME Held, Undrifted, ~raced, ~drift, NEW w \in Workers, CreateWrite(w)
  PROVE  Agree'
<1> DEFINE u == job[w].who
           to == job[w].to
<1>1. /\ Agree /\ StillSo(w) /\ At(w, "create") /\ TypeOK
  BY DEF CreateWrite, Undrifted, SeatsAgree, Held
<1>2. /\ u \in Users /\ to \in Place /\ user[u].role = "none" /\ None \notin Users \cup Depts
      /\ to.dept # None => to.dept \in Depts /\ job[w].seen = seat[to.dept]
  BY <1>1, NoneAssumption DEF Held, InHand, TypeOK, Job, At, StillSo, Place, Exists
<1>3. Leads(u) = {}
  BY <1>1, <1>2 DEF Leads, Agree
<1>4. CASE UNCHANGED <<user, seat>>
  BY <1>1, <1>4, AgreeIs
<1>5. CASE /\ to.role = "manager" /\ to.dept # None
           /\ user' = Transfer(user, to.dept, job[w].seen, u)
           /\ seat' = [seat EXCEPT ![to.dept] = u]
  BY <1>1, <1>2, <1>3, <1>5, AgreeSucceed, AgreeIs DEF Leads
<1>6. CASE /\ to.role # "manager" \/ to.dept = None
           /\ user' = [user EXCEPT ![u] = to] /\ seat' = seat
  BY <1>1, <1>2, <1>3, <1>6, AgreeRewrite, AgreeIs DEF Place, Roles
<1>7. QED
  BY <1>4, <1>5, <1>6 DEF CreateWrite

\* and an appointment.
LEMMA AppointAgrees ==
  ASSUME Held, Undrifted, ~raced, ~drift, NEW w \in Workers, AppointWrite(w)
  PROVE  Agree'
<1> DEFINE m == job[w].who
           d == job[w].held
<1>1. /\ Agree /\ StillSo(w) /\ At(w, "appoint") /\ TypeOK
      /\ seat' = [seat EXCEPT ![d] = m]
      /\ user' = IF m = job[w].seen THEN user ELSE Transfer(user, d, job[w].seen, m)
  BY DEF AppointWrite, Undrifted, SeatsAgree, Held
<1>2. /\ d \in Depts /\ m \in Users \cup {None} /\ job[w].seen = seat[d]
      /\ m # None => Leads(m) \subseteq {d}
  BY <1>1 DEF Held, InHand, TypeOK, Job, At, StillSo
<1>3. CASE m = seat[d]
  <2>1. seat' = seat /\ user' = user
    BY <1>1, <1>2, <1>3 DEF TypeOK
  <2>2. QED
    BY <1>1, <2>1, AgreeIs
<1>4. CASE m = None
  <2>1. seat[d] = None => seat' = seat /\ user' = user
    BY <1>1, <1>2, <1>4 DEF TypeOK
  <2>2. QED
    BY <1>1, <1>2, <1>4, <2>1, AgreeVacate, AgreeIs
<1>5. CASE m # seat[d] /\ m # None
  BY <1>1, <1>2, <1>5, AgreeSucceed, AgreeIs DEF Leads
<1>6. QED
  BY <1>3, <1>4, <1>5

\* The steps that only read leave the seats as they are.
LEMMA ReadAgrees ==
  ASSUME SeatsAgree, UNCHANGED <<user, seat>>, drift => drift', raced => raced'
  PROVE  SeatsAgree'
BY DEF SeatsAgree, Agree

\* Every step of a worker keeps the seats in agreement.
LEMMA WorkUndrifted ==
  ASSUME Held, Undrifted, NEW w \in Workers, Work(w)
  PROVE  Undrifted'
<1> SUFFICES ASSUME ~raced' PROVE Undrifted'
  BY DEF Undrifted, SeatsAgree
<1>1. /\ ~raced /\ StillSo(w) /\ InHand(w) /\ job[w] \in Job /\ SeatsAgree
      /\ \A x \in Workers \ {w} : job[x].at = "idle" /\ job'[x] = job[x]
  BY OthersIdle DEF Undrifted, Held, TypeOK
<1>2. SUFFICES StillSo(w)' /\ SeatsAgree'
  BY <1>1, StillSoFrame
<1>3. CASE Abort(w)
  <2>1. job'[w].at = "idle" /\ UNCHANGED <<user, seat, drift, raced>>
    BY <1>3, IdleType DEF Abort, Goto, Held, TypeOK
  <2>2. QED
    BY <1>1, <2>1, StillSoIdle, ReadAgrees
<1>4. CASE Edit(w)
  <2>1. PICK u \in Users, role \in Roles, d \in known :
          /\ Exists(u) /\ Arrive(Strays(u, [role |-> role, dept |-> d]))
          /\ Goto(w, [Idle EXCEPT !.at = "update", !.op = "edit", !.who = u,
                                  !.to = [role |-> role, dept |-> d]])
          /\ UNCHANGED <<user, seat, known>>
    BY <1>4 DEF Edit, FormValue, BackendRole, Roles
  <2>2. /\ job'[w].at = "update" /\ job'[w].op = "edit" /\ job'[w].who = u
        /\ job'[w].to = [role |-> role, dept |-> d]
    BY <2>1 DEF Goto, Idle, Held, TypeOK
  <2>3. drift' = (drift \/ Strays(u, [role |-> role, dept |-> d])) /\ d # None
    BY <2>1, NoneAssumption DEF Arrive, Held, TypeOK
  <2>4. Strays(u, [role |-> role, dept |-> d])' <=> Strays(u, [role |-> role, dept |-> d])
    BY <2>1 DEF Strays, Leads
  <2>5. StillSo(w)'
    <3> DEFINE to == [role |-> role, dept |-> d]
    <3>1. Exists(u)' /\ to.role \in Roles /\ to.dept # None
      BY <2>1, <2>3 DEF Exists
    <3>2. drift' \/ ~Strays(u, to)'
      BY <2>3, <2>4
    <3> HIDE DEF to
    <3>3. job'[w].to = to
      BY <2>2 DEF to
    <3>4. QED
      BY <2>2, <3>1, <3>2, <3>3 DEF StillSo, At, Exists, Strays, Leads
  <2>6. QED
    BY <1>1, <2>1, <2>3, <2>5, ReadAgrees
<1>5. CASE Sign(w)
  <2>1. PICK u \in Users :
          /\ Exists(u)
          /\ Goto(w, [Idle EXCEPT !.at = "update", !.op = "sign", !.who = u, !.to = user[u]])
    BY <1>5 DEF Sign
  <2>2. /\ job'[w].at = "update" /\ job'[w].op = "sign" /\ job'[w].who = u
        /\ job'[w].to = user[u]
    BY <2>1 DEF Goto, Idle, Held, TypeOK
  <2>3. UNCHANGED <<user, seat, drift>>
    BY <1>5 DEF Sign
  <2>4. QED
    BY <1>1, <2>1, <2>2, <2>3, ReadAgrees DEF StillSo, At, Exists
<1>6. CASE UpdateBegin(w)
  <2> DEFINE u == job[w].who
             to == job[w].to
  <2>1. PICK held \in IF Leads(u) = {} THEN {None} ELSE Leads(u) :
          Goto(w, [job[w] EXCEPT !.at = "update.write", !.held = held,
                     !.seen = IF to.role = "manager" THEN seat[to.dept] ELSE None])
    BY <1>6 DEF UpdateBegin
  <2>2. /\ job'[w].at = "update.write" /\ job'[w].held = held
        /\ job'[w].who = u /\ job'[w].to = to /\ job'[w].op = job[w].op
        /\ job'[w].seen = IF to.role = "manager" THEN seat[to.dept] ELSE None
    BY <1>1, <2>1 DEF Goto, Held, TypeOK, Job
  <2>3. /\ UNCHANGED <<user, seat, drift, raced>> /\ job[w].at = "update"
        /\ to.role = "manager" => Free(u, to.dept)
    BY <1>6 DEF UpdateBegin, At
  <2>4. StillSo(w)'
    BY <1>1, <2>1, <2>2, <2>3 DEF StillSo, At, Exists, Strays, Leads, Free
  <2>5. QED
    BY <1>1, <2>3, <2>4, ReadAgrees
<1>7. CASE UpdateWrite(w)
  <2>1. StillSo(w)' /\ drift' = drift
    BY <1>7, FinishType, StillSoIdle DEF UpdateWrite, Held
  <2>2. QED
    BY <1>1, <1>7, <2>1, UpdateAgrees DEF SeatsAgree
<1>8. CASE Create(w)
  <2>1. PICK u \in Users, role \in Roles, d \in known \cup {None} :
          /\ ~Exists(u) /\ Arrive(FALSE)
          /\ Goto(w, [Idle EXCEPT !.at = "create", !.op = "create", !.who = u,
                                  !.to = [role |-> role, dept |-> d],
                                  !.seen = IF d = None THEN None ELSE seat[d]])
    BY <1>8 DEF Create
  <2>2. /\ job'[w].at = "create" /\ job'[w].who = u
        /\ job'[w].to = [role |-> role, dept |-> d]
        /\ job'[w].seen = IF d = None THEN None ELSE seat[d]
    BY <2>1 DEF Goto, Idle, Held, TypeOK
  <2>3. UNCHANGED <<user, seat>> /\ (drift => drift')
    BY <1>8, <2>1 DEF Create, Arrive
  <2>4. QED
    BY <1>1, <2>1, <2>2, <2>3, ReadAgrees DEF StillSo, At, Exists
<1>9. CASE CreateWrite(w)
  <2>1. StillSo(w)' /\ drift' = drift
    BY <1>9, FinishType, StillSoIdle DEF CreateWrite, Held
  <2>2. QED
    BY <1>1, <1>9, <2>1, CreateAgrees DEF SeatsAgree
<1>10. CASE Import(w)
  <2>1. job'[w].at = "import" /\ UNCHANGED <<user, seat>> /\ (drift => drift')
    BY <1>10 DEF Import, Goto, Idle, Arrive, Held, TypeOK
  <2>2. QED
    BY <1>1, <2>1, StillSoIdle, ReadAgrees
<1>11. CASE ImportRow(w)
  <2> DEFINE row == Head(job[w].rest)
             rest == Tail(job[w].rest)
  <2>1. UNCHANGED <<user, seat, drift, raced>> /\ job[w].at = "import"
    BY <1>11 DEF ImportRow, At
  <2>2. CASE /\ ~Exists(row[1])
             /\ Goto(w, [Idle EXCEPT !.at = "create", !.op = "create", !.who = row[1],
                                     !.to = row[2], !.seen = seat[row[2].dept], !.rest = rest])
    <3>1. /\ job'[w].at = "create" /\ job'[w].who = row[1] /\ job'[w].to = row[2]
          /\ job'[w].seen = seat[row[2].dept]
      BY <2>2 DEF Goto, Idle, Held, TypeOK
    <3>2. QED
      BY <1>1, <2>1, <2>2, <3>1, ReadAgrees DEF StillSo, At, Exists
  <2>3. CASE Goto(w, IF rest = <<>> THEN Idle ELSE [job[w] EXCEPT !.rest = rest])
    <3>1. job'[w].at \in {"idle", "import"}
      BY <1>1, <2>1, <2>3, IdleType DEF Goto, Held, TypeOK, Job
    <3>2. QED
      BY <1>1, <2>1, <3>1, StillSoIdle, ReadAgrees
  <2>4. QED
    BY <1>11, <2>2, <2>3 DEF ImportRow
<1>12. CASE Appoint(w)
  <2>1. PICK d \in Depts, m \in Users \cup {None} :
          /\ m # None => Exists(m) /\ Free(m, d)
          /\ Arrive(m # None /\ Leads(m) \ {d} # {})
          /\ Goto(w, [Idle EXCEPT !.at = "appoint", !.who = m, !.held = d, !.seen = seat[d],
                                  !.op = IF d \in known THEN "appoint" ELSE "found"])
    BY <1>12 DEF Appoint, Founds, Takes, Free
  <2>2. /\ job'[w].at = "appoint" /\ job'[w].who = m /\ job'[w].held = d
        /\ job'[w].seen = seat[d]
    BY <2>1 DEF Goto, Idle, Held, TypeOK
  <2>3. /\ UNCHANGED <<user, seat>>
        /\ drift' = (drift \/ (m # None /\ Leads(m) \ {d} # {}))
    BY <1>12, <2>1 DEF Appoint, Arrive
  <2>4. StillSo(w)'
    BY <2>1, <2>2, <2>3 DEF StillSo, At, Exists, Free, Leads
  <2>5. QED
    BY <1>1, <2>3, <2>4, ReadAgrees
<1>13. CASE AppointWrite(w)
  <2>1. StillSo(w)' /\ drift' = drift
    BY <1>13, FinishType, StillSoIdle DEF AppointWrite, Held
  <2>2. QED
    BY <1>1, <1>13, <2>1, AppointAgrees DEF SeatsAgree
<1>14. QED
  BY <1>3, <1>4, <1>5, <1>6, <1>7, <1>8, <1>9, <1>10, <1>11, <1>12, <1>13 DEF Work

\* The seed's seats agree, and every step keeps them in agreement.
LEMMA UndriftedInit == Init => Undrifted
<1> SUFFICES ASSUME Init PROVE Undrifted
  OBVIOUS
<1>1. Agree
  BY SeedAssumption DEF Init, Agree
<1>2. \A w \in Workers : job[w].at = "idle"
  BY IdleType DEF Init
<1>3. QED
  BY <1>1, <1>2 DEF Undrifted, SeatsAgree, Alone, Busy, StillSo, At

LEMMA UndriftedStep == Held /\ Undrifted /\ [Next]_vars => Undrifted'
<1> SUFFICES ASSUME Held, Undrifted, [Next]_vars PROVE Undrifted'
  OBVIOUS
<1>1. CASE DeleteDepartment
  <2>1. PICK d \in known :
          /\ \A u \in Users : user[u].dept # d
          /\ Arrive(FALSE)
          /\ seat' = [seat EXCEPT ![d] = None]
          /\ UNCHANGED <<user, job>>
    BY <1>1 DEF DeleteDepartment
  <2>2. drift' = drift /\ (raced' <=> raced \/ Busy # {})
    BY <2>1 DEF Arrive, Overlap, Held, TypeOK
  <2>3. SeatsAgree'
    <3>1. CASE drift \/ raced
      BY <2>2, <3>1 DEF SeatsAgree
    <3>2. CASE Agree
      <4>1. seat[d] = None
        BY <2>1, <3>2 DEF Agree, Held, TypeOK
      <4>2. seat' = seat
        BY <2>1, <4>1 DEF Held, TypeOK
      <4>3. QED
        BY <2>1, <3>2, <4>2 DEF SeatsAgree, Agree
    <3>3. QED
      BY <3>1, <3>2 DEF Undrifted, SeatsAgree
  <2>4. ~raced' => \A w \in Workers : job'[w].at = "idle"
    BY <2>1, <2>2 DEF Busy
  <2>5. QED
    BY <2>3, <2>4 DEF Undrifted, Alone, Busy, StillSo, At
<1>2. CASE \E w \in Workers : Work(w)
  BY <1>2, WorkUndrifted
<1>3. CASE UNCHANGED vars
  <2>1. UNCHANGED <<user, seat, known, job, count, drift, raced>>
    BY <1>3 DEF vars
  <2>2. SeatsAgree'
    BY <2>1, ReadAgrees DEF Undrifted
  <2>3. \A w \in Workers : StillSo(w) => StillSo(w)'
    BY <2>1 DEF StillSo, At, Exists, Strays, Leads, Free
  <2>4. Alone => Alone'
    BY <2>1 DEF Alone, Busy
  <2>5. QED
    BY <2>1, <2>2, <2>3, <2>4 DEF Undrifted
<1>4. QED
  BY <1>1, <1>2, <1>3 DEF Next

\* The seats agree with roles and departments until requests overlap or the
\* employee form is used to promote (updateUser, createUser, updateDepartment).
LEMMA UndriftedAlways == Spec => []Undrifted
BY HeldInit, HeldStep, UndriftedInit, UndriftedStep, PTL DEF Spec

THEOREM SeatsAlwaysAgree == Spec => []SeatsAgree
<1>1. Undrifted => SeatsAgree
  BY DEF Undrifted
<1>2. QED
  BY <1>1, UndriftedAlways, PTL

-----------------------------------------------------------------------------
(* What a step may never do *)

\* The invariants hold before every step.
LEMMA HeldUndrifted == Spec => [](Held /\ Undrifted)
BY HeldAlways, UndriftedAlways, PTL

\* As long as nothing has overlapped, a worker that commits has read what is so,
\* and no other worker is busy.
LEMMA CommitsOnTheTruth ==
  ASSUME Held, Undrifted, [Next]_vars, ~raced', user' # user
  PROVE  \E w \in Workers :
           /\ UpdateWrite(w) \/ CreateWrite(w) \/ AppointWrite(w)
           /\ StillSo(w) /\ InHand(w) /\ job[w] \in Job
           /\ \A x \in Workers \ {w} : At(x, "idle")
<1>1. PICK w \in Workers : Work(w)
  BY DEF Next, DeleteDepartment, vars
<1>2. UpdateWrite(w) \/ CreateWrite(w) \/ AppointWrite(w)
  BY <1>1 DEF Work, Abort, Edit, Sign, UpdateBegin, Create, Import, ImportRow, Appoint
<1>3. ~raced /\ \A x \in Workers \ {w} : At(x, "idle")
  BY <1>1, OthersIdle DEF At
<1>4. QED
  BY <1>2, <1>3 DEF Undrifted, Held, TypeOK

\* Who was a manager and still is has not moved (handleManagerTransfer, createUser,
\* updateDepartment), drift or not, as long as no requests overlap.
THEOREM ManagersStay == Spec => ManagersStayPut
<1>1. ASSUME Held, Undrifted, [Next]_vars, ~raced', NEW u \in Users,
             user[u].role = "manager", user'[u].role = "manager"
      PROVE  user'[u].dept = user[u].dept
  <2>1. CASE user' = user
    BY <2>1
  <2>2. CASE user' # user
    <3>1. PICK w \in Workers :
            /\ UpdateWrite(w) \/ CreateWrite(w) \/ AppointWrite(w)
            /\ StillSo(w) /\ InHand(w) /\ job[w] \in Job
      BY <1>1, <2>2, CommitsOnTheTruth
    <3>2. user \in [Users -> Place] /\ None \notin Users \cup Depts
      BY <1>1, NoneAssumption DEF Held, TypeOK
    <3>3. CASE UpdateWrite(w)
      <4>1. At(w, "update.write") /\ job[w].who \in Users /\ job[w].to \in Place
        BY <3>1, <3>3 DEF UpdateWrite, At, InHand, Job
      <4>2. CASE job[w].to.role = "manager"
        <5>1. /\ user' = Transfer(user, job[w].to.dept, job[w].seen, job[w].who)
              /\ job[w].to.dept \in Depts /\ Free(job[w].who, job[w].to.dept)
          BY <3>1, <3>3, <4>1, <4>2 DEF UpdateWrite, InHand, At, StillSo, Place
        <5>2. QED
          BY <1>1, <3>2, <5>1, TransferType DEF Free
      <4>3. CASE job[w].to.role # "manager"
        BY <1>1, <3>2, <3>3, <4>1, <4>3 DEF UpdateWrite
      <4>4. QED
        BY <4>2, <4>3
    <3>4. CASE CreateWrite(w)
      <4>1. /\ At(w, "create") /\ job[w].who \in Users /\ job[w].to \in Place
            /\ user[job[w].who].role = "none"
        BY <2>2, <3>1, <3>4 DEF CreateWrite, At, InHand, Job, Exists
      <4>2. CASE job[w].to.role = "manager" /\ job[w].to.dept # None
        <5>1. /\ user' = Transfer(user, job[w].to.dept, job[w].seen, job[w].who)
              /\ job[w].to.dept \in Depts
          BY <2>2, <3>1, <3>4, <4>1, <4>2 DEF CreateWrite, InHand, At, Place
        <5>2. QED
          BY <1>1, <3>2, <4>1, <5>1, TransferType
      <4>3. CASE ~(job[w].to.role = "manager" /\ job[w].to.dept # None)
        BY <1>1, <2>2, <3>2, <3>4, <4>1, <4>3 DEF CreateWrite
      <4>4. QED
        BY <4>2, <4>3
    <3>5. CASE AppointWrite(w)
      <4>1. /\ user' = Transfer(user, job[w].held, job[w].seen, job[w].who)
            /\ job[w].held \in Depts /\ At(w, "appoint")
        BY <2>2, <3>1, <3>5 DEF AppointWrite, InHand
      <4>2. job[w].who # None => Free(job[w].who, job[w].held)
        BY <3>1, <4>1 DEF StillSo
      <4>3. QED
        BY <1>1, <3>2, <4>1, <4>2, TransferType DEF Free
    <3>6. QED
      BY <3>1, <3>3, <3>4, <3>5
  <2>3. QED
    BY <2>1, <2>2
<1>2. Held /\ Undrifted /\ [Next]_vars =>
        [raced' \/ \A u \in Users : user[u].role = "manager" /\ user'[u].role = "manager" =>
                                      user'[u].dept = user[u].dept]_vars
  BY <1>1
<1>3. QED
  BY <1>2, HeldUndrifted, PTL DEF Spec, ManagersStayPut

\* Nobody loses a role to an accident: who becomes an employee was edited, or lost
\* the seat to a successor or to nobody; where the seats have stopped following, at
\* least somebody else became the manager of what he or she leads
\* (handleManagerTransfer, updateDepartment).
THEOREM DemotedOnlyWhenReplaced == Spec => DemotedWhenReplaced
<1> DEFINE Excused(u) ==
             \/ \E w \in Workers : job[w].op = "edit" /\ job[w].who = u
             \/ \E d \in Leads(u) :
                  \/ seat'[d] # u
                  \/ drift /\ \E v \in Users \ {u} :
                              user'[v] = [role |-> "manager", dept |-> d]
<1>1. ASSUME Held, Undrifted, [Next]_vars, ~raced', NEW u \in Users,
             user[u].role \in {"manager", "admin"}, user'[u].role = "employee"
      PROVE  Excused(u)
  <2>1. PICK w \in Workers :
          /\ UpdateWrite(w) \/ CreateWrite(w) \/ AppointWrite(w)
          /\ StillSo(w) /\ InHand(w) /\ job[w] \in Job
    BY <1>1, CommitsOnTheTruth
  <2>2. /\ user \in [Users -> Place] /\ seat \in [Depts -> Users \cup {None}]
        /\ None \notin Users \cup Depts
    BY <1>1, NoneAssumption DEF Held, TypeOK
  <2>3. ASSUME NEW d \in Depts, NEW m \in Users,
               user' = Transfer(user, d, seat[d], m)
        PROVE  /\ m # seat[d] /\ (seat'[d] = m => Excused(u))
               /\ drift => Excused(u)
    <3>1. u # m /\ u = seat[d] /\ u \in Users
      BY <1>1, <2>2, <2>3, TransferType
    <3>2. d \in Leads(u)
      BY <3>1 DEF Leads
    <3>3. user'[m] = [role |-> "manager", dept |-> d]
      BY <2>3 DEF Transfer
    <3>4. seat'[d] = m => Excused(u)
      BY <3>1, <3>2
    <3>5. drift => Excused(u)
      BY <3>1, <3>2, <3>3
    <3>6. QED
      BY <3>1, <3>4, <3>5
  <2>4. CASE UpdateWrite(w)
    <3>1. At(w, "update.write") /\ job[w].who \in Users /\ job[w].to \in Place
      BY <2>1, <2>4 DEF UpdateWrite, At, InHand, Job
    <3>2. CASE job[w].to.role = "manager"
      <4>1. /\ user' = Transfer(user, job[w].to.dept, seat[job[w].to.dept], job[w].who)
            /\ job[w].to.dept \in Depts
        BY <2>1, <2>4, <3>1, <3>2 DEF UpdateWrite, InHand, At, StillSo, Place
      <4>2. drift \/ seat[job[w].to.dept] = job[w].who
        <5>1. drift \/ Agree
          BY <1>1, <2>4 DEF Undrifted, SeatsAgree, UpdateWrite
        <5>2. CASE job[w].op = "sign"
          <6>1. job[w].to = user[job[w].who] /\ job[w].to.dept # None
            BY <2>1, <2>2, <3>1, <4>1, <5>2 DEF StillSo, At
          <6>2. QED
            BY <3>1, <3>2, <5>1, <6>1 DEF Agree
        <5>3. CASE job[w].op = "edit"
          BY <2>1, <3>1, <3>2, <5>3 DEF StillSo, At, Strays
        <5>4. QED
          BY <2>1, <3>1, <5>2, <5>3 DEF StillSo, At
      <4>3. QED
        BY <2>3, <3>1, <4>1, <4>2
    <3>3. CASE job[w].to.role # "manager"
      <4>1. u = job[w].who /\ job[w].to.role = "employee"
        BY <1>1, <2>2, <2>4, <3>1, <3>3 DEF UpdateWrite
      <4>2. job[w].op = "edit"
        BY <1>1, <2>1, <3>1, <4>1 DEF StillSo, At
      <4>3. QED
        BY <4>1, <4>2
    <3>4. QED
      BY <3>2, <3>3
  <2>5. CASE CreateWrite(w)
    <3>1. At(w, "create") /\ job[w].who \in Users /\ job[w].to \in Place
      BY <2>1, <2>5 DEF CreateWrite, At, InHand, Job
    <3>2. user[job[w].who].role = "none" \/ user' = user
      BY <2>5 DEF CreateWrite, Exists
    <3>3. CASE job[w].to.role = "manager" /\ job[w].to.dept # None /\ user' # user
      <4>1. /\ user' = Transfer(user, job[w].to.dept, seat[job[w].to.dept], job[w].who)
            /\ job[w].to.dept \in Depts /\ seat' = [seat EXCEPT ![job[w].to.dept] = job[w].who]
        BY <2>1, <2>5, <3>1, <3>3 DEF CreateWrite, InHand, At, StillSo, Place
      <4>2. seat'[job[w].to.dept] = job[w].who
        BY <2>2, <4>1
      <4>3. QED
        BY <2>3, <3>1, <4>1, <4>2
    <3>4. CASE ~(job[w].to.role = "manager" /\ job[w].to.dept # None) \/ user' = user
      BY <1>1, <2>2, <2>5, <3>1, <3>2, <3>4 DEF CreateWrite
    <3>5. QED
      BY <3>3, <3>4
  <2>6. CASE AppointWrite(w)
    <3>1. /\ job[w].held \in Depts /\ At(w, "appoint") /\ job[w].who \in Users \cup {None}
          /\ job[w].seen = seat[job[w].held] /\ seat' = [seat EXCEPT ![job[w].held] = job[w].who]
      BY <2>1, <2>6 DEF AppointWrite, InHand, StillSo, Job
    <3>2. user' = Transfer(user, job[w].held, seat[job[w].held], job[w].who)
      BY <1>1, <2>6, <3>1 DEF AppointWrite
    <3>3. CASE job[w].who \in Users
      <4>1. seat'[job[w].held] = job[w].who
        BY <2>2, <3>1
      <4>2. QED
        BY <2>3, <3>1, <3>2, <3>3, <4>1
    <3>4. CASE job[w].who = None
      <4>1. u = seat[job[w].held] /\ seat'[job[w].held] = None
        BY <1>1, <2>2, <3>1, <3>2, <3>4, TransferType
      <4>2. QED
        BY <2>2, <3>1, <4>1 DEF Leads
    <3>5. QED
      BY <3>1, <3>3, <3>4
  <2>7. QED
    BY <2>1, <2>4, <2>5, <2>6
<1>2. Held /\ Undrifted /\ [Next]_vars =>
        [raced' \/ \A u \in Users :
           user[u].role \in {"manager", "admin"} /\ user'[u].role = "employee" => Excused(u)]_vars
  BY <1>1
<1>3. QED
  BY <1>2, HeldUndrifted, PTL DEF Spec, DemotedWhenReplaced

\* Handing a seat to the one who has it and is the manager there moves nobody.
LEMMA TransferToHolder ==
  ASSUME TypeOK, NEW u \in Users, user[u].role = "manager"
  PROVE  Transfer(user, user[u].dept, u, u) = user
<1>1. user \in [Users -> Place] /\ user[u] \in Place
  BY DEF TypeOK
<1>2. [role |-> "manager", dept |-> user[u].dept] = user[u]
  BY <1>1 DEF Place
<1>3. ASSUME NEW v \in Users PROVE Transfer(user, user[u].dept, u, u)[v] = user[v]
  BY <1>2 DEF Transfer
<1>4. Transfer(user, user[u].dept, u, u) = [v \in Users |-> user[v]]
  BY <1>3 DEF Transfer
<1>5. QED
  BY <1>1, <1>4

\* An update that says what is stored changes nothing, every login, refresh and
\* logout among them (auth.service.ts through updateUser).
THEOREM IdleUpdatesKeepOrg == Spec => IdleUpdateKeepsOrg
<1>1. ASSUME Held, Undrifted, [Next]_vars, ~raced', ~drift, NEW w \in Workers,
             At(w, "update.write"), job[w].to = user[job[w].who]
      PROVE  UNCHANGED <<user, seat>>
  <2> DEFINE u == job[w].who
             held == job[w].held
  <2>1. CASE DeleteDepartment
    <3>1. raced' = (raced \/ Busy # {}) /\ w \in Busy
      BY <1>1, <2>1 DEF DeleteDepartment, Arrive, Overlap, Busy, At
    <3>2. QED
      BY <1>1, <3>1
  <2>2. ASSUME NEW x \in Workers, Work(x) PROVE UNCHANGED <<user, seat>>
    <3>1. ~raced /\ x = w
      <4>1. ~raced /\ \A y \in Workers \ {x} : job[y].at = "idle"
        BY <1>1, <2>2, OthersIdle
      <4>2. QED
        BY <1>1, <4>1 DEF At
    <3>2. /\ Agree /\ StillSo(w) /\ InHand(w) /\ job[w] \in Job /\ TypeOK
          /\ user \in [Users -> Place] /\ None \notin Users \cup Depts
      BY <1>1, <3>1, NoneAssumption DEF Undrifted, SeatsAgree, Held, TypeOK
    <3>3. /\ u \in Users /\ Exists(u) /\ user[u] \in Place
          /\ held \in IF Leads(u) = {} THEN {None} ELSE Leads(u)
          /\ user[u].role = "manager" => user[u].dept \in Depts /\ job[w].seen = seat[user[u].dept]
      BY <1>1, <3>2 DEF InHand, At, StillSo, Place
    <3>4. CASE Abort(w)
      BY <3>4 DEF Abort
    <3>5. CASE UpdateWrite(w)
      <4>1. \A d \in Leads(u) : d = user[u].dept /\ user[u].role \in {"manager", "admin"}
        BY <3>2, <3>3 DEF Leads, Agree
      <4>2. held # None => held = user[u].dept /\ user[u].role # "employee"
        BY <3>3, <4>1
      <4>3. ~Vacates(user[u], held)
        BY <4>2 DEF Vacates
      <4>4. seat' = seat
        BY <1>1, <3>5, <4>3 DEF UpdateWrite
      <4>5. CASE user[u].role = "manager"
        <5>1. job[w].seen = u
          BY <3>2, <3>3, <4>5 DEF Agree
        <5>2. user' = Transfer(user, user[u].dept, u, u)
          BY <1>1, <3>5, <4>5, <5>1 DEF UpdateWrite
        <5>3. QED
          BY <3>2, <3>3, <4>4, <4>5, <5>2, TransferToHolder
      <4>6. CASE user[u].role # "manager"
        <5>1. user' = [user EXCEPT ![u] = user[u]]
          BY <1>1, <3>5, <4>6 DEF UpdateWrite
        <5>2. QED
          BY <3>2, <3>3, <4>4, <5>1
      <4>7. QED
        BY <4>5, <4>6
    <3>6. QED
      BY <1>1, <2>2, <3>1, <3>4, <3>5 DEF Work, Edit, Sign, UpdateBegin, Create, CreateWrite,
         Import, ImportRow, Appoint, AppointWrite, At
  <2>3. QED
    BY <1>1, <2>1, <2>2 DEF Next, vars
<1>2. Held /\ Undrifted /\ [Next]_vars =>
        [\A w \in Workers :
           \/ drift \/ raced'
           \/ ~At(w, "update.write") \/ job[w].to # user[job[w].who]
           \/ UNCHANGED <<user, seat>>]_vars
  BY <1>1
<1>3. QED
  BY <1>2, HeldUndrifted, PTL DEF Spec, IdleUpdateKeepsOrg

-----------------------------------------------------------------------------
(* Who is not there works nowhere *)

\* What a worker is about to write gives somebody a role.
GivesRole(j) == j.at \in {"update", "update.write", "create"} => j.to.role \in Roles

Nowhere ==
    /\ \A u \in Users : user[u].role = "none" => user[u].dept = None
    /\ \A w \in Workers : GivesRole(job[w])

\* Rows that keep it so: written with a role, or a seat handed over.
LEMMA WrittenNowhere ==
  ASSUME Held, Nowhere,
         \/ user' = user
         \/ \E u \in Users, to \in Place : to.role \in Roles /\ user' = [user EXCEPT ![u] = to]
         \/ \E d \in Depts : \E old, next : user' = Transfer(user, d, old, next)
  PROVE  \A u \in Users : user'[u].role = "none" => user'[u].dept = None
<1>1. user \in [Users -> Place]
  BY DEF Held, TypeOK
<1>2. CASE user' = user
  BY <1>2 DEF Nowhere
<1>3. ASSUME NEW u \in Users, NEW to \in Place, to.role \in Roles, user' = [user EXCEPT ![u] = to]
      PROVE  \A v \in Users : user'[v].role = "none" => user'[v].dept = None
  BY <1>1, <1>3 DEF Nowhere, Roles
<1>4. ASSUME NEW d \in Depts, NEW old, NEW next, user' = Transfer(user, d, old, next)
      PROVE  \A v \in Users : user'[v].role = "none" => user'[v].dept = None
  <2>1. ASSUME NEW v \in Users
        PROVE  user'[v].role = "none" => user'[v] = user[v]
    BY <1>1, <1>4, TransferType
  <2>2. QED
    BY <2>1 DEF Nowhere
<1>5. QED
  BY <1>2, <1>3, <1>4

\* It is enough to look at the worker that steps.
LEMMA GivesFrame ==
  ASSUME Held, Nowhere, NEW w \in Workers, NEW next, Goto(w, next), GivesRole(next)
  PROVE  \A x \in Workers : GivesRole(job'[x])
BY DEF Goto, Held, TypeOK, Nowhere

LEMMA WorkNowhere ==
  ASSUME Held, Nowhere, NEW w \in Workers, Work(w)
  PROVE  Nowhere'
<1>0. /\ job[w] \in Job /\ InHand(w) /\ GivesRole(job[w]) /\ user \in [Users -> Place]
      /\ known \subseteq Depts /\ GivesRole(Idle)
  BY IdleType DEF Held, TypeOK, Nowhere, GivesRole
<1>1. CASE Finish(w) /\ (UpdateWrite(w) \/ CreateWrite(w) \/ AppointWrite(w))
  <2>1. \A x \in Workers : GivesRole(job'[x])
    BY <1>1, FinishType DEF Held, Nowhere, GivesRole
  <2>2. CASE UpdateWrite(w) \/ CreateWrite(w)
    <3>1. /\ job[w].who \in Users /\ job[w].to \in Place /\ job[w].to.role \in Roles
          /\ job[w].to.dept # None => job[w].to.dept \in Depts
          /\ At(w, "update.write") /\ job[w].to.role = "manager" => job[w].to.dept # None
      BY <1>0, <2>2 DEF UpdateWrite, CreateWrite, At, InHand, GivesRole, Job, Place
    <3>2. \/ user' = user
          \/ user' = [user EXCEPT ![job[w].who] = job[w].to]
          \/ /\ job[w].to.dept # None
             /\ user' = Transfer(user, job[w].to.dept, job[w].seen, job[w].who)
      BY <2>2, <3>1 DEF UpdateWrite, CreateWrite
    <3>3. QED
      BY <2>1, <3>1, <3>2, WrittenNowhere DEF Nowhere
  <2>3. CASE AppointWrite(w)
    <3>1. /\ job[w].held \in Depts
          /\ \/ user' = user
             \/ user' = Transfer(user, job[w].held, job[w].seen, job[w].who)
      BY <1>0, <2>3 DEF AppointWrite, At, InHand
    <3>2. QED
      BY <2>1, <3>1, WrittenNowhere DEF Nowhere
  <2>4. QED
    BY <1>1, <2>2, <2>3
<1>2. ASSUME user' = user, NEW next, Goto(w, next), GivesRole(next)
      PROVE  Nowhere'
  BY <1>2, GivesFrame, WrittenNowhere DEF Nowhere
<1>3. CASE Abort(w)
  BY <1>0, <1>2, <1>3 DEF Abort
<1>4. CASE Edit(w)
  <2>1. PICK u \in Users, role \in Roles, d \in known :
          Goto(w, [Idle EXCEPT !.at = "update", !.op = "edit", !.who = u,
                               !.to = [role |-> role, dept |-> d]])
    BY <1>4 DEF Edit, FormValue, BackendRole, Roles
  <2> DEFINE next == [Idle EXCEPT !.at = "update", !.op = "edit", !.who = u,
                                  !.to = [role |-> role, dept |-> d]]
  <2>2. next.to.role \in Roles
    BY IdleType DEF Job
  <2>3. GivesRole(next) /\ Goto(w, next)
    BY <2>1, <2>2 DEF GivesRole
  <2> HIDE DEF next
  <2>4. QED
    BY <1>2, <1>4, <2>3 DEF Edit
<1>5. CASE Sign(w)
  <2>1. PICK u \in Users :
          /\ Exists(u)
          /\ Goto(w, [Idle EXCEPT !.at = "update", !.op = "sign", !.who = u, !.to = user[u]])
    BY <1>5 DEF Sign
  <2> DEFINE next == [Idle EXCEPT !.at = "update", !.op = "sign", !.who = u, !.to = user[u]]
  <2>2. next.to = user[u]
    BY IdleType DEF Job
  <2>3. user[u].role \in Roles
    BY <1>0, <2>1 DEF Exists, Place
  <2>4. GivesRole(next) /\ Goto(w, next)
    BY <2>1, <2>2, <2>3 DEF GivesRole
  <2> HIDE DEF next
  <2>5. QED
    BY <1>2, <1>5, <2>4 DEF Sign
<1>6. CASE UpdateBegin(w)
  <2>1. PICK held :
          Goto(w, [job[w] EXCEPT !.at = "update.write", !.held = held,
                     !.seen = IF job[w].to.role = "manager" THEN seat[job[w].to.dept] ELSE None])
    BY <1>6 DEF UpdateBegin
  <2> DEFINE next == [job[w] EXCEPT !.at = "update.write", !.held = held,
                     !.seen = IF job[w].to.role = "manager" THEN seat[job[w].to.dept] ELSE None]
  <2>2. next.to = job[w].to /\ job[w].at = "update"
    BY <1>0, <1>6 DEF Job, UpdateBegin, At
  <2>3. GivesRole(next) /\ Goto(w, next)
    BY <1>0, <2>1, <2>2 DEF GivesRole
  <2> HIDE DEF next
  <2>4. QED
    BY <1>2, <1>6, <2>3 DEF UpdateBegin
<1>7. CASE Create(w)
  <2>1. PICK u \in Users, role \in Roles, d \in known \cup {None} :
          Goto(w, [Idle EXCEPT !.at = "create", !.op = "create", !.who = u,
                               !.to = [role |-> role, dept |-> d],
                               !.seen = IF d = None THEN None ELSE seat[d]])
    BY <1>7 DEF Create
  <2> DEFINE next == [Idle EXCEPT !.at = "create", !.op = "create", !.who = u,
                                  !.to = [role |-> role, dept |-> d],
                                  !.seen = IF d = None THEN None ELSE seat[d]]
  <2>2. next.to.role \in Roles
    BY IdleType DEF Job
  <2>3. GivesRole(next) /\ Goto(w, next)
    BY <2>1, <2>2 DEF GivesRole
  <2> HIDE DEF next
  <2>4. QED
    BY <1>2, <1>7, <2>3 DEF Create
<1>8. CASE Import(w)
  <2>1. PICK rows : Goto(w, [Idle EXCEPT !.at = "import", !.rest = rows])
    BY <1>8 DEF Import
  <2> DEFINE next == [Idle EXCEPT !.at = "import", !.rest = rows]
  <2>2. next.at = "import"
    BY IdleType DEF Job
  <2>3. GivesRole(next) /\ Goto(w, next)
    BY <2>1, <2>2 DEF GivesRole
  <2> HIDE DEF next
  <2>4. QED
    BY <1>2, <1>8, <2>3 DEF Import
<1>9. CASE ImportRow(w)
  <2> DEFINE row == Head(job[w].rest)
             rest == Tail(job[w].rest)
             create == [Idle EXCEPT !.at = "create", !.op = "create", !.who = row[1],
                                    !.to = row[2], !.seen = seat[row[2].dept], !.rest = rest]
             skip == [job[w] EXCEPT !.rest = rest]
  <2>1. row \in Users \X Post /\ job[w].at = "import"
    BY <1>0, <1>9 DEF ImportRow, InHand, At, Job
  <2>2. GivesRole(create)
    <3> HIDE DEF row, rest
    <3>1. create.to = row[2]
      BY IdleType DEF Job
    <3>2. QED
      BY <2>1, <3>1 DEF GivesRole, Post
  <2>3. GivesRole(skip)
    BY <1>0, <2>1 DEF GivesRole, Job
  <2>4. user' = user /\ (Goto(w, create) \/ Goto(w, Idle) \/ Goto(w, skip))
    BY <1>9 DEF ImportRow
  <2> HIDE DEF create, skip
  <2>5. QED
    BY <1>0, <1>2, <2>2, <2>3, <2>4
<1>10. CASE Appoint(w)
  <2>1. PICK d \in Depts, m \in Users \cup {None}, op \in {"appoint", "found"} :
          Goto(w, [Idle EXCEPT !.at = "appoint", !.who = m, !.held = d, !.seen = seat[d],
                               !.op = op])
    BY <1>10 DEF Appoint
  <2> DEFINE next == [Idle EXCEPT !.at = "appoint", !.who = m, !.held = d, !.seen = seat[d],
                                  !.op = op]
  <2>2. next.at = "appoint"
    BY IdleType DEF Job
  <2>3. GivesRole(next) /\ Goto(w, next)
    BY <2>1, <2>2 DEF GivesRole
  <2> HIDE DEF next
  <2>4. QED
    BY <1>2, <1>10, <2>3 DEF Appoint
<1>11. QED
  BY <1>1, <1>3, <1>4, <1>5, <1>6, <1>7, <1>8, <1>9, <1>10
     DEF Work, UpdateWrite, CreateWrite, AppointWrite

LEMMA NowhereInit == Init => Nowhere
BY SeedAssumption, IdleType DEF Init, Nowhere, GivesRole, Absent

LEMMA NowhereStep == Held /\ Nowhere /\ [Next]_vars => Nowhere'
<1> SUFFICES ASSUME Held, Nowhere, [Next]_vars PROVE Nowhere'
  OBVIOUS
<1>1. CASE DeleteDepartment
  BY <1>1 DEF DeleteDepartment, Nowhere
<1>2. CASE UNCHANGED vars
  BY <1>2 DEF vars, Nowhere
<1>3. QED
  BY <1>1, <1>2, WorkNowhere DEF Next

LEMMA OrgAlways == Spec => [](Held /\ Undrifted /\ Nowhere)
BY HeldInit, HeldStep, UndriftedInit, UndriftedStep, NowhereInit, NowhereStep, PTL DEF Spec

-----------------------------------------------------------------------------
(* Access: every behaviour with tokens is one of OrgChart *)

\* A request that signs a token is an update like any other, and a token changes
\* nothing in the database of people.
THEOREM AccessRefinesOrgChart == AccessSpec => Spec
<1>1. AccessInit => Init
  BY DEF AccessInit
<1>2. [AccessNext]_allVars => [Next]_vars
  BY DEF AccessNext, OtherOrgStep, SignDone, SignFails, Expire, Next, Work, allVars
<1>3. QED
  BY <1>1, <1>2, PTL DEF AccessSpec, Spec

\* A token is absent or claims a role.
Claims == AccessTypeOK /\ \A u \in Users : token[u] = Absent \/ token[u].role \in Roles

LEMMA ClaimsInit == AccessInit => Claims
BY DEF AccessInit, Claims, AccessTypeOK, Absent, Place

LEMMA ClaimsStep == Held /\ Nowhere /\ Claims /\ [AccessNext]_allVars => Claims'
<1> SUFFICES ASSUME Held, Nowhere, Claims, [AccessNext]_allVars PROVE Claims'
  OBVIOUS
<1> USE DEF Claims, AccessTypeOK
<1>1. Absent \in Place
  BY DEF Absent, Place
<1>2. ASSUME NEW w \in Workers, SignDone(w) \/ SignFails(w), HandOut(w) PROVE Claims'
  <2>1. job[w].who \in Users /\ job[w].to \in Place /\ job[w].to.role \in Roles
    BY <1>2 DEF SignDone, SignFails, Signs, At, Held, InHand, TypeOK, Job, Nowhere, GivesRole
  <2>2. PICK c \in {job[w].to, Absent} : token' = [token EXCEPT ![job[w].who] = c]
    BY <1>2 DEF HandOut
  <2>3. QED
    BY <1>1, <2>1, <2>2
<1>3. ASSUME NEW u \in Users, Expire(u) PROVE Claims'
  BY <1>1, <1>3 DEF Expire
<1>4. CASE UNCHANGED token
  BY <1>4
<1>5. QED
  BY <1>2, <1>3, <1>4 DEF AccessNext, OtherOrgStep, SignDone, SignFails, allVars

LEMMA AccessAlways == AccessSpec => [](Held /\ Undrifted /\ Nowhere /\ Claims)
<1>1. [AccessNext]_allVars => [Next]_vars
  BY DEF AccessNext, OtherOrgStep, SignDone, SignFails, Expire, Next, Work, allVars
<1>2. AccessInit => Init
  BY DEF AccessInit
<1>3. QED
  BY <1>1, <1>2, HeldInit, HeldStep, UndriftedInit, UndriftedStep, NowhereInit, NowhereStep,
     ClaimsInit, ClaimsStep, PTL DEF AccessSpec

\* Tokens keep their type.
THEOREM AccessTypeCorrect == AccessSpec => []AccessTypeOK
<1>1. Claims => AccessTypeOK
  BY DEF Claims
<1>2. QED
  BY <1>1, AccessAlways, PTL

-----------------------------------------------------------------------------
(* Pages, permissions and seats *)

\* The permissions that the lists and reviews of a manager ask for.
LEMMA ManagerPermissions ==
  ASSUME NEW p \in Permissions
  PROVE  /\ p[1] = "leaves of department" => p[2] = "managerOfDepartment"
         /\ p[1] = "user" => p[2] \in {"admin", "manager", "me"}
         /\ p[1] = "review leave" => p[2] = "manager"
         /\ p[1] = "review correction" => p[2] \in {"manager", "admin"}
<1>1. \/ p \in UserReads \/ p \in UserWrites \/ p \in UserImport
      \/ p \in UserStatus \/ p \in DepartmentReads \/ p \in DepartmentWrites
      \/ p \in RoleRoutes \/ p \in RoleRemoval \/ p \in LeaveTypeRoutes
      \/ p \in PayrollRoutes \/ p \in SheetReads \/ p \in SheetExports
      \/ p \in SheetWrites \/ p \in AttendanceRoutes \/ p \in LeaveRoutes
      \/ p \in CorrectionRoutes \/ p \in LogRoutes \/ p \in WarningRoutes
  BY DEF Permissions
<1>2. CASE p \in UserReads
  BY <1>2 DEF UserReads
<1>3. CASE p \in UserWrites
  BY <1>3 DEF UserWrites
<1>4. CASE p \in UserImport
  BY <1>4 DEF UserImport
<1>5. CASE p \in UserStatus
  BY <1>5 DEF UserStatus
<1>6. CASE p \in DepartmentReads
  BY <1>6 DEF DepartmentReads
<1>7. CASE p \in DepartmentWrites
  BY <1>7 DEF DepartmentWrites
<1>8. CASE p \in RoleRoutes
  BY <1>8 DEF RoleRoutes
<1>9. CASE p \in RoleRemoval
  BY <1>9 DEF RoleRemoval
<1>10. CASE p \in LeaveTypeRoutes
  BY <1>10 DEF LeaveTypeRoutes
<1>11. CASE p \in PayrollRoutes
  BY <1>11 DEF PayrollRoutes
<1>12. CASE p \in SheetReads
  BY <1>12 DEF SheetReads
<1>13. CASE p \in SheetExports
  BY <1>13 DEF SheetExports
<1>14. CASE p \in SheetWrites
  BY <1>14 DEF SheetWrites
<1>15. CASE p \in AttendanceRoutes
  BY <1>15 DEF AttendanceRoutes
<1>16. CASE p \in LeaveRoutes
  BY <1>16 DEF LeaveRoutes
<1>17. CASE p \in CorrectionRoutes
  BY <1>17 DEF CorrectionRoutes
<1>18. CASE p \in LogRoutes
  BY <1>18 DEF LogRoutes
<1>19. CASE p \in WarningRoutes
  BY <1>19 DEF WarningRoutes
<1>20. QED
  BY <1>1, <1>2, <1>3, <1>4, <1>5, <1>6, <1>7, <1>8, <1>9, <1>10, <1>11, <1>12, <1>13,
     <1>14, <1>15, <1>16, <1>17, <1>18, <1>19

\* The permissions that the requests of each role's pages go by.
LEMMA PagePermissions ==
  /\ \A r \in {"user", "check in", "check out", "attendance", "sheet", "create sheet",
               "submit sheet", "request leave", "my leaves", "leave balance", "leave types",
               "request correction", "my corrections"} : <<r, "me">> \in Permissions
  /\ \A r \in {"users of department", "leaves of department", "corrections of department"} :
       <<r, "managerOfDepartment">> \in Permissions
  /\ \A r \in {"user", "review list", "report", "review leave", "review correction"} :
       <<r, "manager">> \in Permissions
  /\ \A r \in {"users", "departments", "leave types", "leaves", "create user", "update user",
               "import users", "activate user", "deactivate user", "write leave type",
               "payroll", "report", "system log", "mark log"} : <<r, "admin">> \in Permissions
<1>1. /\ UserReads \subseteq Permissions /\ UserWrites \subseteq Permissions
      /\ UserImport \subseteq Permissions /\ UserStatus \subseteq Permissions
      /\ DepartmentReads \subseteq Permissions /\ LeaveTypeRoutes \subseteq Permissions
      /\ PayrollRoutes \subseteq Permissions /\ SheetReads \subseteq Permissions
      /\ SheetWrites \subseteq Permissions /\ AttendanceRoutes \subseteq Permissions
      /\ LeaveRoutes \subseteq Permissions /\ CorrectionRoutes \subseteq Permissions
      /\ LogRoutes \subseteq Permissions
  BY DEF Permissions
<1>2. /\ <<"user", "me">> \in UserReads /\ <<"user", "manager">> \in UserReads
      /\ <<"users", "admin">> \in UserReads
      /\ <<"users of department", "managerOfDepartment">> \in UserReads
  BY DEF UserReads
<1>3. /\ <<"check in", "me">> \in AttendanceRoutes /\ <<"check out", "me">> \in AttendanceRoutes
      /\ <<"attendance", "me">> \in AttendanceRoutes
  BY DEF AttendanceRoutes
<1>4. /\ <<"sheet", "me">> \in SheetReads /\ <<"review list", "manager">> \in SheetReads
      /\ <<"report", "manager">> \in SheetReads /\ <<"report", "admin">> \in SheetReads
      /\ <<"create sheet", "me">> \in SheetWrites /\ <<"submit sheet", "me">> \in SheetWrites
  BY DEF SheetReads, SheetWrites
<1>5. /\ <<"request leave", "me">> \in LeaveRoutes /\ <<"my leaves", "me">> \in LeaveRoutes
      /\ <<"leave balance", "me">> \in LeaveRoutes /\ <<"review leave", "manager">> \in LeaveRoutes
      /\ <<"leaves of department", "managerOfDepartment">> \in LeaveRoutes
      /\ <<"leaves", "admin">> \in LeaveRoutes
  BY DEF LeaveRoutes
<1>6. /\ <<"request correction", "me">> \in CorrectionRoutes
      /\ <<"my corrections", "me">> \in CorrectionRoutes
      /\ <<"corrections of department", "managerOfDepartment">> \in CorrectionRoutes
      /\ <<"review correction", "manager">> \in CorrectionRoutes
  BY DEF CorrectionRoutes
<1>7. /\ <<"leave types", "me">> \in LeaveTypeRoutes
      /\ <<"leave types", "admin">> \in LeaveTypeRoutes
      /\ <<"write leave type", "admin">> \in LeaveTypeRoutes
  BY DEF LeaveTypeRoutes
<1>8. /\ <<"departments", "admin">> \in DepartmentReads
      /\ <<"create user", "admin">> \in UserWrites /\ <<"update user", "admin">> \in UserWrites
      /\ <<"import users", "admin">> \in UserImport
      /\ <<"activate user", "admin">> \in UserStatus
      /\ <<"deactivate user", "admin">> \in UserStatus
      /\ <<"payroll", "admin">> \in PayrollRoutes
      /\ <<"system log", "admin">> \in LogRoutes /\ <<"mark log", "admin">> \in LogRoutes
  BY DEF DepartmentReads, UserWrites, UserImport, UserStatus, PayrollRoutes, LogRoutes
<1>9. QED
  BY <1>1, <1>2, <1>3, <1>4, <1>5, <1>6, <1>7, <1>8

\* Who passes the guards of the routes on which a paper or a colleague is met.
LEMMA RouteGuards ==
  ASSUME NEW u, NEW d
  PROVE  /\ CanActivate(u, "leaves of department", d) <=>
               SignedIn(u) /\ Grants("managerOfDepartment", u, d)
         /\ CanActivate(u, "user", d) <=>
               SignedIn(u) /\ \E g \in {"admin", "manager", "me"} : Grants(g, u, d)
         /\ CanActivate(u, "review leave", d) <=> SignedIn(u) /\ Grants("manager", u, d)
         /\ CanActivate(u, "review correction", d) => SignedIn(u)
         /\ ~Grants("admin", u, d) =>
               (CanActivate(u, "review correction", d) <=> SignedIn(u) /\ Grants("manager", u, d))
<1>1. /\ <<"leaves of department", "managerOfDepartment">> \in Permissions
      /\ <<"user", "manager">> \in Permissions /\ <<"user", "me">> \in Permissions
      /\ <<"review leave", "manager">> \in Permissions
      /\ <<"review correction", "manager">> \in Permissions
      /\ <<"user", "admin">> \in Permissions
  <2>1. <<"user", "admin">> \in UserReads /\ UserReads \subseteq Permissions
    BY DEF UserReads, Permissions
  <2>2. QED
    BY <2>1, PagePermissions
<1>2. CanActivate(u, "leaves of department", d) <=>
        SignedIn(u) /\ Grants("managerOfDepartment", u, d)
  BY <1>1, ManagerPermissions DEF CanActivate
<1>3. CanActivate(u, "user", d) <=>
        SignedIn(u) /\ \E g \in {"admin", "manager", "me"} : Grants(g, u, d)
  <2>1. ASSUME CanActivate(u, "user", d)
        PROVE  SignedIn(u) /\ \E g \in {"admin", "manager", "me"} : Grants(g, u, d)
    BY <2>1, ManagerPermissions DEF CanActivate
  <2>2. ASSUME SignedIn(u), NEW g \in {"admin", "manager", "me"}, Grants(g, u, d)
        PROVE  CanActivate(u, "user", d)
    <3>1. <<"user", g>> \in Permissions
      BY <1>1
    <3>2. QED
      BY <2>2, <3>1 DEF CanActivate
  <2>3. QED
    BY <2>1, <2>2
<1>4. CanActivate(u, "review leave", d) <=> SignedIn(u) /\ Grants("manager", u, d)
  BY <1>1, ManagerPermissions DEF CanActivate
<1>5. /\ CanActivate(u, "review correction", d) => SignedIn(u)
      /\ ~Grants("admin", u, d) =>
            (CanActivate(u, "review correction", d) <=> SignedIn(u) /\ Grants("manager", u, d))
  BY <1>1, ManagerPermissions DEF CanActivate
<1>6. QED
  BY <1>2, <1>3, <1>4, <1>5

\* Somebody with a fresh token has a role, and the token says where.
LEMMA FreshToken ==
  ASSUME Held, Claims, NEW u \in Users, Fresh(u)
  PROVE  /\ token[u] = user[u] /\ SignedIn(u) /\ token[u].role \in Roles
         /\ user[u].dept \in Depts \cup {None} /\ None \notin Users
         /\ user[u].role = "manager" /\ ~Unplaced(u) => user[u].dept \in Depts
<1>1. token[u] = user[u] /\ SignedIn(u) /\ token[u].role \in Roles
  BY DEF Fresh, SignedIn, Claims
<1>2. user[u] \in Place /\ None \notin Users
  BY NoneAssumption DEF Held, TypeOK
<1>3. QED
  BY <1>1, <1>2 DEF Unplaced, Place

\* Nothing that a page sends is refused to somebody whose token is fresh and who is
\* no manager of no department, whatever the organisation looks like (the @Permissions of the controllers, the guards, the
\* services of the pages).
THEOREM PagesAlwaysServed == AccessSpec => []PagesServed
<1>1. ASSUME Held, Claims, NEW u \in Users, Fresh(u), ~Unplaced(u)
      PROVE  /\ \A r \in Sent(u) : CanActivate(u, r[1], r[2])
             /\ token[u].role = "manager" => ReportDepartment(u) # None
  <2> DEFINE Opens(r) == CanActivate(u, r[1], r[2])
  <2>1. /\ token[u] = user[u] /\ SignedIn(u) /\ token[u].role \in Roles
        /\ user[u].role = "manager" => user[u].dept \in Depts
        /\ None \notin Users /\ None \notin Depts
    BY <1>1, FreshToken, NoneAssumption
  <2>2. ASSUME NEW r, \E p \in Permissions : p[1] = r[1] /\ Grants(p[2], u, r[2])
        PROVE  Opens(r)
    BY <2>1, <2>2 DEF CanActivate
  <2>3. ASSUME NEW r, <<r[1], "me">> \in Permissions, r[2] \in {u, None}
        PROVE  Opens(r)
    <3>1. Grants("me", u, r[2])
      BY <2>3 DEF Grants, IsMe
    <3>2. QED
      BY <2>2, <2>3, <3>1
  <2>4. ASSUME NEW r, <<r[1], "admin">> \in Permissions, token[u].role = "admin"
        PROVE  Opens(r)
    <3>1. Grants("admin", u, r[2])
      BY <2>4 DEF Grants, CheckAuthIsAdmin
    <3>2. QED
      BY <2>2, <2>4, <3>1
  <2>5. ASSUME NEW r, <<r[1], "manager">> \in Permissions, r[2] = None,
               token[u].role = "manager"
        PROVE  Opens(r)
    <3>1. Grants("manager", u, None)
      BY <2>1, <2>5 DEF Grants, IsManager
    <3>2. QED
      BY <2>2, <2>5, <3>1
  <2>6. ASSUME NEW r, <<r[1], "managerOfDepartment">> \in Permissions,
               r[2] = token[u].dept, token[u].role = "manager"
        PROVE  Opens(r)
    <3>1. Grants("managerOfDepartment", u, token[u].dept)
      BY <2>1, <2>6 DEF Grants, CheckAuthIsManagerOfDepartment, IsManager
    <3>2. QED
      BY <2>2, <2>6, <3>1
  <2>7. \A r \in ProfileRequests(u) : Opens(r)
    BY <2>3, PagePermissions DEF ProfileRequests
  <2>8. CASE token[u].role = "employee"
    <3>1. \A r \in AttendanceRequests(u) \cup SheetRequests(u) : Opens(r)
      BY <2>3, PagePermissions DEF AttendanceRequests, SheetRequests
    <3>2. \A r \in LeaveRequests(u) \cup CorrectionRequests(u) : Opens(r)
      BY <2>3, PagePermissions DEF LeaveRequests, CorrectionRequests
    <3>3. Sent(u) = ProfileRequests(u) \cup (AttendanceRequests(u) \cup SheetRequests(u)
                      \cup LeaveRequests(u) \cup CorrectionRequests(u))
      BY <2>8 DEF Sent
    <3>4. QED
      BY <2>7, <2>8, <3>1, <3>2, <3>3
  <2>9. CASE token[u].role = "manager"
    <3>1. \A r \in TeamRequests(u) : Opens(r)
      BY <2>6, <2>9, PagePermissions DEF TeamRequests
    <3>2. \A r \in ReviewLists : Opens(r)
      BY <2>5, <2>9, PagePermissions DEF ReviewLists
    <3>3. Sent(u) = ProfileRequests(u) \cup (TeamRequests(u) \cup ReviewLists)
      BY <2>9 DEF Sent
    <3>4. ReportDepartment(u) # None
      BY <2>1, <2>9 DEF ReportDepartment
    <3>5. QED
      BY <2>7, <3>1, <3>2, <3>3, <3>4
  <2>10. CASE token[u].role = "admin"
    <3>1. \A r \in HrLoads \cup HrLeaveTypes \cup HrPayroll \cup HrReport \cup HrLogs : Opens(r)
      BY <2>4, <2>10, PagePermissions DEF HrLoads, HrLeaveTypes, HrPayroll, HrReport, HrLogs
    <3>2. \A t \in Users : \A r \in HrUserWrites(t) \cup HrUserActions(t) : Opens(r)
      BY <2>4, <2>10, PagePermissions DEF HrUserWrites, HrUserActions
    <3> DEFINE loads == HrLoads \cup HrLeaveTypes \cup HrPayroll \cup HrReport \cup HrLogs
               writes == UNION {HrUserWrites(t) \cup HrUserActions(t) : t \in Users}
    <3>3. Sent(u) = ProfileRequests(u) \cup (loads \cup writes)
      BY <2>10 DEF Sent
    <3>4. \A r \in writes : \E t \in Users : r \in HrUserWrites(t) \cup HrUserActions(t)
      OBVIOUS
    <3> HIDE DEF writes
    <3>5. \A r \in Sent(u) : Opens(r)
      BY <2>7, <3>1, <3>2, <3>3, <3>4
    <3>6. QED
      BY <2>10, <3>5
  <2>11. QED
    BY <2>1, <2>8, <2>9, <2>10 DEF Roles
<1>2. Held /\ Claims => PagesServed
  BY <1>1 DEF PagesServed
<1>3. QED
  BY <1>2, AccessAlways, PTL

\* Where the seats agree, somebody who is no administrator holds the seat of just the
\* department that he or she is the manager of, and leads just those who work there.
LEMMA SeatIsRole ==
  ASSUME Held, Agree, NEW m \in Users, user[m].role # "admin", ~Unplaced(m)
  PROVE  /\ \A d \in Depts : seat[d] = m <=> (IsManager(m) /\ user[m].dept = d)
         /\ \A u \in Users : ManagerOf(u) = m <=> (IsManager(m) /\ user[u].dept = user[m].dept)
         /\ \A u \in Users : ManagerOf(u) = m => user[u].dept \in Depts
<1>1. /\ None \notin Users \cup Depts
      /\ \A u \in Users : user[u] \in Place /\ user[u].dept \in Depts \cup {None}
      /\ user[m].role = "manager" => user[m].dept # None
  BY NoneAssumption DEF Held, TypeOK, Place, Unplaced
<1>2. \A d \in Depts : seat[d] = m <=> (IsManager(m) /\ user[m].dept = d)
  BY <1>1 DEF Agree, IsManager
<1>3. ASSUME NEW u \in Users
      PROVE  /\ ManagerOf(u) = m <=> (IsManager(m) /\ user[u].dept = user[m].dept)
             /\ ManagerOf(u) = m => user[u].dept \in Depts
  <2>1. CASE user[u].dept = None
    BY <1>1, <2>1 DEF ManagerOf, IsManager
  <2>2. CASE user[u].dept \in Depts
    BY <1>1, <1>2, <2>2 DEF ManagerOf
  <2>3. QED
    BY <1>1, <2>1, <2>2
<1>4. QED
  BY <1>2, <1>3

\* The seven ways of asking who is somebody's manager mean one person: the guards by
\* role and department, the reviews by seat, and the five lists on the manager's page
\* (authorization guard, canReviewRequest, reviewLeaveApplication, the list queries).
THEOREM GuardsAlwaysFollowTheSeats == AccessSpec => []GuardsFollowTheSeats
<1>1. ASSUME Held, Nowhere, Claims, Agree, NEW m \in Users, Fresh(m), user[m].role # "admin",
             ~Unplaced(m)
      PROVE  /\ \A d \in Depts : CanActivate(m, "leaves of department", d) <=> seat[d] = m
             /\ \A u \in Users \ {m} : Exists(u) =>
                  (CanActivate(m, "user", u) <=> ManagerOf(u) = m)
             /\ \A kind \in Papers : MayDecide(m, kind) <=> ManagerOf(Sender) = m
             /\ user[m].role = "manager" => TeamLists(m) = {{u \in Users : ManagerOf(u) = m}}
  <2>1. /\ token[m] = user[m] /\ SignedIn(m) /\ token[m].role # "admin"
        /\ None \notin Users /\ None \notin Depts
        /\ user[m].role = "manager" => user[m].dept \in Depts
    BY <1>1, FreshToken, NoneAssumption
  <2>2. /\ \A d \in Depts : seat[d] = m <=> (IsManager(m) /\ user[m].dept = d)
        /\ \A u \in Users : ManagerOf(u) = m <=> (IsManager(m) /\ user[u].dept = user[m].dept)
    BY <1>1, SeatIsRole
  <2>3. \A d : /\ ~Grants("admin", m, d)
               /\ Grants("managerOfDepartment", m, d) <=> (IsManager(m) /\ user[m].dept = d)
    BY <2>1 DEF Grants, CheckAuthIsAdmin, CheckAuthIsManagerOfDepartment
  <2>4. \A d \in Depts : CanActivate(m, "leaves of department", d) <=> seat[d] = m
    BY <2>1, <2>2, <2>3, RouteGuards
  <2>5. ASSUME NEW u \in Users \ {m}, Exists(u)
        PROVE  CanActivate(m, "user", u) <=> ManagerOf(u) = m
    <3>1. ~Grants("me", m, u)
      BY <2>1 DEF Grants, IsMe
    <3>2. Grants("manager", m, u) <=> (IsManager(m) /\ user[u].dept = user[m].dept)
      BY <2>1, <2>5 DEF Grants, CheckAuthIsMyManager
    <3>3. CanActivate(m, "user", u) <=> Grants("manager", m, u)
      <4>1. \A g \in {"admin", "manager", "me"} : Grants(g, m, u) => g = "manager"
        BY <2>3, <3>1
      <4>2. QED
        BY <2>1, <4>1, RouteGuards
    <3>4. QED
      BY <2>2, <3>2, <3>3
  <2>6. ASSUME NEW kind \in Papers
        PROVE  MayDecide(m, kind) <=> ManagerOf(Sender) = m
    <3>1. Grants("manager", m, None) <=> IsManager(m)
      BY <2>1 DEF Grants
    <3>2. CanActivate(m, "review leave", None) <=> IsManager(m)
      BY <2>1, <3>1, RouteGuards
    <3>3. CanActivate(m, "review correction", None) <=> IsManager(m)
      BY <2>1, <2>3, <3>1, RouteGuards
    <3>4. ManagerOf(Sender) = m => IsManager(m)
      BY <2>2, SenderAssumption
    <3>5. CASE kind = "timesheet"
      BY <2>1, <3>5 DEF MayDecide, PassesGuard, PassesHandler, ReviewAuthGuard
    <3>6. CASE kind = "leave"
      BY <3>2, <3>4, <3>6 DEF MayDecide, PassesGuard, PassesHandler, MayReviewLeave
    <3>7. CASE kind = "correction"
      BY <1>1, <3>3, <3>4, <3>7 DEF MayDecide, PassesGuard, PassesHandler, CanReviewRequest
    <3>8. QED
      BY <3>5, <3>6, <3>7 DEF Papers
  <2>7. ASSUME user[m].role = "manager"
        PROVE  TeamLists(m) = {{u \in Users : ManagerOf(u) = m}}
    <3> DEFINE d == user[m].dept
               team == {u \in Users : ManagerOf(u) = m}
    <3>1. IsManager(m) /\ d \in Depts /\ d # None
      BY <2>1, <2>7 DEF IsManager
    <3>2. \A u \in Users : u \in team <=> user[u].dept = d
      BY <2>2, <3>1
    <3>3. \A u \in Users : user[u].dept = d => Exists(u)
      BY <1>1, <3>1 DEF Nowhere, Exists
    <3>4. StaffOf(d) = team
      BY <3>2, <3>3 DEF StaffOf
    <3>5. LeavesOf(d) = team /\ CorrectionsOf(d) = team
      BY <3>2 DEF LeavesOf, CorrectionsOf
    <3>6. ReviewListOf(m) = team
      BY DEF ReviewListOf
    <3>7. ReportOf(m) = team
      <4>1. ReportDepartment(m) = d
        BY <2>1, <3>1 DEF ReportDepartment
      <4>2. QED
        BY <2>1, <3>1, <3>2, <3>3, <4>1 DEF ReportOf
    <3> HIDE DEF team
    <3>8. TeamLists(m) = {StaffOf(d), LeavesOf(d), CorrectionsOf(d), ReviewListOf(m), ReportOf(m)}
      BY <2>1 DEF TeamLists
    <3>9. TeamLists(m) = {team}
      BY <3>4, <3>5, <3>6, <3>7, <3>8
    <3>10. QED
      BY <3>9 DEF team
  <2>8. QED
    BY <2>4, <2>5, <2>6, <2>7
<1>2. Held /\ Undrifted /\ Nowhere /\ Claims => GuardsFollowTheSeats
  <2> SUFFICES ASSUME Held, Undrifted, Nowhere, Claims, ~drift, ~raced
               PROVE  GuardsFollowTheSeats
    BY DEF GuardsFollowTheSeats
  <2>1. Agree
    BY DEF Undrifted, SeatsAgree
  <2>2. QED
    BY <1>1, <2>1 DEF GuardsFollowTheSeats
<1>3. QED
  BY <1>2, AccessAlways, PTL

\* However old a token and whatever it claims, the lists, the colleagues and the
\* reviews are open to administrators and to those who hold a seat now
\* (checkIsManager in the guards, getManagerIdOfUserID in the review guard).
THEOREM OldTokensAlwaysNeedASeat == AccessSpec => []OldTokensNeedASeat
<1>1. ASSUME Held, Agree, NEW m \in Users, SignedIn(m), token[m].role # "admin",
             ~Unplaced(m), OpensOthers(m)
      PROVE  Leads(m) # {}
  <2>1. None \notin Users /\ \A d : ~Grants("admin", m, d)
    BY <1>1, NoneAssumption DEF Grants, CheckAuthIsAdmin
  <2>2. IsManager(m) \/ ManagerOf(Sender) = m
    <3>1. ASSUME NEW d \in Depts, CanActivate(m, "leaves of department", d)
          PROVE  IsManager(m)
      BY <3>1, RouteGuards DEF Grants, CheckAuthIsManagerOfDepartment
    <3>2. ASSUME NEW u \in Users \ {m}, CanActivate(m, "user", u)
          PROVE  IsManager(m)
      <4>1. PICK g \in {"admin", "manager", "me"} : Grants(g, m, u)
        BY <3>2, RouteGuards
      <4>2. g = "manager"
        BY <2>1, <4>1 DEF Grants, IsMe
      <4>3. QED
        BY <4>1, <4>2 DEF Grants, CheckAuthIsMyManager
    <3>3. ASSUME NEW kind \in Papers, PassesGuard(m, kind)
          PROVE  IsManager(m) \/ ManagerOf(Sender) = m
      <4>1. Grants("manager", m, None) => IsManager(m)
        BY <2>1 DEF Grants
      <4>2. CASE kind = "timesheet"
        BY <3>3, <4>2 DEF PassesGuard, ReviewAuthGuard
      <4>3. CASE kind = "leave"
        BY <3>3, <4>1, <4>3, RouteGuards DEF PassesGuard
      <4>4. CASE kind = "correction"
        BY <2>1, <3>3, <4>1, <4>4, RouteGuards DEF PassesGuard
      <4>5. QED
        BY <4>2, <4>3, <4>4 DEF Papers
    <3>4. QED
      BY <1>1, <3>1, <3>2, <3>3 DEF OpensOthers
  <2>3. CASE IsManager(m)
    <3>1. user[m].role = "manager" /\ user[m].dept \in Depts
      BY <1>1, <2>3 DEF IsManager, Unplaced, Held, TypeOK, Place
    <3>2. seat[user[m].dept] = m
      BY <1>1, <3>1, NoneAssumption DEF Agree
    <3>3. QED
      BY <3>1, <3>2 DEF Leads
  <2>4. CASE ManagerOf(Sender) = m
    <3>1. user[Sender].dept \in Depts
      BY <1>1, <2>1, <2>4, SenderAssumption DEF ManagerOf, Held, TypeOK, Place
    <3>2. seat[user[Sender].dept] = m
      BY <2>1, <2>4 DEF ManagerOf
    <3>3. QED
      BY <3>1, <3>2 DEF Leads
  <2>5. QED
    BY <2>2, <2>3, <2>4
<1>2. Held /\ Undrifted => OldTokensNeedASeat
  BY <1>1 DEF Undrifted, SeatsAgree, OldTokensNeedASeat
<1>3. QED
  BY <1>2, AccessAlways, PTL
=============================================================================

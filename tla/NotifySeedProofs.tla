-------------------------- MODULE NotifySeedProofs --------------------------
(***************************************************************************)
(* Two components that share no state, proved in one module.               *)
(*                                                                         *)
(* Notifications, for any number of notes, tabs and overlapping loads: the *)
(* types, that no tab lists a note which has not been committed, and that  *)
(* every step implements a step of the abstract inbox, or none.            *)
(*                                                                         *)
(* The seed, whatever the database held before and whoever applies for     *)
(* leave: a seed writes only what it names, and writes it once; references *)
(* hold; and no decision nor the days it cost are lost but by the command  *)
(* on a database in use.                                                   *)
(* The transaction is first brought to a table-by-table form, SeededTables,*)
(* on which every later argument rests.                                    *)
(***************************************************************************)
EXTENDS Notify, Seed, FiniteSetTheorems, TLAPS

\* What is known to the tabs or on its way to them is committed.
Committed(n) == row[n] \in {"unread", "read"}
LoadsReal ==
    \A t \in Tabs, s \in Slots, n \in Notes :
        load[t][s].items # Nothing /\ load[t][s].items[n] # "none" => Committed(n)
MarksReal == \A t \in Tabs, n \in Notes : n \in mark[t] => Committed(n)
IInv == TypeOK /\ NothingUnreal /\ LoadsReal /\ MarksReal

\* The number of notes not read is a number.
LEMMA UnreadCountIsNat == UnreadCount \in Nat
  <1>1. {n \in Notes : row[n] = "unread"} \subseteq Notes
    OBVIOUS
  <1>2. IsFiniteSet({n \in Notes : row[n] = "unread"})
    BY <1>1, FS_Subset, NotifyAssumption
  <1> QED
    BY <1>2, FS_CardinalityType DEF UnreadCount

\* A new load uses a free slot and disturbs no other.
LEMMA RefreshesOneSlot ==
    ASSUME NEW t \in Tabs, TypeOK, Refreshes(t)
    PROVE  \E s \in Slots : load' = [load EXCEPT ![t][s] = Sent]
  <1>1. PICK s : s \in Free(t) /\ s = CHOOSE x \in Free(t) : TRUE
    BY DEF Refreshes
  <1>2. s \in Slots
    BY <1>1 DEF Free
  <1>3. load' = [load EXCEPT ![t][s] = Sent]
    BY <1>1 DEF Refreshes
  <1> QED
    BY <1>2, <1>3

LEMMA InitIInv == Init => IInv
  <1> SUFFICES ASSUME Init PROVE IInv
    OBVIOUS
  <1>1. TypeOK
    BY NotifyAssumption DEF Init, TypeOK, Rows, Listing, Load, Sent, Unused
  <1>2. NothingUnreal /\ LoadsReal /\ MarksReal
    BY DEF Init, NothingUnreal, LoadsReal, MarksReal, Sent, Unused
  <1> QED
    BY <1>1, <1>2 DEF IInv

\* Types.
LEMMA NextTypeOK == TypeOK /\ [Next]_vars => TypeOK'
  <1> SUFFICES ASSUME TypeOK, [Next]_vars PROVE TypeOK'
    OBVIOUS
  <1> USE NotifyAssumption DEF TypeOK, Rows
  <1>1. CASE UNCHANGED vars
    BY <1>1 DEF vars
  <1>2. CASE Restart
    BY <1>2 DEF Restart
  <1>3. ASSUME NEW n \in Notes, Serve(n) PROVE TypeOK'
    <2>1. CASE Insert(n) \/ RollBack(n)
      BY <2>1 DEF Insert, RollBack
    <2>2. ASSUME Emit(n) PROVE ring' \in [Tabs -> SUBSET Notes]
      BY <2>2 DEF Emit, Rooms
    <2>3. CASE Tell(n)
      BY <2>2, <2>3 DEF Tell
    <2>4. CASE Commit(n)
      BY <2>2, <2>4 DEF Commit
    <2> QED
      BY <1>3, <2>1, <2>3, <2>4 DEF Serve
  <1>4. ASSUME NEW t \in Tabs, Refreshes(t) PROVE load' \in [Tabs -> [Slots -> Load]]
    <2>1. PICK s \in Slots : load' = [load EXCEPT ![t][s] = Sent]
      BY <1>4, RefreshesOneSlot
    <2> QED
      BY <2>1 DEF Sent, Unused, Load
  <1>5. ASSUME NEW t \in Tabs, Poll(t) PROVE TypeOK'
    BY <1>4, <1>5 DEF Poll
  <1>6. ASSUME NEW t \in Tabs, NEW s \in Slots, AnswerItems(t, s) PROVE TypeOK'
    <2>1. Listed \in Listing
      BY DEF Listed, Listing
    <2>2. load[t][s] \in Load
      OBVIOUS
    <2>3. [load[t][s] EXCEPT !.items = Listed] \in Load
      BY <2>1, <2>2 DEF Load
    <2>4. load' = [load EXCEPT ![t] = [load[t] EXCEPT ![s] = [load[t][s] EXCEPT !.items = Listed]]]
      BY <1>6 DEF AnswerItems
    <2> QED
      BY <1>6, <2>3, <2>4 DEF AnswerItems
  <1>7. ASSUME NEW t \in Tabs, NEW s \in Slots, AnswerCount(t, s) PROVE TypeOK'
    <2>1. load[t][s] \in Load
      OBVIOUS
    <2>2. [load[t][s] EXCEPT !.count = UnreadCount] \in Load
      BY <2>1, UnreadCountIsNat DEF Load
    <2>3. load' = [load EXCEPT ![t] = [load[t] EXCEPT ![s] = [load[t][s] EXCEPT !.count = UnreadCount]]]
      BY <1>7 DEF AnswerCount
    <2> QED
      BY <1>7, <2>2, <2>3 DEF AnswerCount
  <1>8. ASSUME NEW t \in Tabs, NEW s \in Slots, Land(t, s) PROVE TypeOK'
    <2>1. load[t][s] \in Load
      OBVIOUS
    <2>2. load[t][s].items \in Listing /\ load[t][s].count \in Nat
      BY <1>8, <2>1 DEF Land, Load
    <2> QED
      BY <1>8, <2>2 DEF Land, Load, Unused
  <1>9. ASSUME NEW t \in Tabs, NEW s \in Slots, Lose(t, s) PROVE TypeOK'
    BY <1>9 DEF Lose, Load, Unused
  <1>10. ASSUME NEW t \in Tabs, NEW n \in Notes, Ring(t, n) PROVE TypeOK'
    BY <1>4, <1>10 DEF Ring
  <1>11. ASSUME NEW t \in Tabs, NEW n \in Notes, Click(t, n) PROVE TypeOK'
    BY <1>11 DEF Click, Listing
  <1>12. ASSUME NEW t \in Tabs, NEW n \in Notes, MarkAsRead(t, n) PROVE TypeOK'
    BY <1>12 DEF MarkAsRead
  <1>13. ASSUME NEW t \in Tabs, NEW n \in Notes, MarkFails(t, n) PROVE TypeOK'
    BY <1>4, <1>13 DEF MarkFails
  <1> QED
    BY <1>1, <1>2, <1>3, <1>5, <1>6, <1>7, <1>8, <1>9, <1>10, <1>11, <1>12, <1>13
       DEF Next, Browse

\* What is committed stays committed.
LEMMA CommittedForGood ==
    ASSUME TypeOK, MarksReal, [Next]_vars, NEW n \in Notes, Committed(n)
    PROVE  Committed(n)'
  <1> USE DEF TypeOK, Committed, MarksReal
  <1>1. CASE UNCHANGED vars
    BY <1>1 DEF vars
  <1>2. CASE Restart
    BY <1>2 DEF Restart
  <1>3. CASE \E m \in Notes : Serve(m)
    BY <1>3 DEF Serve, Insert, Tell, Commit, RollBack
  <1>4. CASE \E t \in Tabs : Browse(t)
    BY <1>4 DEF Browse, Poll, AnswerItems, AnswerCount, Land, Lose, Ring, Click,
                MarkAsRead, MarkFails
  <1> QED
    BY <1>1, <1>2, <1>3, <1>4 DEF Next

LEMMA NextReal == IInv /\ [Next]_vars => (NothingUnreal /\ LoadsReal /\ MarksReal)'
  <1> SUFFICES ASSUME IInv, [Next]_vars PROVE (NothingUnreal /\ LoadsReal /\ MarksReal)'
    OBVIOUS
  <1> USE DEF IInv, TypeOK
  <1>1. \A n \in Notes : Committed(n) => Committed(n)'
    BY CommittedForGood
  <1>2. \A n \in Notes : Listed[n] # "none" => Committed(n)
    BY DEF Listed, Committed
  <1>3. NothingUnreal'
    <2> SUFFICES ASSUME NEW t \in Tabs, NEW n \in Notes, items'[t][n] # "none"
                 PROVE  Committed(n)'
      BY DEF NothingUnreal, Committed
    <2>1. CASE items'[t][n] = items[t][n]
      BY <1>1, <2>1 DEF NothingUnreal, Committed
    <2>2. CASE \E s \in Slots : Land(t, s)
      BY <1>1, <2>2 DEF Land, LoadsReal
    <2>3. CASE Click(t, n)
      BY <1>1, <2>3 DEF Click, NothingUnreal, Committed
    <2>4. CASE UNCHANGED items
      BY <2>1, <2>4
    <2>5. ASSUME NEW u \in Tabs, NEW s \in Slots, Land(u, s)
          PROVE  u = t \/ items'[t][n] = items[t][n]
      BY <2>5 DEF Land
    <2>6. ASSUME NEW u \in Tabs, NEW m \in Notes, Click(u, m)
          PROVE  (u = t /\ m = n) \/ items'[t][n] = items[t][n]
      BY <2>6 DEF Click, Listing
    <2>7. CASE UNCHANGED vars \/ Restart \/ \E m \in Notes : Serve(m)
      BY <2>4, <2>7 DEF vars, Restart, Serve, Insert, Tell, Commit, RollBack
    <2>8. ASSUME NEW u \in Tabs, Browse(u) PROVE Committed(n)'
      BY <2>1, <2>2, <2>3, <2>4, <2>5, <2>6, <2>8 DEF Browse, Poll, AnswerItems, AnswerCount,
         Lose, Ring, MarkAsRead, MarkFails
    <2> QED
      BY <2>7, <2>8 DEF Next
  <1>4. LoadsReal'
    <2> SUFFICES ASSUME NEW t \in Tabs, NEW s \in Slots, NEW n \in Notes,
                        load'[t][s].items # Nothing, load'[t][s].items[n] # "none"
                 PROVE  Committed(n)'
      BY DEF LoadsReal
    <2>1. CASE load'[t][s].items = load[t][s].items
      BY <1>1, <2>1 DEF LoadsReal
    <2>2. CASE load'[t][s].items = Listed
      BY <1>1, <1>2, <2>2
    <2>3. CASE load'[t][s].items = Nothing
      BY <2>3
    <2>4. ASSUME NEW u \in Tabs, Refreshes(u)
          PROVE  load'[t][s].items \in {load[t][s].items, Nothing}
      <3>1. PICK r \in Slots : load' = [load EXCEPT ![u][r] = Sent]
        BY <2>4, RefreshesOneSlot
      <3> QED
        BY <3>1 DEF Sent, Unused
    <2>5. ASSUME NEW u \in Tabs, Browse(u)
          PROVE  load'[t][s].items \in {load[t][s].items, Nothing, Listed}
      <3>1. CASE Poll(u) \/ \E m \in Notes : Ring(u, m) \/ MarkFails(u, m)
        BY <2>4, <3>1 DEF Poll, Ring, MarkFails
      <3>2. CASE \E m \in Notes : Click(u, m) \/ MarkAsRead(u, m)
        BY <3>2 DEF Click, MarkAsRead
      <3>3. CASE \E r \in Slots : AnswerItems(u, r) \/ AnswerCount(u, r)
        <4>1. PICK r \in Slots : AnswerItems(u, r) \/ AnswerCount(u, r)
          BY <3>3
        <4>2. PICK l \in {[load[u][r] EXCEPT !.items = Listed],
                          [load[u][r] EXCEPT !.count = UnreadCount]} :
                load' = [load EXCEPT ![u][r] = l]
          BY <4>1 DEF AnswerItems, AnswerCount
        <4>3. load[u][r] \in Load
          OBVIOUS
        <4>4. l.items \in {load[u][r].items, Listed}
          BY <4>2, <4>3 DEF Load
        <4> QED
          BY <4>2, <4>4
      <3>4. CASE \E r \in Slots : Land(u, r) \/ Lose(u, r)
        BY <3>4 DEF Land, Lose, Unused
      <3> QED
        BY <2>5, <3>1, <3>2, <3>3, <3>4 DEF Browse
    <2>6. CASE UNCHANGED load
      BY <2>1, <2>6
    <2> QED
      BY <2>1, <2>2, <2>3, <2>5, <2>6 DEF Next, vars, Restart, Serve, Insert, Tell, Commit,
         RollBack
  <1>5. MarksReal'
    <2> SUFFICES ASSUME NEW t \in Tabs, NEW n \in Notes, n \in mark'[t]
                 PROVE  Committed(n)'
      BY DEF MarksReal
    <2>1. CASE n \in mark[t]
      BY <1>1, <2>1 DEF MarksReal
    <2>2. CASE Click(t, n)
      BY <1>1, <2>2 DEF Click, NothingUnreal, Committed
    <2> QED
      BY <2>1, <2>2 DEF Next, vars, Restart, Serve, Insert, Tell, Commit, RollBack,
         Browse, Poll, AnswerItems, AnswerCount, Land, Lose, Ring, Click, MarkAsRead,
         MarkFails
  <1> QED
    BY <1>3, <1>4, <1>5

LEMMA NextIInv == IInv /\ [Next]_vars => IInv'
  BY NextTypeOK, NextReal DEF IInv

\* Rows, lists, loads and clicks keep their types.
THEOREM NotifyTypeCorrect == Spec => []TypeOK
  <1>1. IInv => TypeOK
    BY DEF IInv
  <1> QED
    BY <1>1, InitIInv, NextIInv, PTL DEF Spec

\* A note is listed only after the transaction that sends it has committed, in
\* every tab, although getMyNotifications is asked for it before.
THEOREM NothingUnrealAlways == Spec => []NothingUnreal
  <1>1. IInv => NothingUnreal
    BY DEF IInv
  <1> QED
    BY <1>1, InitIInv, NextIInv, PTL DEF Spec

-----------------------------------------------------------------------------
(* Refinement *)

\* A note is committed, and read, only in these ways.
LEMMA InboxPosts ==
    ASSUME IInv, NEW n \in Notes, Serve(n)
    PROVE  (AbstractInbox!Post(n) \/ UNCHANGED Posted) /\ UNCHANGED <<Seen, Shown>>
  <1> USE DEF IInv, TypeOK, Posted, Seen, Shown
  <1>1. CASE Commit(n)
    BY <1>1 DEF Commit, AbstractInbox!Post
  <1>2. CASE Insert(n) \/ Tell(n) \/ RollBack(n)
    BY <1>2 DEF Insert, Tell, RollBack
  <1> QED
    BY <1>1, <1>2 DEF Serve

\* A click that reaches the server reads the note, or one that was read already.
LEMMA InboxReads ==
    ASSUME IInv, NEW t \in Tabs, NEW n \in Notes, n \in mark[t],
           row' \in {row, [row EXCEPT ![n] = "read"]}, UNCHANGED items
    PROVE  AbstractInbox!Read(n) \/ UNCHANGED AbstractInbox!vars
  <1> USE DEF IInv, TypeOK, Posted, Seen, Shown, AbstractInbox!vars
  <1>1. n \in Posted /\ UNCHANGED <<Posted, Shown>>
    BY DEF MarksReal, Committed
  <1>2. CASE n \in Seen \/ row' = row
    <2>1. UNCHANGED Seen
      BY <1>2
    <2> QED
      BY <1>1, <2>1
  <1>3. CASE n \notin Seen /\ row' = [row EXCEPT ![n] = "read"]
    <2>1. Seen' = Seen \cup {n}
      BY <1>3
    <2> QED
      BY <1>1, <1>3, <2>1 DEF AbstractInbox!Read
  <1> QED
    BY <1>2, <1>3

\* What a tab lists afterwards is posted: it shows some of the inbox.
LEMMA InboxShows ==
    ASSUME IInv, [Next]_vars, NEW t \in Tabs, UNCHANGED row,
           \A u \in Tabs \ {t} : items'[u] = items[u]
    PROVE  AbstractInbox!Show(t)
  <1>1. NothingUnreal' /\ TypeOK'
    BY NextIInv DEF IInv
  <1>2. UNCHANGED <<Posted, Seen>>
    BY DEF Posted, Seen
  <1>3. PICK seen : seen = {n \in Notes : items'[t][n] # "none"}
    OBVIOUS
  <1>4. seen \in SUBSET Posted
    BY <1>1, <1>3 DEF NothingUnreal, Posted
  <1>5. Shown' = [Shown EXCEPT ![t] = seen]
    BY <1>3 DEF Shown
  <1> QED
    BY <1>2, <1>4, <1>5 DEF AbstractInbox!Show

LEMMA InboxStep == IInv /\ [Next]_vars => [AbstractInbox!Next]_(AbstractInbox!vars)
  <1> SUFFICES ASSUME IInv, [Next]_vars PROVE [AbstractInbox!Next]_(AbstractInbox!vars)
    OBVIOUS
  <1> USE DEF IInv, TypeOK, AbstractInbox!Next
  <1>1. CASE UNCHANGED vars \/ Restart
    <2>1. \A n \in Notes : (row'[n] = row[n]) \/ (row[n] \in {"open", "told"} /\ row'[n] = "gone")
      BY <1>1 DEF vars, Restart
    <2>2. UNCHANGED <<Posted, Seen, Shown>>
      BY <1>1, <2>1 DEF vars, Restart, Posted, Seen, Shown
    <2> QED
      BY <2>2 DEF AbstractInbox!vars
  <1>2. CASE \E n \in Notes : Serve(n)
    BY <1>2, InboxPosts DEF AbstractInbox!vars, AbstractInbox!Post
  <1>3. ASSUME NEW t \in Tabs, NEW n \in Notes, MarkAsRead(t, n) \/ MarkFails(t, n)
        PROVE  [AbstractInbox!Next]_(AbstractInbox!vars)
    BY <1>3, InboxReads DEF MarkAsRead, MarkFails
  <1>4. ASSUME NEW t \in Tabs, Browse(t),
               ~ \E n \in Notes : MarkAsRead(t, n) \/ MarkFails(t, n)
        PROVE  AbstractInbox!Show(t)
    <2>1. UNCHANGED row
      BY <1>4 DEF Browse, Poll, AnswerItems, AnswerCount, Land, Lose, Ring, Click
    <2>2. \A u \in Tabs \ {t} : items'[u] = items[u]
      BY <1>4 DEF Browse, Poll, AnswerItems, AnswerCount, Land, Lose, Ring, Click
    <2> QED
      BY <2>1, <2>2, InboxShows
  <1> QED
    BY <1>1, <1>2, <1>3, <1>4 DEF Next

\* Every step of the server and of the tabs is a step of the abstract inbox, or
\* none: notes are posted once, never taken back, and read only when posted.
THEOREM StepsImplementInbox ==
    Spec => AbstractInbox!Init /\ [][AbstractInbox!Next]_(AbstractInbox!vars)
  <1>1. Init => AbstractInbox!Init
    BY DEF Init, AbstractInbox!Init, Posted, Seen, Shown
  <1> QED
    BY <1>1, InitIInv, NextIInv, InboxStep, PTL DEF Spec

-----------------------------------------------------------------------------
(* Seed: the rows of a leave type *)

\* The row that is kept for a leave type, once the rows are merged.
One(types, key) == Coded(Canonical(types, key), key)

\* The rows after the codes are given, and after the merge.
CodedTypes(types) == {Coding(types, t) : t \in types \cup {Canonical(types, k) : k \in LeaveTypes}}
MergedTypes(types) == {Merging(CodedTypes(types), t) : t \in CodedTypes(types)}

\* What becomes of the row of an application.
Retyped(types, t) == Merging(CodedTypes(types), Coding(types, t))

LEMMA NameHasKey ==
  /\ \A k : Today(k)[1] = k /\ Garbled(k)[1] = k
  /\ \A k, m : Today(k) = Today(m) => k = m
  /\ \A k, m : Today(k) # Garbled(m)
BY DEF Today, Garbled

LEMMA KeyOfRow ==
  ASSUME NEW t \in TypeRow
  PROVE  /\ Key(t) \in LeaveTypes \cup {"custom"}
         /\ t.name \in {Today(Key(t)), Garbled(Key(t))}
BY NameHasKey DEF TypeRow, Key, Names

\* The canonical row bears today's name, and is in the table if one row does.
LEMMA CanonicalRow ==
  ASSUME NEW types \in SUBSET TypeRow, NEW key \in LeaveTypes
  PROVE  /\ Canonical(types, key) \in TypeRow
         /\ Canonical(types, key).name = Today(key)
         /\ Key(Canonical(types, key)) = key
         /\ (\E t \in types : t.name = Today(key)) => Canonical(types, key) \in types
<1> DEFINE named == {t \in types : t.name = Today(key)}
<1>1. CASE named = {}
  <2>1. Canonical(types, key) = [name |-> Today(key), code |-> key, copy |-> 0]
    BY <1>1 DEF Canonical
  <2>2. Today(key) \in Names(LeaveTypes \cup {"custom"})
    BY DEF Names
  <2>3. QED
    BY <1>1, <2>1, <2>2, NameHasKey DEF TypeRow, Key
<1>2. CASE named # {}
  <2>1. \E t \in named : \A s \in named : t.copy <= s.copy
    <3>1. \A t \in named : t.copy \in 0..1
      BY DEF TypeRow
    <3>2. CASE \E t \in named : t.copy = 0
      BY <3>1, <3>2
    <3>3. CASE \A t \in named : t.copy = 1
      BY <1>2, <3>1, <3>3
    <3>4. QED
      BY <3>1, <3>2, <3>3
  <2>2. Canonical(types, key) = CHOOSE t \in named : \A s \in named : t.copy <= s.copy
    BY <1>2 DEF Canonical
  <2>3. Canonical(types, key) \in named
    BY <2>1, <2>2
  <2>4. QED
    BY <2>3, NameHasKey DEF Key
<1>3. QED
  BY <1>1, <1>2

LEMMA CodedRow ==
  ASSUME NEW t \in TypeRow, NEW key \in LeaveTypes
  PROVE  /\ Coded(t, key) \in TypeRow
         /\ Coded(t, key).name = t.name /\ Key(Coded(t, key)) = Key(t)
         /\ Coded(Coded(t, key), key) = Coded(t, key)
BY DEF Coded, TypeRow, Key

LEMMA CodingRow ==
  ASSUME NEW types \in SUBSET TypeRow, NEW t \in TypeRow
  PROVE  /\ Coding(types, t) \in TypeRow
         /\ Coding(types, t).name = t.name /\ Key(Coding(types, t)) = Key(t)
         /\ Key(t) \notin LeaveTypes => Coding(types, t) = t
<1>1. CASE \E key \in LeaveTypes : t = Canonical(types, key)
  <2>1. Key(t) \in LeaveTypes
    BY <1>1, CanonicalRow
  <2>2. QED
    BY <1>1, <2>1, CodedRow DEF Coding
<1>2. CASE ~\E key \in LeaveTypes : t = Canonical(types, key)
  BY <1>2 DEF Coding
<1>3. QED
  BY <1>1, <1>2

LEMMA CodedTable ==
  ASSUME NEW types \in SUBSET TypeRow
  PROVE  /\ CodedTypes(types) \in SUBSET TypeRow
         /\ \A key \in LeaveTypes : Canonical(CodedTypes(types), key) \in CodedTypes(types)
         /\ \A t \in CodedTypes(types) : Key(t) \notin LeaveTypes => t \in types
         /\ \A t \in types : Key(t) \notin LeaveTypes => t \in CodedTypes(types)
<1>1. \A key \in LeaveTypes : Canonical(types, key) \in TypeRow /\ Key(Canonical(types, key)) = key
  BY CanonicalRow
<1>2. CodedTypes(types) \in SUBSET TypeRow
  BY <1>1, CodingRow DEF CodedTypes
<1>3. ASSUME NEW key \in LeaveTypes PROVE Canonical(CodedTypes(types), key) \in CodedTypes(types)
  <2>1. Coding(types, Canonical(types, key)) \in CodedTypes(types)
    BY DEF CodedTypes
  <2>2. Coding(types, Canonical(types, key)).name = Today(key)
    BY <1>1, CodingRow, CanonicalRow
  <2>3. QED
    BY <1>2, <2>1, <2>2, CanonicalRow
<1>4. ASSUME NEW t \in CodedTypes(types), Key(t) \notin LeaveTypes PROVE t \in types
  <2>1. PICK s \in types \cup {Canonical(types, k) : k \in LeaveTypes} : t = Coding(types, s)
    BY DEF CodedTypes
  <2>2. s \in TypeRow /\ Key(s) = Key(t)
    BY <1>1, <2>1, CodingRow
  <2>3. s = t
    BY <1>4, <2>1, <2>2, CodingRow
  <2>4. QED
    BY <1>1, <1>4, <2>1, <2>3
<1>5. ASSUME NEW t \in types, Key(t) \notin LeaveTypes PROVE t \in CodedTypes(types)
  BY <1>5, CodingRow DEF CodedTypes
<1>6. QED
  BY <1>2, <1>3, <1>4, <1>5

\* A row of a seeded type becomes the one row of that type, any other stays.
LEMMA RetypedRow ==
  ASSUME NEW types \in SUBSET TypeRow, NEW t \in TypeRow
  PROVE  /\ Retyped(types, t) = IF Key(t) \in LeaveTypes THEN One(CodedTypes(types), Key(t)) ELSE t
         /\ Retyped(types, t) \in TypeRow /\ Key(Retyped(types, t)) = Key(t)
<1>1. Coding(types, t) \in TypeRow /\ Key(Coding(types, t)) = Key(t)
  BY CodingRow
<1>2. Retyped(types, t) = IF Key(t) \in LeaveTypes THEN One(CodedTypes(types), Key(t)) ELSE t
  BY <1>1, CodingRow DEF Retyped, Merging, One
<1>3. CASE Key(t) \in LeaveTypes
  <2>1. Canonical(CodedTypes(types), Key(t)) \in TypeRow
        /\ Key(Canonical(CodedTypes(types), Key(t))) = Key(t)
    BY <1>3, CodedTable, CanonicalRow
  <2>2. QED
    BY <1>2, <1>3, <2>1, CodedRow DEF One
<1>4. QED
  BY <1>2, <1>3

\* After the merge each type of the seed has exactly one row.
LEMMA MergedTable ==
  ASSUME NEW types \in SUBSET TypeRow
  PROVE  /\ MergedTypes(types) \in SUBSET TypeRow
         /\ \A key \in LeaveTypes :
               /\ One(CodedTypes(types), key) \in MergedTypes(types)
               /\ Canonical(MergedTypes(types), key) = One(CodedTypes(types), key)
               /\ Coded(One(CodedTypes(types), key), key) = One(CodedTypes(types), key)
               /\ Key(One(CodedTypes(types), key)) = key
               /\ One(CodedTypes(types), key).name = Today(key)
         /\ \A t \in MergedTypes(types) : Key(t) \in LeaveTypes => t = One(CodedTypes(types), Key(t))
         /\ \A t \in types : Retyped(types, t) \in MergedTypes(types)
<1> DEFINE coded == CodedTypes(types)
           one(key) == One(coded, key)
<1> HIDE DEF coded, one
<1>1. coded \in SUBSET TypeRow /\ \A key \in LeaveTypes : Canonical(coded, key) \in coded
  BY CodedTable DEF coded
<1>2. ASSUME NEW key \in LeaveTypes
      PROVE  /\ one(key) \in TypeRow /\ Key(one(key)) = key /\ one(key).name = Today(key)
             /\ Coded(one(key), key) = one(key)
  BY <1>1, CanonicalRow, CodedRow DEF one, One
<1>3. \A t : Merging(coded, t) = IF Key(t) \in LeaveTypes THEN one(Key(t)) ELSE t
  BY DEF Merging, one, One
<1>4. MergedTypes(types) = {Merging(coded, t) : t \in coded}
  BY DEF MergedTypes, coded
<1>5. MergedTypes(types) \in SUBSET TypeRow
  BY <1>1, <1>2, <1>3, <1>4
<1>6. ASSUME NEW t \in MergedTypes(types), Key(t) \in LeaveTypes PROVE t = one(Key(t))
  BY <1>2, <1>3, <1>4, <1>6
<1>7. ASSUME NEW key \in LeaveTypes PROVE one(key) \in MergedTypes(types)
  <2>1. Key(Canonical(coded, key)) = key
    BY <1>1, CanonicalRow
  <2>2. QED
    BY <1>1, <1>3, <1>4, <2>1
<1>8. ASSUME NEW key \in LeaveTypes PROVE Canonical(MergedTypes(types), key) = one(key)
  <2>1. /\ Canonical(MergedTypes(types), key) \in MergedTypes(types)
        /\ Key(Canonical(MergedTypes(types), key)) = key
    BY <1>2, <1>5, <1>7, CanonicalRow
  <2>2. QED
    BY <1>6, <2>1
<1>9. ASSUME NEW t \in types PROVE Retyped(types, t) \in MergedTypes(types)
  <2>1. Coding(types, t) \in coded
    BY DEF CodedTypes, coded
  <2>2. QED
    BY <1>4, <2>1 DEF Retyped, coded
<1>10. QED
  BY <1>2, <1>5, <1>6, <1>7, <1>8, <1>9 DEF one, coded

\* Merging what is merged changes nothing.
LEMMA MergedOnce ==
  ASSUME NEW types \in SUBSET TypeRow
  PROVE  /\ CodedTypes(MergedTypes(types)) = MergedTypes(types)
         /\ MergedTypes(MergedTypes(types)) = MergedTypes(types)
         /\ \A t \in TypeRow : Retyped(MergedTypes(types), t) = Retyped(types, t)
         /\ \A key \in LeaveTypes : One(CodedTypes(MergedTypes(types)), key) = One(CodedTypes(types), key)
<1> DEFINE merged == MergedTypes(types)
           one(key) == One(CodedTypes(types), key)
<1> HIDE DEF merged, one
<1>1. /\ merged \in SUBSET TypeRow
      /\ \A key \in LeaveTypes : /\ one(key) \in merged /\ Canonical(merged, key) = one(key)
                                 /\ Coded(one(key), key) = one(key) /\ Key(one(key)) = key
      /\ \A t \in merged : Key(t) \in LeaveTypes => t = one(Key(t))
  BY MergedTable DEF merged, one
<1>2. \A t : Coding(merged, t) = t
  BY <1>1 DEF Coding
<1>3. CodedTypes(merged) = merged
  BY <1>1, <1>2 DEF CodedTypes
<1>4. \A key \in LeaveTypes : One(merged, key) = one(key)
  BY <1>1 DEF One
<1>5. \A t \in merged : Merging(merged, t) = t
  BY <1>1 DEF Merging
<1>6. MergedTypes(merged) = merged
  BY <1>3, <1>5 DEF MergedTypes
<1>7. \A t \in TypeRow : Retyped(merged, t) = Retyped(types, t)
  BY <1>1, <1>3, <1>4, RetypedRow DEF one
<1>8. QED
  BY <1>3, <1>4, <1>6, <1>7 DEF merged, one

-----------------------------------------------------------------------------
(* Seed: what the transaction does, table by table *)

LEMMA Tables ==
  ASSUME NEW d \in Database
  PROVE  /\ d.roles \in SUBSET (RoleNames \cup {LegacyRole, NoneRole, OtherRole})
         /\ d.departments \in SUBSET Names(Departments) /\ d.types \in SUBSET TypeRow
         /\ d.seat \in [Departments -> Users \cup {Nobody}] /\ d.users \in [Users -> Person]
         /\ d.sheets \in [Users -> Sheet] /\ d.leaves \in SUBSET LeaveRow
         /\ d.payrolls \in [Users -> Nat] /\ d.notes \in SUBSET NoteRow
         /\ d.oldName \in BOOLEAN /\ d.warnings \in SUBSET Users
         /\ d.corrections \in SUBSET (Users \X Users)
BY DEF Database

LEMMA SameTables ==
  ASSUME NEW d \in Database, NEW e \in Database,
         d.roles = e.roles, d.departments = e.departments, d.types = e.types, d.seat = e.seat,
         d.users = e.users, d.sheets = e.sheets, d.leaves = e.leaves,
         d.payrolls = e.payrolls, d.notes = e.notes, d.oldName = e.oldName,
         d.warnings = e.warnings, d.corrections = e.corrections
  PROVE  d = e
BY DEF Database

LEMMA RetypedLeave ==
  ASSUME NEW l \in LeaveRow, NEW t \in TypeRow
  PROVE  /\ [l EXCEPT !.type = t] \in LeaveRow /\ [l EXCEPT !.type = t].type = t
         /\ [l EXCEPT !.type = t].who = l.who /\ [l EXCEPT !.type = t].no = l.no
         /\ [l EXCEPT !.type = t].from = l.from /\ [l EXCEPT !.type = t].status = l.status
         /\ [l EXCEPT !.type = t].reviewer = l.reviewer
         /\ \A s : [[l EXCEPT !.type = t] EXCEPT !.type = s] = [l EXCEPT !.type = s]
         /\ l.type = t => [l EXCEPT !.type = t] = l
BY DEF LeaveRow

\* Roles, departments and leave types.
LEMMA TablesStage ==
  ASSUME NEW d \in Database, NEW e, e = SeedLeaveTypes(SeedDepartments(SeedRoles(d)))
  PROVE  /\ e \in Database
         /\ e.roles = d.roles \cup RoleNames
         /\ e.departments = d.departments \cup {Today(k) : k \in Departments}
         /\ e.types = CodedTypes(d.types)
         /\ e.leaves = {[l EXCEPT !.type = Coding(d.types, l.type)] : l \in d.leaves}
         /\ e.seat = d.seat /\ e.users = d.users /\ e.sheets = d.sheets
         /\ e.payrolls = d.payrolls /\ e.notes = d.notes /\ e.oldName = d.oldName
         /\ e.warnings = d.warnings /\ e.corrections = d.corrections
<1> DEFINE c == SeedDepartments(SeedRoles(d))
<1>1. /\ c \in Database /\ c.roles = d.roles \cup RoleNames
      /\ c.departments = d.departments \cup {Today(k) : k \in Departments}
      /\ c.types = d.types /\ c.leaves = d.leaves /\ c.seat = d.seat /\ c.users = d.users
      /\ c.sheets = d.sheets /\ c.payrolls = d.payrolls /\ c.notes = d.notes /\ c.oldName = d.oldName
      /\ c.warnings = d.warnings /\ c.corrections = d.corrections
  <2>1. {Today(k) : k \in Departments} \in SUBSET Names(Departments)
    BY DEF Names
  <2>2. QED
    BY <2>1 DEF SeedDepartments, SeedRoles, Database
<1> HIDE DEF c
<1> DEFINE types == CodedTypes(c.types)
           leaves == {[l EXCEPT !.type = Coding(c.types, l.type)] : l \in c.leaves}
<1>2. types \in SUBSET TypeRow
  BY <1>1, CodedTable DEF Database
<1>3. leaves \in SUBSET LeaveRow
  <2>1. ASSUME NEW l \in c.leaves PROVE [l EXCEPT !.type = Coding(c.types, l.type)] \in LeaveRow
    <3>1. l \in LeaveRow /\ l.type \in TypeRow /\ c.types \in SUBSET TypeRow
      BY <1>1 DEF Database, LeaveRow
    <3>2. Coding(c.types, l.type) \in TypeRow
      BY <3>1, CodingRow
    <3>3. QED
      BY <3>1, <3>2, RetypedLeave
  <2>2. QED
    BY <2>1
<1>4. e = [c EXCEPT !.types = types, !.leaves = leaves]
  BY DEF SeedLeaveTypes, CodedTypes, c
<1>5. QED
  <2> HIDE DEF types, leaves
  <2>1. /\ e \in Database /\ e.types = types /\ e.leaves = leaves
        /\ e.roles = c.roles /\ e.departments = c.departments /\ e.seat = c.seat
        /\ e.users = c.users /\ e.sheets = c.sheets
        /\ e.payrolls = c.payrolls /\ e.notes = c.notes /\ e.oldName = c.oldName
        /\ e.warnings = c.warnings /\ e.corrections = c.corrections
    BY <1>1, <1>2, <1>3, <1>4 DEF Database
  <2>2. QED
    BY <1>1, <2>1 DEF types, leaves

\* A person of a department with an old name belongs to the one with today's.
Placed(p) ==
  IF \E k \in Departments : p.dept = Garbled(k)
  THEN [p EXCEPT !.dept = Today((CHOOSE k \in Departments : p.dept = Garbled(k)))]
  ELSE p

LEMMA PlacedPerson ==
  ASSUME NEW p \in Person
  PROVE  /\ Placed(p) \in Person /\ Placed(p).role = p.role /\ Placed(p).remain = p.remain
         /\ \A k \in Departments : Placed(p).dept # Garbled(k)
         /\ \/ Placed(p).dept = p.dept
            \/ /\ p.dept \in {Garbled(k) : k \in Departments}
               /\ Placed(p).dept \in {Today(k) : k \in Departments}
         /\ (\A k \in Departments : p.dept # Garbled(k)) => Placed(p) = p
<1>1. CASE \E k \in Departments : p.dept = Garbled(k)
  <2>1. PICK k \in Departments : Placed(p) = [p EXCEPT !.dept = Today(k)]
    BY <1>1 DEF Placed
  <2>2. Today(k) \in Names(Departments)
    BY DEF Names
  <2>3. QED
    BY <1>1, <2>1, <2>2, NameHasKey DEF Person
<1>2. CASE ~\E k \in Departments : p.dept = Garbled(k)
  BY <1>2 DEF Placed
<1>3. QED
  BY <1>1, <1>2

\* The merge of departments and of leave types.
LEMMA MergeStage ==
  ASSUME NEW d \in Database,
         NEW e, e = MergeLegacyLeaveTypes(MergeLegacyDepartments(
                      SeedLeaveTypes(SeedDepartments(SeedRoles(d)))))
  PROVE  /\ e \in Database
         /\ e.roles = d.roles \cup RoleNames
         /\ e.departments = (d.departments \cup {Today(k) : k \in Departments})
                               \ {Garbled(k) : k \in Departments}
         /\ e.types = MergedTypes(d.types)
         /\ e.leaves = {[l EXCEPT !.type = Retyped(d.types, l.type)] : l \in d.leaves}
         /\ e.seat = d.seat /\ e.users = [u \in Users |-> Placed(d.users[u])]
         /\ e.sheets = d.sheets /\ e.payrolls = d.payrolls /\ e.notes = d.notes /\ e.oldName = d.oldName
         /\ e.warnings = d.warnings /\ e.corrections = d.corrections
<1> DEFINE b == SeedLeaveTypes(SeedDepartments(SeedRoles(d)))
           c == MergeLegacyDepartments(b)
           placed == [u \in Users |-> Placed(d.users[u])]
           types == {Merging(b.types, t) : t \in b.types}
           leaves == {[l EXCEPT !.type = Merging(b.types, l.type)] : l \in b.leaves}
<1>1. /\ b \in Database
      /\ b.roles = d.roles \cup RoleNames
      /\ b.departments = d.departments \cup {Today(k) : k \in Departments}
      /\ b.types = CodedTypes(d.types)
      /\ b.leaves = {[l EXCEPT !.type = Coding(d.types, l.type)] : l \in d.leaves}
      /\ b.seat = d.seat /\ b.users = d.users /\ b.sheets = d.sheets
      /\ b.payrolls = d.payrolls /\ b.notes = d.notes /\ b.oldName = d.oldName
      /\ b.warnings = d.warnings /\ b.corrections = d.corrections
  BY TablesStage
<1>2. c = [b EXCEPT !.users = placed, !.departments = @ \ {Garbled(k) : k \in Departments}]
  BY <1>1 DEF MergeLegacyDepartments, Placed
<1> HIDE DEF b
<1>3. placed \in [Users -> Person]
  BY PlacedPerson, Tables
<1>4. /\ c \in Database /\ c.users = placed
      /\ c.departments = b.departments \ {Garbled(k) : k \in Departments}
      /\ c.roles = b.roles /\ c.types = b.types /\ c.leaves = b.leaves /\ c.seat = b.seat
      /\ c.sheets = b.sheets /\ c.payrolls = b.payrolls /\ c.notes = b.notes /\ c.oldName = b.oldName
      /\ c.warnings = b.warnings /\ c.corrections = b.corrections
  <2> HIDE DEF placed
  <2>1. QED
    BY <1>1, <1>2, <1>3 DEF Database
<1>5. types = MergedTypes(d.types)
  BY <1>1 DEF MergedTypes
<1>6. leaves = {[l EXCEPT !.type = Retyped(d.types, l.type)] : l \in d.leaves}
  <2> DEFINE coded(l) == [l EXCEPT !.type = Coding(d.types, l.type)]
             merged(m) == [m EXCEPT !.type = Merging(CodedTypes(d.types), m.type)]
             retyped(l) == [l EXCEPT !.type = Retyped(d.types, l.type)]
  <2>1. ASSUME NEW l \in d.leaves PROVE merged(coded(l)) = retyped(l)
    <3>1. l \in LeaveRow /\ l.type \in TypeRow /\ Coding(d.types, l.type) \in TypeRow
      BY Tables, CodingRow DEF LeaveRow
    <3>2. coded(l).type = Coding(d.types, l.type)
      BY <3>1, RetypedLeave
    <3>3. merged(coded(l)) = [coded(l) EXCEPT !.type = Retyped(d.types, l.type)]
      BY <3>2 DEF Retyped
    <3>4. QED
      BY <3>1, <3>3 DEF LeaveRow
  <2>2. b.leaves = {coded(l) : l \in d.leaves} /\ leaves = {merged(m) : m \in b.leaves}
    BY <1>1
  <2> HIDE DEF coded, merged, retyped, leaves
  <2>3. leaves = {retyped(l) : l \in d.leaves}
    BY <2>1, <2>2
  <2>4. QED
    BY <2>3 DEF retyped
<1>7. types \in SUBSET TypeRow /\ leaves \in SUBSET LeaveRow
  <2>1. types \in SUBSET TypeRow
    BY <1>5, Tables, MergedTable
  <2>2. ASSUME NEW l \in d.leaves PROVE [l EXCEPT !.type = Retyped(d.types, l.type)] \in LeaveRow
    <3>1. l \in LeaveRow /\ l.type \in TypeRow
      BY Tables DEF LeaveRow
    <3>2. Retyped(d.types, l.type) \in TypeRow
      BY <3>1, Tables, RetypedRow
    <3>3. QED
      BY <3>1, <3>2, RetypedLeave
  <2>3. QED
    BY <1>6, <2>1, <2>2
<1>8. e = [c EXCEPT !.types = types, !.leaves = leaves]
  BY <1>4 DEF MergeLegacyLeaveTypes, b
<1>9. QED
  <2> HIDE DEF c, types, leaves, placed
  <2>1. /\ e \in Database /\ e.types = types /\ e.leaves = leaves
        /\ e.roles = c.roles /\ e.departments = c.departments /\ e.seat = c.seat
        /\ e.users = c.users /\ e.sheets = c.sheets
        /\ e.payrolls = c.payrolls /\ e.notes = c.notes /\ e.oldName = c.oldName
        /\ e.warnings = c.warnings /\ e.corrections = c.corrections
    BY <1>4, <1>7, <1>8 DEF Database
  <2>2. QED
    BY <1>1, <1>4, <1>5, <1>6, <2>1 DEF placed

\* The applications that the seed writes.
SeedsLeaves(types) == {AnnualLeave(types), SickLeave(types), UnpaidLeave(types)}

\* What the seed writes are rows of their tables.
LEMMA SeededRows ==
  ASSUME NEW types \in SUBSET TypeRow, NEW app \in SeedsLeaves(types), NEW n \in Numbers
  PROVE  /\ LeaveOf(app, n) \in LeaveRow
         /\ LeaveOf(app, n).no = n /\ LeaveOf(app, n).who = app.who
         /\ LeaveOf(app, n).type = app.type /\ LeaveOf(app, n).from = app.from
         /\ LeaveOf(app, n).status = app.status /\ LeaveOf(app, n).reviewer = app.reviewer
         /\ app.who \in Demo /\ app.reviewer \in Demo \cup {Nobody}
         /\ \E key \in LeaveTypes : app.type = Canonical(types, key)
<1>1. \A key \in LeaveTypes : Canonical(types, key) \in TypeRow
  BY CanonicalRow
<1>2. /\ \E key \in LeaveTypes : app.type = Canonical(types, key)
      /\ app.who \in Demo /\ app.reviewer \in Demo \cup {Nobody} /\ app.from \in Starts
      /\ app.status \in {"PENDING", "APPROVED", "REJECTED"}
  BY DEF SeedsLeaves, AnnualLeave, SickLeave, UnpaidLeave, LeaveTypes, Demo, Starts
<1>3. QED
  BY <1>1, <1>2 DEF LeaveOf, LeaveRow, Users

LEMMA SeededPapers ==
  /\ \A u \in Demo \ {"hrAdmin"} : SeededSheet(u) \in Sheet /\ SeededSheet(u).approver \in Demo \cup {Nobody}
  /\ SeededNotes \in SUBSET NoteRow
  /\ \A n \in SeededNotes : n[1] \in Demo \cup {Nobody} /\ n[2] \in Demo
<1>1. ASSUME NEW u \in Demo \ {"hrAdmin"}
      PROVE  SeededSheet(u) \in Sheet /\ SeededSheet(u).approver \in Demo \cup {Nobody}
  BY DEF Demo, SeededSheet, Sheet, Users
<1>2. SeededNotes \in SUBSET NoteRow /\ \A n \in SeededNotes : n[1] \in Demo \cup {Nobody} /\ n[2] \in Demo
  BY DEF SeededNotes, NoteRow, Users, Demo
<1>3. QED
  BY <1>1, <1>2

\* The seed's own applications are told apart from each other.
LEMMA RowsDiffer ==
  ASSUME NEW types, NEW q \in SeedsLeaves(types), NEW r \in SeedsLeaves(types), NEW l, SameLeave(l, q), SameLeave(l, r)
  PROVE  q = r
<1>1. \A p \in SeedsLeaves(types) :
        \/ p = AnnualLeave(types) /\ p.from = 12
        \/ p = SickLeave(types) /\ p.from = 5
        \/ p = UnpaidLeave(types) /\ p.from = 20
  BY DEF SeedsLeaves, AnnualLeave, SickLeave, UnpaidLeave
<1>2. q.from = r.from
  BY DEF SameLeave
<1>3. QED
  BY <1>1, <1>2

Nos(leaves) == {l.no : l \in leaves}
OneEach(leaves) == \A l, m \in leaves : l.no = m.no => l = m

\* What writing one application does to the table.
LEMMA UpsertedLeave ==
  ASSUME NEW leaves \in SUBSET LeaveRow, NEW app,
         \A n \in Numbers : LeaveOf(app, n) \in LeaveRow /\ LeaveOf(app, n).no = n,
         NEW x \in UpsertLeaveApplication(leaves, app)
  PROVE  \E n \in Numbers :
            /\ LeaveOf(app, n) \in x /\ x \subseteq leaves \cup {LeaveOf(app, n)}
            /\ \A l \in leaves : l \in x \/ (l.no = n /\ SameLeave(l, app))
            /\ OneEach(leaves) => OneEach(x)
            /\ IsFiniteSet(leaves) => IsFiniteSet(x)
            /\ (\E l \in leaves : SameLeave(l, app)) => Nos(x) = Nos(leaves)
            /\ (\A l \in leaves : ~SameLeave(l, app)) =>
                  x = leaves \cup {LeaveOf(app, n)} /\ n \notin Nos(leaves)
<1> DEFINE found == {l \in leaves : SameLeave(l, app)}
<1>1. \A l \in leaves : l.no \in Numbers
  BY DEF LeaveRow
<1>2. CASE found = {}
  <2>1. PICK n \in FreeNumber(leaves) : x = leaves \cup {LeaveOf(app, n)}
    BY <1>2 DEF UpsertLeaveApplication
  <2>2. n \in Numbers /\ n \notin Nos(leaves)
    BY DEF FreeNumber, Nos
  <2>3. LeaveOf(app, n).no = n
    BY <2>2
  <2>4. OneEach(leaves) => OneEach(x)
    BY <2>1, <2>2, <2>3 DEF OneEach, Nos
  <2>5. IsFiniteSet(leaves) => IsFiniteSet(x)
    BY <2>1, FS_AddElement
  <2>6. QED
    BY <1>2, <2>1, <2>2, <2>4, <2>5
<1>3. CASE found # {}
  <2>1. PICK k \in found : x = (leaves \ {k}) \cup {LeaveOf(app, k.no)}
    BY <1>3 DEF UpsertLeaveApplication
  <2>2. k \in leaves /\ SameLeave(k, app) /\ k.no \in Numbers /\ LeaveOf(app, k.no).no = k.no
    BY <1>1
  <2>3. OneEach(leaves) => OneEach(x)
    BY <2>1, <2>2 DEF OneEach
  <2>4. IsFiniteSet(leaves) => IsFiniteSet(x)
    <3>1. ASSUME IsFiniteSet(leaves) PROVE IsFiniteSet(leaves \ {k})
      BY <3>1, FS_RemoveElement
    <3>2. ASSUME IsFiniteSet(leaves \ {k}) PROVE IsFiniteSet((leaves \ {k}) \cup {LeaveOf(app, k.no)})
      BY <3>2, FS_AddElement
    <3>3. QED
      BY <2>1, <3>1, <3>2
  <2>5. Nos(x) = Nos(leaves)
    <3>1. \A l \in x : l.no \in Nos(leaves)
      BY <2>1, <2>2 DEF Nos
    <3>2. \A l \in leaves : l.no \in Nos(x)
      BY <2>1, <2>2 DEF Nos
    <3>3. QED
      BY <3>1, <3>2 DEF Nos
  <2>6. QED
    BY <2>1, <2>2, <2>3, <2>4, <2>5
<1>4. QED
  BY <1>2, <1>3

\* What writing all three does.
LEMMA SeededLeaves ==
  ASSUME NEW types \in SUBSET TypeRow, NEW leaves \in SUBSET LeaveRow,
         NEW x \in LeavesSeeded(types, leaves)
  PROVE  /\ x \in SUBSET LeaveRow
         /\ \A l \in x : l \in leaves \/ \E app \in SeedsLeaves(types), n \in Numbers : l = LeaveOf(app, n)
         /\ \A app \in SeedsLeaves(types) : \E n \in Numbers : LeaveOf(app, n) \in x
         /\ Nos(leaves) \subseteq Nos(x)
         /\ OneEach(leaves) => OneEach(x)
         /\ IsFiniteSet(leaves) => IsFiniteSet(x)
         /\ (\A app \in SeedsLeaves(types) : \E l \in leaves : SameLeave(l, app)) => Nos(x) = Nos(leaves)
         /\ leaves = {} => \E i, j, k \in Numbers :
               /\ i # j /\ i # k /\ j # k
               /\ x = {LeaveOf(AnnualLeave(types), i), LeaveOf(SickLeave(types), j),
                       LeaveOf(UnpaidLeave(types), k)}
<1> DEFINE a == AnnualLeave(types)
           s == SickLeave(types)
           u == UnpaidLeave(types)
<1>1. a \in SeedsLeaves(types) /\ s \in SeedsLeaves(types) /\ u \in SeedsLeaves(types) /\ SeedsLeaves(types) = {a, s, u}
      /\ a # s /\ a # u /\ s # u
  <2>1. a.from = 12 /\ s.from = 5 /\ u.from = 20
    BY DEF AnnualLeave, SickLeave, UnpaidLeave
  <2>2. QED
    BY <2>1 DEF SeedsLeaves
<1>20. PICK y \in UpsertLeaveApplication(leaves, a) :
         x \in UNION {UpsertLeaveApplication(q, u) : q \in UpsertLeaveApplication(y, s)}
  BY DEF LeavesSeeded
<1>21. PICK z \in UpsertLeaveApplication(y, s) : x \in UpsertLeaveApplication(z, u)
  BY <1>20
<1>2. y \in UpsertLeaveApplication(leaves, a) /\ z \in UpsertLeaveApplication(y, s)
      /\ x \in UpsertLeaveApplication(z, u)
  BY <1>20, <1>21
<1> HIDE DEF a, s, u
<1>3. \A app \in SeedsLeaves(types), n \in Numbers : LeaveOf(app, n) \in LeaveRow /\ LeaveOf(app, n).no = n
                                             /\ SameLeave(LeaveOf(app, n), app)
  BY SeededRows DEF SameLeave
<1>4. \A app, r \in SeedsLeaves(types) : \A l : SameLeave(l, app) /\ SameLeave(l, r) => app = r
  BY RowsDiffer
<1>5. PICK i \in Numbers :
        /\ LeaveOf(a, i) \in y /\ y \subseteq leaves \cup {LeaveOf(a, i)}
        /\ \A l \in leaves : l \in y \/ (l.no = i /\ SameLeave(l, a))
        /\ OneEach(leaves) => OneEach(y)
        /\ IsFiniteSet(leaves) => IsFiniteSet(y)
        /\ (\E l \in leaves : SameLeave(l, a)) => Nos(y) = Nos(leaves)
        /\ (\A l \in leaves : ~SameLeave(l, a)) => y = leaves \cup {LeaveOf(a, i)} /\ i \notin Nos(leaves)
  BY <1>1, <1>2, <1>3, UpsertedLeave
<1>6. y \in SUBSET LeaveRow
  BY <1>1, <1>3, <1>5
<1>7. PICK j \in Numbers :
        /\ LeaveOf(s, j) \in z /\ z \subseteq y \cup {LeaveOf(s, j)}
        /\ \A l \in y : l \in z \/ (l.no = j /\ SameLeave(l, s))
        /\ OneEach(y) => OneEach(z)
        /\ IsFiniteSet(y) => IsFiniteSet(z)
        /\ (\E l \in y : SameLeave(l, s)) => Nos(z) = Nos(y)
        /\ (\A l \in y : ~SameLeave(l, s)) => z = y \cup {LeaveOf(s, j)} /\ j \notin Nos(y)
  BY <1>1, <1>2, <1>3, <1>6, UpsertedLeave
<1>8. z \in SUBSET LeaveRow
  BY <1>1, <1>3, <1>6, <1>7
<1>9. PICK k \in Numbers :
        /\ LeaveOf(u, k) \in x /\ x \subseteq z \cup {LeaveOf(u, k)}
        /\ \A l \in z : l \in x \/ (l.no = k /\ SameLeave(l, u))
        /\ OneEach(z) => OneEach(x)
        /\ IsFiniteSet(z) => IsFiniteSet(x)
        /\ (\E l \in z : SameLeave(l, u)) => Nos(x) = Nos(z)
        /\ (\A l \in z : ~SameLeave(l, u)) => x = z \cup {LeaveOf(u, k)} /\ k \notin Nos(z)
  <2>1. \A n \in Numbers : LeaveOf(u, n) \in LeaveRow /\ LeaveOf(u, n).no = n
    BY <1>1, <1>3
  <2>2. z \in SUBSET LeaveRow /\ x \in UpsertLeaveApplication(z, u)
    BY <1>2, <1>8
  <2>3. QED
    BY <2>1, <2>2, UpsertedLeave
<1>10. x \in SUBSET LeaveRow
  BY <1>1, <1>3, <1>8, <1>9
<1>11. \A l \in x : l \in leaves \/ \E app \in SeedsLeaves(types), n \in Numbers : l = LeaveOf(app, n)
  BY <1>1, <1>5, <1>7, <1>9
<1>12. /\ LeaveOf(a, i) \in z /\ LeaveOf(a, i) \in x /\ LeaveOf(s, j) \in x
  <2>1. ~SameLeave(LeaveOf(a, i), s) /\ ~SameLeave(LeaveOf(a, i), u) /\ ~SameLeave(LeaveOf(s, j), u)
    BY <1>1, <1>3, <1>4
  <2>2. QED
    BY <1>5, <1>7, <1>9, <2>1
<1>13. \A app \in SeedsLeaves(types) : \E n \in Numbers : LeaveOf(app, n) \in x
  BY <1>1, <1>9, <1>12
<1>14. Nos(leaves) \subseteq Nos(x)
  <2>1. i \in Nos(y) /\ j \in Nos(z) /\ k \in Nos(x)
    BY <1>1, <1>3, <1>5, <1>7, <1>9 DEF Nos
  <2>2. \A l \in leaves : l.no \in Nos(y)
    BY <1>5, <2>1 DEF Nos
  <2>3. \A l \in y : l.no \in Nos(z)
    BY <1>7, <2>1 DEF Nos
  <2>4. \A l \in z : l.no \in Nos(x)
    BY <1>9, <2>1 DEF Nos
  <2>5. QED
    BY <2>2, <2>3, <2>4 DEF Nos
<1>15. ASSUME \A app \in SeedsLeaves(types) : \E l \in leaves : SameLeave(l, app) PROVE Nos(x) = Nos(leaves)
  <2>1. PICK m \in leaves : SameLeave(m, s)
    BY <1>1, <1>15
  <2>2. m \in y
    BY <1>1, <1>4, <1>5, <2>1
  <2>3. PICK l \in leaves : SameLeave(l, u)
    BY <1>1, <1>15
  <2>4. l \in y /\ l \in z
    BY <1>1, <1>4, <1>5, <1>7, <2>3
  <2>5. QED
    BY <1>1, <1>5, <1>7, <1>9, <1>15, <2>1, <2>2, <2>3, <2>4
<1>16. ASSUME leaves = {}
       PROVE  i # j /\ i # k /\ j # k /\ x = {LeaveOf(a, i), LeaveOf(s, j), LeaveOf(u, k)}
  <2>1. y = {LeaveOf(a, i)}
    BY <1>5, <1>16
  <2>2. z = {LeaveOf(a, i), LeaveOf(s, j)} /\ j # i
    <3>1. \A l \in y : ~SameLeave(l, s)
      BY <1>1, <1>3, <1>4, <2>1
    <3>2. QED
      BY <1>1, <1>3, <1>7, <2>1, <3>1 DEF Nos
  <2>3. \A l \in z : ~SameLeave(l, u)
    BY <1>1, <1>3, <1>4, <2>2
  <2>4. x = z \cup {LeaveOf(u, k)} /\ k \notin Nos(z)
    BY <1>9, <2>3
  <2>5. i \in Nos(z) /\ j \in Nos(z)
    BY <1>1, <1>3, <2>2 DEF Nos
  <2>6. QED
    BY <2>2, <2>4, <2>5
<1>17. (OneEach(leaves) => OneEach(x)) /\ (IsFiniteSet(leaves) => IsFiniteSet(x))
  BY <1>5, <1>7, <1>9
<1>18. QED
  BY <1>10, <1>11, <1>13, <1>14, <1>15, <1>16, <1>17 DEF a, s, u

\* Of this, where the rows come from and that those of the seed are there.
LEMMA SeedsAreThere ==
  ASSUME NEW types \in SUBSET TypeRow, NEW leaves \in SUBSET LeaveRow,
         NEW x \in LeavesSeeded(types, leaves)
  PROVE  /\ \A l \in x : l \in leaves \/ \E app \in SeedsLeaves(types), n \in Numbers : l = LeaveOf(app, n)
         /\ \A app \in SeedsLeaves(types) : \E n \in Numbers : LeaveOf(app, n) \in x
BY SeededLeaves

\* Where each is there and none is there twice, nothing is written.
LEMMA LeavesThere ==
  ASSUME NEW types \in SUBSET TypeRow, NEW leaves \in SUBSET LeaveRow,
         \A app \in SeedsLeaves(types) : \E n \in Numbers : LeaveOf(app, n) \in leaves,
         \A l, m \in leaves, app \in SeedsLeaves(types) : SameLeave(l, m) /\ SameLeave(l, app) => l = m
  PROVE  LeavesSeeded(types, leaves) = {leaves}
<1>1. ASSUME NEW app \in SeedsLeaves(types) PROVE UpsertLeaveApplication(leaves, app) = {leaves}
  <2>1. PICK n \in Numbers : LeaveOf(app, n) \in leaves
    OBVIOUS
  <2>2. LeaveOf(app, n).no = n /\ SameLeave(LeaveOf(app, n), app)
    BY SeededRows DEF SameLeave
  <2>3. \A l \in leaves : SameLeave(l, app) => SameLeave(LeaveOf(app, n), l)
    BY <2>2 DEF SameLeave
  <2>4. \A l \in leaves : SameLeave(l, app) => l = LeaveOf(app, n)
    BY <2>1, <2>2, <2>3
  <2> DEFINE k == LeaveOf(app, n)
  <2>5. {l \in leaves : SameLeave(l, app)} = {k}
    BY <2>1, <2>2, <2>4
  <2>6. LeaveOf(app, k.no) = k
    BY <2>2
  <2> HIDE DEF k
  <2>7. UpsertLeaveApplication(leaves, app) = {(leaves \ {k}) \cup {LeaveOf(app, k.no)}}
    BY <2>5 DEF UpsertLeaveApplication
  <2>8. (leaves \ {k}) \cup {k} = leaves
    BY <2>5
  <2>9. QED
    BY <2>6, <2>7, <2>8
<1>2. /\ UpsertLeaveApplication(leaves, AnnualLeave(types)) = {leaves}
      /\ UpsertLeaveApplication(leaves, SickLeave(types)) = {leaves}
      /\ UpsertLeaveApplication(leaves, UnpaidLeave(types)) = {leaves}
  BY <1>1 DEF SeedsLeaves
<1>3. QED
  BY <1>2 DEF LeavesSeeded

\* What becomes of a person: those of the seed are as it has them.
Fresh(u) == [role |-> Place(u)[1], dept |-> Today(Place(u)[2]),
             remain |-> IF u = "employee2" THEN AnnualDays - 1 ELSE AnnualDays]
Rehire(p) == IF p.role = LegacyRole THEN [p EXCEPT !.role = "employee"] ELSE p
Settled(d, u) == IF u \in Demo THEN Fresh(u) ELSE Rehire(Placed(d.users[u]))

LEMMA FreshPerson ==
  ASSUME NEW u \in Demo
  PROVE  /\ Fresh(u) \in Person /\ Fresh(u).role \in RoleNames
         /\ Fresh(u).dept \in {Today(k) : k \in Departments}
<1>1. Place(u)[1] \in RoleNames /\ Place(u)[2] \in Departments
  BY DEF Place, Demo, RoleNames, Departments
<1>2. Today(Place(u)[2]) \in Names(Departments)
  BY <1>1 DEF Names
<1>3. QED
  BY <1>1, <1>2 DEF Fresh, Person, AnnualDays

LEMMA RehiredPerson ==
  ASSUME NEW p \in Person
  PROVE  /\ Rehire(p) \in Person /\ Rehire(p).role # LegacyRole
         /\ Rehire(p).dept = p.dept /\ Rehire(p).remain = p.remain
         /\ p.role # LegacyRole => Rehire(p) = p
         /\ p.role = LegacyRole => Rehire(p).role = "employee"
BY DEF Rehire, Person, RoleNames, LegacyRole, OtherRole

\* People, and the papers that each has.
LEMMA PeopleStage ==
  ASSUME NEW d \in Database,
         NEW e, e = SeedMonthlyTimesheets(AssignDepartmentManagers(SeedUsers(d)))
  PROVE  /\ e \in Database
         /\ e.roles = d.roles /\ e.departments = d.departments /\ e.types = d.types
         /\ e.seat = [d.seat EXCEPT !["engineering"] = "managerKt", !["hr"] = "hrAdmin"]
         /\ e.users = [u \in Users |-> IF u \in Demo THEN Fresh(u) ELSE d.users[u]]
         /\ e.sheets = [u \in Users |-> IF u \in Demo \ {"hrAdmin"} THEN SeededSheet(u) ELSE d.sheets[u]]
         /\ e.leaves = d.leaves
         /\ e.payrolls = d.payrolls /\ e.notes = d.notes
         /\ e.oldName = d.oldName /\ e.warnings = d.warnings /\ e.corrections = d.corrections
<1> DEFINE users == [u \in Users |-> IF u \in Demo THEN Fresh(u) ELSE d.users[u]]
           seat == [d.seat EXCEPT !["engineering"] = "managerKt", !["hr"] = "hrAdmin"]
           sheets == [u \in Users |-> IF u \in Demo \ {"hrAdmin"} THEN SeededSheet(u) ELSE d.sheets[u]]
           b == AssignDepartmentManagers(SeedUsers(d))
<1>1. users \in [Users -> Person]
  BY Tables, FreshPerson
<1>2. seat \in [Departments -> Users \cup {Nobody}]
  BY Tables DEF Users, Demo
<1>3. sheets \in [Users -> Sheet]
  BY Tables, SeededPapers
<1>7. /\ b \in Database /\ b.users = users /\ b.seat = seat
      /\ b.roles = d.roles /\ b.departments = d.departments /\ b.types = d.types
      /\ b.sheets = d.sheets /\ b.leaves = d.leaves /\ b.payrolls = d.payrolls /\ b.notes = d.notes
      /\ b.oldName = d.oldName /\ b.warnings = d.warnings /\ b.corrections = d.corrections
  <2>1. SeedUsers(d) = [d EXCEPT !.users = users]
    BY DEF SeedUsers, Fresh, Database
  <2> HIDE DEF users
  <2>2. b = [[d EXCEPT !.users = users] EXCEPT !.seat = seat]
    BY <2>1 DEF AssignDepartmentManagers, Database
  <2> HIDE DEF seat, b
  <2>3. QED
    BY <1>1, <1>2, <2>2 DEF Database
<1>8. e = [b EXCEPT !.sheets = sheets]
  <2> HIDE DEF b
  <2>1. SeedMonthlyTimesheets(b) = [b EXCEPT !.sheets = sheets]
    BY <1>7 DEF SeedMonthlyTimesheets, Database
  <2>2. QED
    BY <2>1 DEF b
<1>9. QED
  <2> HIDE DEF b, users, seat, sheets
  <2>1. /\ e \in Database /\ e.sheets = sheets
        /\ e.roles = b.roles /\ e.departments = b.departments /\ e.types = b.types
        /\ e.users = b.users /\ e.seat = b.seat /\ e.leaves = b.leaves
        /\ e.payrolls = b.payrolls /\ e.notes = b.notes
        /\ e.oldName = b.oldName /\ e.warnings = b.warnings /\ e.corrections = b.corrections
    BY <1>3, <1>7, <1>8 DEF Database
  <2>2. QED
    BY <1>7, <2>1 DEF users, seat, sheets

\* Applications, payrolls and notes.
LEMMA PapersStage ==
  ASSUME NEW d \in Database, NEW x \in SUBSET LeaveRow,
         NEW e, e = SeedNotifications(SeedPayrolls([d EXCEPT !.leaves = x]))
  PROVE  /\ e \in Database
         /\ e.roles = d.roles /\ e.departments = d.departments /\ e.types = d.types
         /\ e.seat = d.seat /\ e.users = d.users /\ e.sheets = d.sheets /\ e.leaves = x
         /\ e.payrolls = [u \in Users |-> IF u \in {"employee2", "employeeOT"}
                                          THEN UpsertPayroll(d.payrolls[u]) ELSE d.payrolls[u]]
         /\ e.notes = d.notes \cup SeededNotes
         /\ e.oldName = d.oldName /\ e.warnings = d.warnings /\ e.corrections = d.corrections
<1> DEFINE payrolls == [u \in Users |-> IF u \in {"employee2", "employeeOT"}
                                        THEN UpsertPayroll(d.payrolls[u]) ELSE d.payrolls[u]]
           c == [d EXCEPT !.leaves = x]
<1>1. payrolls \in [Users -> Nat]
  BY Tables DEF UpsertPayroll
<1>2. d.notes \cup SeededNotes \in SUBSET NoteRow
  BY Tables, SeededPapers
<1>3. /\ c \in Database /\ c.leaves = x
      /\ c.roles = d.roles /\ c.departments = d.departments /\ c.types = d.types
      /\ c.seat = d.seat /\ c.users = d.users /\ c.sheets = d.sheets
      /\ c.payrolls = d.payrolls /\ c.notes = d.notes
      /\ c.oldName = d.oldName /\ c.warnings = d.warnings /\ c.corrections = d.corrections
  BY DEF Database
<1> HIDE DEF c
<1>4. SeedPayrolls(c) = [c EXCEPT !.payrolls = payrolls]
  BY <1>3 DEF SeedPayrolls, Database
<1> HIDE DEF payrolls
<1>5. e = [[c EXCEPT !.payrolls = payrolls] EXCEPT !.notes = d.notes \cup SeededNotes]
  <2>1. [c EXCEPT !.payrolls = payrolls].notes = d.notes
    BY <1>3 DEF Database
  <2>2. QED
    BY <1>4, <2>1 DEF SeedNotifications, c
<1>6. /\ e \in Database /\ e.payrolls = payrolls /\ e.notes = d.notes \cup SeededNotes
      /\ e.roles = c.roles /\ e.departments = c.departments /\ e.types = c.types
      /\ e.users = c.users /\ e.seat = c.seat /\ e.sheets = c.sheets /\ e.leaves = c.leaves
      /\ e.oldName = c.oldName /\ e.warnings = c.warnings /\ e.corrections = c.corrections
  BY <1>1, <1>2, <1>3, <1>5 DEF Database
<1>7. QED
  BY <1>3, <1>6 DEF payrolls

\* The clean-up: nobody keeps the misspelt role and nobody has the empty one,
\* so both go; the old administrator goes with his name, when nothing refers to him.
LEMMA CleanupStage ==
  ASSUME NEW d \in Database, NEW e, e = CleanupLegacySeedData(d)
  PROVE  /\ e \in Database
         /\ e.roles = d.roles \ {LegacyRole, NoneRole}
         /\ e.users = [u \in Users |-> IF u = LegacyAdmin /\ d.oldName /\ ~Referred(d, u) THEN NoOne
                                       ELSE Rehire(d.users[u])]
         /\ Referred(e, LegacyAdmin) <=> Referred(d, LegacyAdmin)
         /\ e.departments = d.departments /\ e.types = d.types /\ e.seat = d.seat
         /\ e.sheets = d.sheets /\ e.leaves = d.leaves
         /\ e.payrolls = d.payrolls /\ e.notes = d.notes
         /\ e.oldName = d.oldName /\ e.warnings = d.warnings /\ e.corrections = d.corrections
<1> DEFINE rehired == [u \in Users |-> Rehire(d.users[u])]
           a == Rehired(d)
           b == DeleteRoleIfUnused(a, LegacyRole)
           c == DeleteRoleIfUnused(b, NoneRole)
<1>1. \A u \in Users : /\ rehired[u] \in Person /\ rehired[u].role # LegacyRole
                       /\ rehired[u].role # NoneRole
  <2>1. \A p \in Person : p.role # NoneRole
    BY DEF Person, RoleNames, LegacyRole, OtherRole, NoneRole
  <2>2. QED
    BY <2>1, Tables, RehiredPerson
<1>2. /\ a \in Database /\ a.users = rehired /\ a.roles = d.roles
      /\ a.departments = d.departments /\ a.types = d.types /\ a.seat = d.seat
      /\ a.sheets = d.sheets /\ a.leaves = d.leaves /\ a.payrolls = d.payrolls /\ a.notes = d.notes
      /\ a.oldName = d.oldName /\ a.warnings = d.warnings /\ a.corrections = d.corrections
  <2>1. a = [d EXCEPT !.users = rehired]
    BY DEF Rehired, Rehire, Database
  <2>2. rehired \in [Users -> Person]
    BY <1>1
  <2> HIDE DEF rehired, a
  <2>3. QED
    BY <2>1, <2>2 DEF Database
<1>3. b = [a EXCEPT !.roles = d.roles \ {LegacyRole}]
  <2> HIDE DEF a
  <2>1. QED
    BY <1>1, <1>2 DEF DeleteRoleIfUnused
<1>4. /\ b \in Database /\ b.roles = d.roles \ {LegacyRole} /\ b.users = rehired
      /\ b.departments = d.departments /\ b.types = d.types /\ b.seat = d.seat
      /\ b.sheets = d.sheets /\ b.leaves = d.leaves /\ b.payrolls = d.payrolls /\ b.notes = d.notes
      /\ b.oldName = d.oldName /\ b.warnings = d.warnings /\ b.corrections = d.corrections
  <2> HIDE DEF a, b, rehired
  <2>1. QED
    BY <1>2, <1>3 DEF Database
<1>5. c = [b EXCEPT !.roles = (d.roles \ {LegacyRole}) \ {NoneRole}]
  <2> HIDE DEF b
  <2>1. QED
    BY <1>1, <1>4 DEF DeleteRoleIfUnused
<1>6. /\ c \in Database /\ c.roles = d.roles \ {LegacyRole, NoneRole} /\ c.users = rehired
      /\ c.departments = d.departments /\ c.types = d.types /\ c.seat = d.seat
      /\ c.sheets = d.sheets /\ c.leaves = d.leaves /\ c.payrolls = d.payrolls /\ c.notes = d.notes
      /\ c.oldName = d.oldName /\ c.warnings = d.warnings /\ c.corrections = d.corrections
  <2> HIDE DEF b, c, rehired
  <2>1. QED
    BY <1>4, <1>5 DEF Database
<1>7. Referred(c, LegacyAdmin) <=> Referred(d, LegacyAdmin)
  BY <1>6 DEF Referred
<1>8. e = DeleteLegacyAdmin(c)
  BY DEF CleanupLegacySeedData
<1>9. CASE ~d.oldName \/ Referred(d, LegacyAdmin)
  <2>1. e = c
    BY <1>6, <1>7, <1>8, <1>9 DEF DeleteLegacyAdmin
  <2> HIDE DEF c
  <2>2. QED
    BY <1>6, <1>7, <1>9, <2>1
<1>10. CASE d.oldName /\ ~Referred(d, LegacyAdmin)
  <2>1. e = [c EXCEPT !.users = [@ EXCEPT ![LegacyAdmin] = NoOne]]
    BY <1>6, <1>7, <1>8, <1>10 DEF DeleteLegacyAdmin
  <2>2. [rehired EXCEPT ![LegacyAdmin] = NoOne]
           = [u \in Users |-> IF u = LegacyAdmin /\ d.oldName /\ ~Referred(d, u) THEN NoOne ELSE rehired[u]]
    BY <1>10
  <2>3. [rehired EXCEPT ![LegacyAdmin] = NoOne] \in [Users -> Person]
    <3>1. NoOne \in Person
      BY DEF NoOne, Person
    <3>2. QED
      BY <1>1, <2>2, <3>1
  <2> HIDE DEF c, rehired
  <2>4. /\ e \in Database /\ e.users = [rehired EXCEPT ![LegacyAdmin] = NoOne]
        /\ e.roles = c.roles /\ e.departments = c.departments /\ e.types = c.types
        /\ e.seat = c.seat /\ e.sheets = c.sheets /\ e.leaves = c.leaves
        /\ e.payrolls = c.payrolls /\ e.notes = c.notes
        /\ e.oldName = c.oldName /\ e.warnings = c.warnings /\ e.corrections = c.corrections
    BY <1>6, <2>1, <2>3 DEF Database
  <2>5. Referred(e, LegacyAdmin) <=> Referred(c, LegacyAdmin)
    BY <2>4 DEF Referred
  <2>6. \A u \in Users : rehired[u] = Rehire(d.users[u])
    BY DEF rehired
  <2>7. QED
    BY <1>6, <1>7, <2>2, <2>4, <2>5, <2>6
<1>11. QED
  BY <1>9, <1>10

\* Where an application is after the merge, before the seed's own are written.
Kept(d) == {[l EXCEPT !.type = Retyped(d.types, l.type)] : l \in d.leaves}
Written(d) == LeavesSeeded(MergedTypes(d.types), Kept(d))

\* What the transaction does with everything but the applications.
LEMMA SeedingsAre ==
  ASSUME NEW d \in Database, NEW m, m = SeedMonthlyTimesheets(Peopled(d))
  PROVE  /\ m \in Database
         /\ m.roles = d.roles \cup RoleNames
         /\ m.departments = (d.departments \cup {Today(k) : k \in Departments})
                               \ {Garbled(k) : k \in Departments}
         /\ m.types = MergedTypes(d.types)
         /\ m.seat = [d.seat EXCEPT !["engineering"] = "managerKt", !["hr"] = "hrAdmin"]
         /\ m.users = [u \in Users |-> IF u \in Demo THEN Fresh(u) ELSE Placed(d.users[u])]
         /\ m.sheets = [u \in Users |-> IF u \in Demo \ {"hrAdmin"} THEN SeededSheet(u) ELSE d.sheets[u]]
         /\ m.leaves = Kept(d) /\ m.payrolls = d.payrolls /\ m.notes = d.notes
         /\ m.oldName = d.oldName /\ m.warnings = d.warnings /\ m.corrections = d.corrections
         /\ Seedings(d) = {CleanupLegacySeedData(SeedNotifications(SeedPayrolls([m EXCEPT !.leaves = x]))) :
                             x \in Written(d)}
<1> DEFINE b == MergeLegacyLeaveTypes(MergeLegacyDepartments(
                  SeedLeaveTypes(SeedDepartments(SeedRoles(d)))))
<1>1. /\ b \in Database
      /\ b.roles = d.roles \cup RoleNames
      /\ b.departments = (d.departments \cup {Today(k) : k \in Departments})
                            \ {Garbled(k) : k \in Departments}
      /\ b.types = MergedTypes(d.types) /\ b.leaves = Kept(d)
      /\ b.seat = d.seat /\ b.users = [u \in Users |-> Placed(d.users[u])]
      /\ b.sheets = d.sheets /\ b.payrolls = d.payrolls /\ b.notes = d.notes
      /\ b.oldName = d.oldName /\ b.warnings = d.warnings /\ b.corrections = d.corrections
  BY MergeStage DEF Kept
<1>2. m = SeedMonthlyTimesheets(AssignDepartmentManagers(SeedUsers(b)))
  BY DEF Peopled
<1> HIDE DEF b
<1>3. /\ m \in Database
      /\ m.roles = b.roles /\ m.departments = b.departments /\ m.types = b.types
      /\ m.seat = [b.seat EXCEPT !["engineering"] = "managerKt", !["hr"] = "hrAdmin"]
      /\ m.users = [u \in Users |-> IF u \in Demo THEN Fresh(u) ELSE b.users[u]]
      /\ m.sheets = [u \in Users |-> IF u \in Demo \ {"hrAdmin"} THEN SeededSheet(u) ELSE b.sheets[u]]
      /\ m.leaves = b.leaves /\ m.payrolls = b.payrolls /\ m.notes = b.notes
      /\ m.oldName = b.oldName /\ m.warnings = b.warnings /\ m.corrections = b.corrections
  BY <1>1, <1>2, PeopleStage
<1>4. m.users = [u \in Users |-> IF u \in Demo THEN Fresh(u) ELSE Placed(d.users[u])]
  BY <1>1, <1>3
<1>5. SeedLeaveApplications(m) = {[m EXCEPT !.leaves = x] : x \in Written(d)}
  BY <1>1, <1>3 DEF SeedLeaveApplications, Written
<1>6. Seedings(d) = {CleanupLegacySeedData(SeedNotifications(SeedPayrolls(f))) :
                       f \in SeedLeaveApplications(m)}
  BY DEF Seedings
<1>7. Seedings(d) = {CleanupLegacySeedData(SeedNotifications(SeedPayrolls([m EXCEPT !.leaves = x]))) :
                       x \in Written(d)}
  BY <1>5, <1>6
<1>8. QED
  BY <1>1, <1>3, <1>4, <1>7

LEMMA KeptRows ==
  ASSUME NEW d \in Database
  PROVE  /\ Kept(d) \in SUBSET LeaveRow /\ MergedTypes(d.types) \in SUBSET TypeRow
         /\ \A x \in Written(d) : x \in SUBSET LeaveRow
<1>1. MergedTypes(d.types) \in SUBSET TypeRow
  BY Tables, MergedTable
<1>2. ASSUME NEW l \in d.leaves PROVE [l EXCEPT !.type = Retyped(d.types, l.type)] \in LeaveRow
  <2>1. l \in LeaveRow /\ l.type \in TypeRow
    BY Tables DEF LeaveRow
  <2>2. Retyped(d.types, l.type) \in TypeRow
    BY <2>1, Tables, RetypedRow
  <2>3. QED
    BY <2>1, <2>2, RetypedLeave
<1>3. Kept(d) \in SUBSET LeaveRow
  BY <1>2 DEF Kept
<1>4. QED
  BY <1>1, <1>3, SeededLeaves DEF Written

\* The whole transaction, table by table.
LEMMA SeededTables ==
  ASSUME NEW d \in Database, NEW e \in Seedings(d)
  PROVE  /\ e \in Database
         /\ e.roles = (d.roles \cup RoleNames) \ {LegacyRole, NoneRole}
         /\ e.departments = (d.departments \cup {Today(k) : k \in Departments})
                               \ {Garbled(k) : k \in Departments}
         /\ e.types = MergedTypes(d.types)
         /\ e.seat = [d.seat EXCEPT !["engineering"] = "managerKt", !["hr"] = "hrAdmin"]
         /\ e.users = [u \in Users |-> IF u = LegacyAdmin /\ d.oldName /\ ~Referred(e, u) THEN NoOne
                                       ELSE Settled(d, u)]
         /\ e.sheets = [u \in Users |-> IF u \in Demo \ {"hrAdmin"} THEN SeededSheet(u) ELSE d.sheets[u]]
         /\ e.leaves \in Written(d)
         /\ e.payrolls = [u \in Users |-> IF u \in {"employee2", "employeeOT"}
                                          THEN UpsertPayroll(d.payrolls[u]) ELSE d.payrolls[u]]
         /\ e.notes = d.notes \cup SeededNotes
         /\ e.oldName = d.oldName /\ e.warnings = d.warnings /\ e.corrections = d.corrections
<1> DEFINE m == SeedMonthlyTimesheets(Peopled(d))
<1>1. /\ m \in Database
      /\ m.roles = d.roles \cup RoleNames
      /\ m.departments = (d.departments \cup {Today(k) : k \in Departments})
                            \ {Garbled(k) : k \in Departments}
      /\ m.types = MergedTypes(d.types)
      /\ m.seat = [d.seat EXCEPT !["engineering"] = "managerKt", !["hr"] = "hrAdmin"]
      /\ m.users = [u \in Users |-> IF u \in Demo THEN Fresh(u) ELSE Placed(d.users[u])]
      /\ m.sheets = [u \in Users |-> IF u \in Demo \ {"hrAdmin"} THEN SeededSheet(u) ELSE d.sheets[u]]
      /\ m.leaves = Kept(d) /\ m.payrolls = d.payrolls /\ m.notes = d.notes
      /\ m.oldName = d.oldName /\ m.warnings = d.warnings /\ m.corrections = d.corrections
      /\ Seedings(d) = {CleanupLegacySeedData(SeedNotifications(SeedPayrolls([m EXCEPT !.leaves = x]))) :
                          x \in Written(d)}
  BY SeedingsAre
<1> HIDE DEF m
<1>2. PICK x \in Written(d) : e = CleanupLegacySeedData(SeedNotifications(SeedPayrolls([m EXCEPT !.leaves = x])))
  BY <1>1
<1>3. x \in SUBSET LeaveRow
  BY KeptRows
<1> DEFINE c == SeedNotifications(SeedPayrolls([m EXCEPT !.leaves = x]))
<1>4. e = CleanupLegacySeedData(c)
  BY <1>2
<1>41. c = SeedNotifications(SeedPayrolls([m EXCEPT !.leaves = x])) /\ m \in Database
  BY <1>1
<1> HIDE DEF c
<1>5. /\ c \in Database
      /\ c.roles = m.roles /\ c.departments = m.departments /\ c.types = m.types
      /\ c.seat = m.seat /\ c.users = m.users /\ c.sheets = m.sheets /\ c.leaves = x
      /\ c.payrolls = [u \in Users |-> IF u \in {"employee2", "employeeOT"}
                                       THEN UpsertPayroll(m.payrolls[u]) ELSE m.payrolls[u]]
      /\ c.notes = m.notes \cup SeededNotes
      /\ c.oldName = m.oldName /\ c.warnings = m.warnings /\ c.corrections = m.corrections
  BY <1>3, <1>41, PapersStage
<1>6. /\ e \in Database
      /\ e.roles = c.roles \ {LegacyRole, NoneRole}
      /\ e.users = [u \in Users |-> IF u = LegacyAdmin /\ c.oldName /\ ~Referred(c, u) THEN NoOne
                                    ELSE Rehire(c.users[u])]
      /\ Referred(e, LegacyAdmin) <=> Referred(c, LegacyAdmin)
      /\ e.departments = c.departments /\ e.types = c.types /\ e.seat = c.seat
      /\ e.sheets = c.sheets /\ e.leaves = c.leaves
      /\ e.payrolls = c.payrolls /\ e.notes = c.notes
      /\ e.oldName = c.oldName /\ e.warnings = c.warnings /\ e.corrections = c.corrections
  BY <1>4, <1>5, CleanupStage
<1>7. \A u \in Users : Rehire(c.users[u]) = Settled(d, u)
  <2>1. ASSUME NEW u \in Demo PROVE Rehire(Fresh(u)) = Fresh(u)
    <3>1. Fresh(u).role # LegacyRole
      BY FreshPerson DEF RoleNames, LegacyRole
    <3>2. QED
      BY <3>1 DEF Rehire
  <2>2. QED
    BY <1>1, <1>5, <2>1 DEF Settled
<1>8. e.users = [u \in Users |-> IF u = LegacyAdmin /\ d.oldName /\ ~Referred(e, u) THEN NoOne
                                  ELSE Settled(d, u)]
  <2>1. c.oldName = d.oldName
    BY <1>1, <1>5
  <2>2. QED
    BY <1>6, <1>7, <2>1
<1>9. e.payrolls = [u \in Users |-> IF u \in {"employee2", "employeeOT"}
                                     THEN UpsertPayroll(d.payrolls[u]) ELSE d.payrolls[u]]
  BY <1>1, <1>5, <1>6
<1>10. e.seat = [d.seat EXCEPT !["engineering"] = "managerKt", !["hr"] = "hrAdmin"]
  BY <1>1, <1>5, <1>6
<1>11. e.sheets = [u \in Users |-> IF u \in Demo \ {"hrAdmin"} THEN SeededSheet(u) ELSE d.sheets[u]]
  BY <1>1, <1>5, <1>6
<1>12. QED
  BY <1>1, <1>2, <1>5, <1>6, <1>8, <1>9, <1>10, <1>11

-----------------------------------------------------------------------------
(* Seed: seeding twice is seeding once *)

\* Whom the seed settled it leaves as he is.
LEMMA SettledPerson ==
  ASSUME NEW p \in Person
  PROVE  /\ Rehire(Placed(p)) \in Person
         /\ Rehire(Placed(Rehire(Placed(p)))) = Rehire(Placed(p))
         /\ Rehire(Placed(NoOne)) = NoOne /\ NoOne \in Person
<1>1. /\ Rehire(Placed(p)) \in Person /\ Rehire(Placed(p)).role # LegacyRole
      /\ \A k \in Departments : Rehire(Placed(p)).dept # Garbled(k)
  BY PlacedPerson, RehiredPerson
<1>2. Placed(Rehire(Placed(p))) = Rehire(Placed(p))
  BY <1>1, PlacedPerson
<1>3. NoOne \in Person /\ NoOne.role # LegacyRole /\ NoOne.dept = Today("none")
  BY DEF NoOne, Person, LegacyRole
<1>4. \A k \in Departments : NoOne.dept # Garbled(k)
  BY <1>3, NameHasKey
<1>5. QED
  BY <1>1, <1>2, <1>3, <1>4, PlacedPerson, RehiredPerson

\* After the seed the types are merged, and the seed's own applications there.
LEMMA SettledLeaves ==
  ASSUME NEW d \in Database, NEW e \in Seedings(d)
  PROVE  /\ e.types = MergedTypes(d.types) /\ e.types \in SUBSET TypeRow
         /\ MergedTypes(e.types) = e.types /\ Kept(e) = e.leaves
         /\ \A app \in SeedsLeaves(e.types) : \E n \in Numbers : LeaveOf(app, n) \in e.leaves
<1>1. /\ e \in Database /\ e.types = MergedTypes(d.types) /\ e.leaves \in Written(d)
  BY SeededTables
<1>2. /\ MergedTypes(e.types) = e.types
      /\ \A t \in TypeRow : Retyped(e.types, t) = Retyped(d.types, t)
  BY <1>1, MergedOnce, Tables
<1>3. MergedTypes(d.types) \in SUBSET TypeRow /\ Kept(d) \in SUBSET LeaveRow
  BY KeptRows
<1>4. /\ \A l \in e.leaves : l \in Kept(d) \/ \E app \in SeedsLeaves(e.types), n \in Numbers : l = LeaveOf(app, n)
      /\ \A app \in SeedsLeaves(e.types) : \E n \in Numbers : LeaveOf(app, n) \in e.leaves
  <2>1. e.leaves \in LeavesSeeded(e.types, Kept(d)) /\ e.types \in SUBSET TypeRow
    BY <1>1, <1>3 DEF Written
  <2>2. QED
    BY <1>3, <2>1, SeedsAreThere
<1>5. ASSUME NEW l \in e.leaves PROVE [l EXCEPT !.type = Retyped(e.types, l.type)] = l
  <2>1. l \in LeaveRow /\ l.type \in TypeRow
    BY <1>1, Tables DEF LeaveRow
  <2>2. Retyped(e.types, l.type) = Retyped(d.types, l.type)
    BY <1>2, <2>1
  <2>3. Retyped(e.types, l.type) = l.type
    <3>1. CASE \E app \in SeedsLeaves(e.types), n \in Numbers : l = LeaveOf(app, n)
      <4>1. \E key \in LeaveTypes : l.type = Canonical(MergedTypes(d.types), key)
        BY <1>1, <1>3, <3>1, SeededRows
      <4>2. PICK key \in LeaveTypes : l.type = One(CodedTypes(d.types), key)
        BY <4>1, MergedTable, Tables
      <4>3. Key(l.type) = key
        BY <4>2, MergedTable, Tables
      <4>4. QED
        BY <2>1, <2>2, <4>2, <4>3, RetypedRow, Tables
    <3>2. CASE l \in Kept(d)
      <4>1. PICK m \in d.leaves : l = [m EXCEPT !.type = Retyped(d.types, m.type)]
        BY <3>2 DEF Kept
      <4>2. m \in LeaveRow /\ m.type \in TypeRow
        BY Tables DEF LeaveRow
      <4>3. Retyped(d.types, m.type) \in TypeRow /\ Key(Retyped(d.types, m.type)) = Key(m.type)
        BY <4>2, RetypedRow, Tables
      <4>4. l.type = Retyped(d.types, m.type)
        BY <4>1, <4>2, <4>3, RetypedLeave
      <4>5. /\ Retyped(d.types, m.type) = IF Key(m.type) \in LeaveTypes
                                            THEN One(CodedTypes(d.types), Key(m.type)) ELSE m.type
            /\ Retyped(d.types, l.type) = IF Key(l.type) \in LeaveTypes
                                            THEN One(CodedTypes(d.types), Key(l.type)) ELSE l.type
        BY <2>1, <4>2, RetypedRow, Tables
      <4>6. QED
        BY <2>2, <4>3, <4>4, <4>5
    <3>3. QED
      BY <1>4, <3>1, <3>2
  <2>4. QED
    BY <2>1, <2>3, RetypedLeave
<1>6. Kept(e) = e.leaves
  BY <1>5 DEF Kept
<1>7. QED
  BY <1>1, <1>2, <1>3, <1>4, <1>6

\* A second seed leaves every table but those of people and applications,
\* and there changes no one but the old administrator and makes no row.
LEMMA SeededAgain ==
  ASSUME NEW d \in Database, NEW e \in Seedings(d), NEW f \in Seedings(e)
  PROVE  SameRows(e, f) /\ (f.leaves = e.leaves => f = e)
<1>1. /\ e \in Database
      /\ e.roles = (d.roles \cup RoleNames) \ {LegacyRole, NoneRole}
      /\ e.departments = (d.departments \cup {Today(k) : k \in Departments})
                            \ {Garbled(k) : k \in Departments}
      /\ e.types = MergedTypes(d.types)
      /\ e.seat = [d.seat EXCEPT !["engineering"] = "managerKt", !["hr"] = "hrAdmin"]
      /\ e.users = [u \in Users |-> IF u = LegacyAdmin /\ d.oldName /\ ~Referred(e, u) THEN NoOne
                                    ELSE Settled(d, u)]
      /\ e.sheets = [u \in Users |-> IF u \in Demo \ {"hrAdmin"} THEN SeededSheet(u) ELSE d.sheets[u]]
      /\ e.leaves \in Written(d)
      /\ e.payrolls = [u \in Users |-> IF u \in {"employee2", "employeeOT"}
                                       THEN UpsertPayroll(d.payrolls[u]) ELSE d.payrolls[u]]
      /\ e.notes = d.notes \cup SeededNotes
      /\ e.oldName = d.oldName /\ e.warnings = d.warnings /\ e.corrections = d.corrections
  BY SeededTables
<1>2. /\ f \in Database
      /\ f.roles = (e.roles \cup RoleNames) \ {LegacyRole, NoneRole}
      /\ f.departments = (e.departments \cup {Today(k) : k \in Departments})
                            \ {Garbled(k) : k \in Departments}
      /\ f.types = MergedTypes(e.types)
      /\ f.seat = [e.seat EXCEPT !["engineering"] = "managerKt", !["hr"] = "hrAdmin"]
      /\ f.users = [u \in Users |-> IF u = LegacyAdmin /\ e.oldName /\ ~Referred(f, u) THEN NoOne
                                    ELSE Settled(e, u)]
      /\ f.sheets = [u \in Users |-> IF u \in Demo \ {"hrAdmin"} THEN SeededSheet(u) ELSE e.sheets[u]]
      /\ f.leaves \in Written(e)
      /\ f.payrolls = [u \in Users |-> IF u \in {"employee2", "employeeOT"}
                                       THEN UpsertPayroll(e.payrolls[u]) ELSE e.payrolls[u]]
      /\ f.notes = e.notes \cup SeededNotes
      /\ f.oldName = e.oldName /\ f.warnings = e.warnings /\ f.corrections = e.corrections
  BY <1>1, SeededTables
<1>3. f.roles = e.roles
  BY <1>1, <1>2 DEF RoleNames, LegacyRole, NoneRole
<1>4. f.departments = e.departments
  BY <1>1, <1>2, NameHasKey
<1>5. f.types = e.types
  BY <1>1, <1>2, MergedOnce, Tables
<1>6. f.seat = e.seat
  BY <1>1, <1>2, Tables
<1>7. f.sheets = e.sheets /\ f.notes = e.notes
  BY <1>1, <1>2
<1>8. f.payrolls = e.payrolls
  <2>1. \A u \in Users : UpsertPayroll(UpsertPayroll(d.payrolls[u])) = UpsertPayroll(d.payrolls[u])
    BY Tables DEF UpsertPayroll
  <2>2. QED
    BY <1>1, <1>2, <2>1
<1>9. \A u \in Users : Settled(e, u) = e.users[u] \/ (u = LegacyAdmin /\ d.oldName /\ ~Referred(e, u))
  <2>1. LegacyAdmin \notin Demo
    BY DEF LegacyAdmin, Demo
  <2>2. ASSUME NEW u \in Users
        PROVE  Settled(e, u) = e.users[u] \/ (u = LegacyAdmin /\ d.oldName /\ ~Referred(e, u))
    <3>0. CASE u = LegacyAdmin /\ d.oldName /\ ~Referred(e, u)
      BY <3>0
    <3>1. CASE ~(u = LegacyAdmin /\ d.oldName /\ ~Referred(e, u))
      <4>1. e.users[u] = Settled(d, u)
        BY <1>1, <3>1
      <4>2. CASE u \in Demo
        BY <4>1, <4>2 DEF Settled
      <4>3. CASE u \notin Demo
        <5>1. d.users[u] \in Person
          BY Tables
        <5>2. Settled(d, u) = Rehire(Placed(d.users[u])) /\ Settled(e, u) = Rehire(Placed(e.users[u]))
          BY <4>3 DEF Settled
        <5>3. QED
          BY <4>1, <5>1, <5>2, SettledPerson
      <4>4. QED
        BY <4>2, <4>3
    <3>2. QED
      BY <3>0, <3>1
  <2>3. QED
    BY <2>2
<1>10. \A u \in Users \ {LegacyAdmin} : f.users[u] = e.users[u]
  BY <1>2, <1>9
<1>11. {l.no : l \in f.leaves} = {l.no : l \in e.leaves}
  <2>1. /\ e.types \in SUBSET TypeRow /\ MergedTypes(e.types) = e.types /\ Kept(e) = e.leaves
        /\ \A app \in SeedsLeaves(e.types) : \E n \in Numbers : LeaveOf(app, n) \in e.leaves
    BY SettledLeaves
  <2>2. \A app \in SeedsLeaves(e.types), n \in Numbers : SameLeave(LeaveOf(app, n), app)
    BY <2>1, SeededRows DEF SameLeave
  <2>3. \A app \in SeedsLeaves(e.types) : \E l \in e.leaves : SameLeave(l, app)
    BY <2>1, <2>2
  <2>4. f.leaves \in LeavesSeeded(e.types, e.leaves)
    BY <1>2, <2>1 DEF Written
  <2>5. Nos(f.leaves) = Nos(e.leaves)
    <3>1. e.leaves \in SUBSET LeaveRow
      BY <1>1, Tables
    <3>2. e.types \in SUBSET TypeRow
      BY <2>1
    <3>3. (\A app \in SeedsLeaves(e.types) : \E l \in e.leaves : SameLeave(l, app)) => Nos(f.leaves) = Nos(e.leaves)
      BY <2>4, <3>1, <3>2, SeededLeaves
    <3>4. QED
      BY <2>3, <3>3
  <2>6. QED
    BY <2>5 DEF Nos
<1>12. [f EXCEPT !.leaves = e.leaves, !.users = e.users] = e
  <2> DEFINE g == [f EXCEPT !.leaves = e.leaves, !.users = e.users]
  <2>1. /\ g \in Database /\ g.leaves = e.leaves /\ g.users = e.users
        /\ g.roles = f.roles /\ g.departments = f.departments /\ g.types = f.types /\ g.seat = f.seat
        /\ g.sheets = f.sheets /\ g.payrolls = f.payrolls /\ g.notes = f.notes
        /\ g.oldName = f.oldName /\ g.warnings = f.warnings /\ g.corrections = f.corrections
    BY <1>1, <1>2 DEF Database
  <2> HIDE DEF g
  <2>2. g = e
    <3>1. /\ g.roles = e.roles /\ g.departments = e.departments /\ g.types = e.types /\ g.seat = e.seat
          /\ g.users = e.users /\ g.sheets = e.sheets /\ g.leaves = e.leaves
          /\ g.payrolls = e.payrolls /\ g.notes = e.notes /\ g.oldName = e.oldName
          /\ g.warnings = e.warnings /\ g.corrections = e.corrections
      BY <1>2, <1>3, <1>4, <1>5, <1>6, <1>7, <1>8, <2>1
    <3>2. g \in Database /\ e \in Database
      BY <1>1, <2>1
    <3>3. QED
      BY <3>1, <3>2, SameTables
  <2>3. QED
    BY <2>2 DEF g
<1>13. ASSUME f.leaves = e.leaves PROVE f = e
  <2>1. Referred(f, LegacyAdmin) <=> Referred(e, LegacyAdmin)
    BY <1>2, <1>6, <1>7, <1>8, <1>13 DEF Referred
  <2>2. ASSUME NEW u \in Users PROVE f.users[u] = e.users[u]
    <3>1. CASE u = LegacyAdmin /\ d.oldName /\ ~Referred(e, u)
      BY <1>1, <1>2, <2>1, <3>1
    <3>2. CASE ~(u = LegacyAdmin /\ d.oldName /\ ~Referred(e, u))
      BY <1>1, <1>2, <1>9, <2>1, <3>2
    <3>3. QED
      BY <3>1, <3>2
  <2>3. f.users = e.users
    BY <1>1, <1>2, <2>2, Tables
  <2>4. QED
    BY <1>1, <1>2, <1>3, <1>4, <1>5, <1>6, <1>7, <1>8, <1>13, <2>3, SameTables
<1>14. QED
  BY <1>10, <1>11, <1>12, <1>13 DEF SameRows

\* Where no leave of the seed has two rows a second seed finds what it wrote.
LEMMA SeededTwice ==
  ASSUME NEW d \in Database, NEW e \in Seedings(d), ~Doubled(e)
  PROVE  Seedings(e) = {e}
<1>1. e \in Database
  BY SeededTables
<1>2. /\ e.types \in SUBSET TypeRow /\ MergedTypes(e.types) = e.types /\ Kept(e) = e.leaves
      /\ \A app \in SeedsLeaves(e.types) : \E n \in Numbers : LeaveOf(app, n) \in e.leaves
  BY SettledLeaves
<1>3. \A l, m \in e.leaves, app \in SeedsLeaves(e.types) : SameLeave(l, m) /\ SameLeave(l, app) => l = m
  BY DEF Doubled, SeedsLeaves
<1>4. LeavesSeeded(e.types, e.leaves) = {e.leaves}
  BY <1>1, <1>2, <1>3, LeavesThere, Tables
<1>5. Written(e) = {e.leaves}
  BY <1>2, <1>4 DEF Written
<1>6. \E f : f \in Seedings(e)
  <2> DEFINE m == SeedMonthlyTimesheets(Peopled(e))
  <2>1. m.types = MergedTypes(e.types) /\ m.leaves = Kept(e)
    BY <1>1, SeedingsAre
  <2>2. Seedings(e) = {CleanupLegacySeedData(SeedNotifications(SeedPayrolls(f))) : f \in SeedLeaveApplications(m)}
    BY DEF Seedings
  <2> HIDE DEF m
  <2>3. SeedLeaveApplications(m) = {[m EXCEPT !.leaves = x] : x \in Written(e)}
    BY <2>1 DEF SeedLeaveApplications, Written
  <2>4. [m EXCEPT !.leaves = e.leaves] \in SeedLeaveApplications(m)
    BY <1>5, <2>3
  <2>5. QED
    BY <2>2, <2>4
<1>7. \A f \in Seedings(e) : f.leaves = e.leaves
  BY <1>1, <1>5, SeededTables
<1>8. \A f \in Seedings(e) : f = e
  BY <1>7, SeededAgain
<1>9. QED
  BY <1>6, <1>8

-----------------------------------------------------------------------------
(* Seed: types *)

LEMMA EmptyTyped == Empty \in Database
<1>1. NoOne \in Person
  BY DEF NoOne, Person
<1>2. NoSheet \in Sheet
  BY DEF NoSheet, Sheet
<1>3. QED
  BY <1>1, <1>2 DEF Empty, Database

LEMMA SeedInitTyped == SeedInit => SeedTypeOK
BY EmptyTyped, InheritedAssumption DEF SeedInit, SeedTypeOK

\* What each step of a person writes; everything else it leaves.
LEMMA StartTables ==
  ASSUME SeedTypeOK, Start
  PROVE  /\ SeedTypeOK' /\ heard' = heard /\ reseeded' = reseeded
         /\ db' = db \/ db.types = {}
         /\ db'.users = db.users /\ db'.roles = db.roles /\ db'.departments = db.departments
         /\ db'.seat = db.seat /\ db'.sheets = db.sheets /\ db'.leaves = db.leaves
         /\ db'.payrolls = db.payrolls /\ db'.notes = db.notes
         /\ db'.warnings = db.warnings /\ db'.corrections = db.corrections
<1>1. LegacyTypes \in SUBSET TypeRow
  BY DEF LegacyTypes, TypeRow, Names, LeaveTypes
<1> HIDE DEF LegacyTypes
<1>2. db \in Database /\ (db' = db \/ (db.types = {} /\ db' = [db EXCEPT !.types = LegacyTypes]))
  BY DEF SeedTypeOK, Start
<1>3. /\ db' \in Database
      /\ db'.users = db.users /\ db'.roles = db.roles /\ db'.departments = db.departments
      /\ db'.seat = db.seat /\ db'.sheets = db.sheets /\ db'.leaves = db.leaves
      /\ db'.payrolls = db.payrolls /\ db'.notes = db.notes
      /\ db'.warnings = db.warnings /\ db'.corrections = db.corrections
  BY <1>1, <1>2 DEF Database
<1>4. heard' = heard /\ reseeded' = reseeded /\ server' \in {"up", "empty"}
  BY DEF Start
<1>5. QED
  BY <1>2, <1>3, <1>4 DEF SeedTypeOK

Newcomer == [role |-> "employee", dept |-> Today("engineering"), remain |-> AnnualDays]

LEMMA HireTables ==
  ASSUME SeedTypeOK, Hire
  PROVE  /\ SeedTypeOK' /\ heard' = heard /\ reseeded' = reseeded /\ server = "up" /\ server' = server
         /\ db'.users = [db.users EXCEPT ![Guest] = Newcomer]
         /\ db'.roles = db.roles /\ db'.departments = db.departments /\ db'.types = db.types
         /\ db'.seat = db.seat /\ db'.sheets = db.sheets /\ db'.leaves = db.leaves
         /\ db'.payrolls = db.payrolls /\ db'.notes = db.notes
         /\ db'.warnings = db.warnings /\ db'.corrections = db.corrections
<1> DEFINE users == [db.users EXCEPT ![Guest] = Newcomer]
<1>1. Newcomer \in Person
  BY DEF Newcomer, Person, Names, Departments, RoleNames, AnnualDays
<1>2. db \in Database
  BY DEF SeedTypeOK
<1>3. users \in [Users -> Person]
  BY <1>1, <1>2, Tables
<1>4. db' = [db EXCEPT !.users = users]
  BY DEF Hire, Newcomer
<1> HIDE DEF users
<1>5. /\ db' \in Database /\ db'.users = users
      /\ db'.roles = db.roles /\ db'.departments = db.departments /\ db'.types = db.types
      /\ db'.seat = db.seat /\ db'.sheets = db.sheets /\ db'.leaves = db.leaves
      /\ db'.payrolls = db.payrolls /\ db'.notes = db.notes
      /\ db'.warnings = db.warnings /\ db'.corrections = db.corrections
  BY <1>2, <1>3, <1>4 DEF Database
<1>6. heard' = heard /\ reseeded' = reseeded /\ server = "up" /\ server' = server
  BY DEF Hire
<1>7. QED
  BY <1>5, <1>6 DEF SeedTypeOK, users

LEMMA NewTypeTables ==
  ASSUME SeedTypeOK, NEW code \in {"annual", "other"}, NewType(code)
  PROVE  /\ SeedTypeOK' /\ heard' = heard /\ reseeded' = reseeded /\ server = "up" /\ server' = server
         /\ db.types \subseteq db'.types
         /\ db'.users = db.users /\ db'.roles = db.roles /\ db'.departments = db.departments
         /\ db'.seat = db.seat /\ db'.sheets = db.sheets /\ db'.leaves = db.leaves
         /\ db'.payrolls = db.payrolls /\ db'.notes = db.notes
         /\ db'.warnings = db.warnings /\ db'.corrections = db.corrections
<1> DEFINE types == db.types \cup {[name |-> Today("custom"), code |-> code, copy |-> 0]}
<1>1. db \in Database
  BY DEF SeedTypeOK
<1>2. types \in SUBSET TypeRow
  BY <1>1, Tables DEF TypeRow, Names, LeaveTypes
<1>3. db' = [db EXCEPT !.types = types] /\ db.types \subseteq types
  BY DEF NewType
<1> HIDE DEF types
<1>4. /\ db' \in Database /\ db.types \subseteq db'.types
      /\ db'.users = db.users /\ db'.roles = db.roles /\ db'.departments = db.departments
      /\ db'.seat = db.seat /\ db'.sheets = db.sheets /\ db'.leaves = db.leaves
      /\ db'.payrolls = db.payrolls /\ db'.notes = db.notes
      /\ db'.warnings = db.warnings /\ db'.corrections = db.corrections
  BY <1>1, <1>2, <1>3 DEF Database
<1>5. heard' = heard /\ reseeded' = reseeded /\ server = "up" /\ server' = server
  BY DEF NewType
<1>6. QED
  BY <1>4, <1>5 DEF SeedTypeOK

LEMMA RenameTables ==
  ASSUME SeedTypeOK, NEW role \in RoleNames, RenameRole(role, OtherRole)
  PROVE  /\ SeedTypeOK' /\ heard' = heard /\ reseeded' = reseeded /\ server = "up" /\ server' = server
         /\ \A u \in Users : /\ Exists(db', u) <=> Exists(db, u)
                             /\ db'.users[u].dept = db.users[u].dept
                             /\ db'.users[u].remain = db.users[u].remain
                             /\ db.users[u].role \in db.roles => db'.users[u].role \in db'.roles
         /\ db'.departments = db.departments /\ db'.types = db.types
         /\ db'.seat = db.seat /\ db'.sheets = db.sheets /\ db'.leaves = db.leaves
         /\ db'.payrolls = db.payrolls /\ db'.notes = db.notes
         /\ db'.warnings = db.warnings /\ db'.corrections = db.corrections
<1> DEFINE users == [u \in Users |-> IF db.users[u].role = role
                                     THEN [db.users[u] EXCEPT !.role = OtherRole] ELSE db.users[u]]
           roles == (db.roles \ {role}) \cup {OtherRole}
<1>1. db \in Database
  BY DEF SeedTypeOK
<1>2. \A p \in Person : [p EXCEPT !.role = OtherRole] \in Person
  BY DEF Person
<1>3. users \in [Users -> Person] /\ roles \in SUBSET (RoleNames \cup {LegacyRole, NoneRole, OtherRole})
  BY <1>1, <1>2, Tables
<1>4. ASSUME NEW u \in Users
      PROVE  /\ users[u] # NoOne <=> Exists(db, u)
             /\ users[u].dept = db.users[u].dept /\ users[u].remain = db.users[u].remain
             /\ db.users[u].role \in db.roles => users[u].role \in roles
  <2>1. db.users[u] \in Person
    BY <1>1, Tables
  <2>2. OtherRole # "none" /\ role # "none" /\ NoOne.role = "none"
    BY DEF OtherRole, RoleNames, NoOne
  <2>3. /\ users[u].role = (IF db.users[u].role = role THEN OtherRole ELSE db.users[u].role)
        /\ users[u].dept = db.users[u].dept /\ users[u].remain = db.users[u].remain
    BY <2>1 DEF Person
  <2>4. CASE db.users[u].role = role
    BY <2>2, <2>3, <2>4 DEF Exists
  <2>5. CASE db.users[u].role # role
    BY <2>3, <2>5 DEF Exists
  <2>6. QED
    BY <2>4, <2>5
<1>5. db' = [db EXCEPT !.roles = roles, !.users = users]
  BY DEF RenameRole
<1> HIDE DEF users, roles
<1>6. /\ db' \in Database /\ db'.users = users /\ db'.roles = roles
      /\ db'.departments = db.departments /\ db'.types = db.types
      /\ db'.seat = db.seat /\ db'.sheets = db.sheets /\ db'.leaves = db.leaves
      /\ db'.payrolls = db.payrolls /\ db'.notes = db.notes
      /\ db'.warnings = db.warnings /\ db'.corrections = db.corrections
  BY <1>1, <1>3, <1>5 DEF Database
<1>7. heard' = heard /\ reseeded' = reseeded /\ server = "up" /\ server' = server
  BY DEF RenameRole
<1>8. \A u \in Users : /\ Exists(db', u) <=> Exists(db, u)
                       /\ db'.users[u].dept = db.users[u].dept
                       /\ db'.users[u].remain = db.users[u].remain
                       /\ db.users[u].role \in db.roles => db'.users[u].role \in db'.roles
  BY <1>4, <1>6 DEF Exists
<1>9. QED
  BY <1>6, <1>7, <1>8 DEF SeedTypeOK

LEMMA RemoveTables ==
  ASSUME SeedTypeOK, NEW role \in db.roles, RemoveRole(role)
  PROVE  /\ SeedTypeOK' /\ heard' = heard /\ reseeded' = reseeded /\ server = "up" /\ server' = server
         /\ db'.roles = db.roles \ {role} /\ \A u \in Users : db.users[u].role # role
         /\ db'.users = db.users /\ db'.departments = db.departments /\ db'.types = db.types
         /\ db'.seat = db.seat /\ db'.sheets = db.sheets /\ db'.leaves = db.leaves
         /\ db'.payrolls = db.payrolls /\ db'.notes = db.notes
         /\ db'.warnings = db.warnings /\ db'.corrections = db.corrections
<1>1. db \in Database
  BY DEF SeedTypeOK
<1>2. /\ db' = [db EXCEPT !.roles = db.roles \ {role}] /\ \A u \in Users : db.users[u].role # role
      /\ heard' = heard /\ reseeded' = reseeded /\ server = "up" /\ server' = server
  BY DEF RemoveRole
<1>3. /\ db' \in Database /\ db'.roles = db.roles \ {role}
      /\ db'.users = db.users /\ db'.departments = db.departments /\ db'.types = db.types
      /\ db'.seat = db.seat /\ db'.sheets = db.sheets /\ db'.leaves = db.leaves
      /\ db'.payrolls = db.payrolls /\ db'.notes = db.notes
      /\ db'.warnings = db.warnings /\ db'.corrections = db.corrections
  BY <1>1, <1>2 DEF Database
<1>4. QED
  BY <1>2, <1>3 DEF SeedTypeOK

\* Who is told: someone, or nobody.
LEMMA ManagerIs ==
  ASSUME NEW d \in Database, NEW u \in Users
  PROVE  /\ ManagerOf(d, u) \in Users \cup {Nobody}
         /\ ManagerOf(d, u) \in Named(d) \cup {Nobody}
<1>1. CASE \E k \in Departments : d.users[u].dept = Today(k)
  <2>1. PICK k \in Departments : ManagerOf(d, u) = d.seat[k]
    BY <1>1 DEF ManagerOf
  <2>2. QED
    BY <2>1, Tables DEF Named
<1>2. CASE ~\E k \in Departments : d.users[u].dept = Today(k)
  BY <1>2 DEF ManagerOf
<1>3. QED
  BY <1>1, <1>2

LEMMA ToldNotes ==
  \A notes, from, to, about :
     \A n \in Told(notes, from, to, about) : n \in notes \/ (n = <<from, to, about>> /\ to # Nobody)
BY DEF Told

LEMMA ToldTyped ==
  ASSUME NEW notes \in SUBSET NoteRow, NEW from \in Users, NEW to \in Users \cup {Nobody},
         NEW about \in {"request", "review"}
  PROVE  Told(notes, from, to, about) \in SUBSET NoteRow
<1>1. CASE to = Nobody
  BY <1>1 DEF Told
<1>2. CASE to # Nobody
  <2>1. <<from, to, about>> \in NoteRow
    BY <1>2 DEF NoteRow
  <2>2. QED
    BY <1>2, <2>1 DEF Told
<1>3. QED
  BY <1>1, <1>2

\* An application of a person.
LEMMA ApplyTables ==
  ASSUME SeedTypeOK, NEW r \in Requests, Apply(r[1], r[2], r[3])
  PROVE  \E l \in LeaveRow :
           /\ SeedTypeOK' /\ reseeded' = reseeded /\ server = "up" /\ server' = server
           /\ l.who = r[1] /\ l.who \in Users /\ Exists(db, l.who)
           /\ l.type \in db.types /\ l.status = "PENDING" /\ l.reviewer = Nobody
           /\ l.no \in Numbers /\ l.no \notin Nos(db.leaves)
           /\ heard' = [heard EXCEPT ![l.no] = "PENDING"]
           /\ db'.leaves = db.leaves \cup {l}
           /\ db'.notes = Told(db.notes, l.who, ManagerOf(db, l.who), "request")
           /\ db'.users = db.users /\ db'.roles = db.roles /\ db'.departments = db.departments
           /\ db'.types = db.types /\ db'.seat = db.seat /\ db'.sheets = db.sheets
           /\ db'.payrolls = db.payrolls
           /\ db'.warnings = db.warnings /\ db'.corrections = db.corrections
<1> DEFINE u == r[1]
<1>1. db \in Database /\ u \in Users /\ r[3] \in Starts
  BY RequestsAssumption DEF SeedTypeOK
<1>2. PICK t \in db.types, n \in FreeNumber(db.leaves) :
        /\ db' = [db EXCEPT !.leaves = @ \cup
                     {[no |-> n, who |-> u, type |-> t, from |-> r[3], status |-> "PENDING",
                       reviewer |-> Nobody]},
                            !.notes = Told(@, u, ManagerOf(db, u), "request")]
        /\ heard' = [heard EXCEPT ![n] = "PENDING"]
  BY DEF Apply
<1>3. /\ Exists(db, u) /\ reseeded' = reseeded /\ server = "up" /\ server' = server
  BY DEF Apply
<1>4. n \in Numbers /\ n \notin Nos(db.leaves)
  BY DEF FreeNumber, Nos
<1> DEFINE l == [no |-> n, who |-> u, type |-> t, from |-> r[3], status |-> "PENDING",
                 reviewer |-> Nobody]
<1>5. /\ l \in LeaveRow /\ l.who = u /\ l.no = n /\ l.type = t /\ l.status = "PENDING"
      /\ l.reviewer = Nobody
  BY <1>1, <1>4, Tables DEF LeaveRow
<1> DEFINE leaves == db.leaves \cup {l}
           notes == Told(db.notes, u, ManagerOf(db, u), "request")
<1>6. leaves \in SUBSET LeaveRow
  BY <1>1, <1>5, Tables
<1>7. notes \in SUBSET NoteRow
  <2>1. db.notes \in SUBSET NoteRow
    BY <1>1, Tables
  <2>2. ManagerOf(db, u) \in Users \cup {Nobody}
    BY <1>1, ManagerIs
  <2>3. QED
    BY <1>1, <2>1, <2>2, ToldTyped
<1>8. db' = [db EXCEPT !.leaves = leaves, !.notes = notes]
  BY <1>2
<1> HIDE DEF l, leaves, notes, u
<1>9. /\ db' \in Database /\ db'.leaves = leaves /\ db'.notes = notes
      /\ db'.users = db.users /\ db'.roles = db.roles /\ db'.departments = db.departments
      /\ db'.types = db.types /\ db'.seat = db.seat /\ db'.sheets = db.sheets
      /\ db'.payrolls = db.payrolls
      /\ db'.warnings = db.warnings /\ db'.corrections = db.corrections
  BY <1>1, <1>6, <1>7, <1>8 DEF Database
<1>10. SeedTypeOK'
  BY <1>2, <1>3, <1>4, <1>9 DEF SeedTypeOK
<1>11. db'.leaves = db.leaves \cup {l} /\ db'.notes = Told(db.notes, l.who, ManagerOf(db, l.who), "request")
  BY <1>5, <1>9 DEF leaves, notes
<1>12. QED
  BY <1>1, <1>2, <1>3, <1>4, <1>5, <1>9, <1>10, <1>11 DEF u

\* A decision.
Verdict(l, say) == [l EXCEPT !.status = say, !.reviewer = ManagerOf(db, l.who)]

LEMMA DecisionTables ==
  ASSUME SeedTypeOK, NEW l \in db.leaves, NEW say \in {"APPROVED", "REJECTED"}, Decide(l, say)
  PROVE  /\ SeedTypeOK' /\ reseeded' = reseeded /\ server = "up" /\ server' = server
         /\ l \in LeaveRow /\ Verdict(l, say) \in LeaveRow /\ l.status # say
         /\ Verdict(l, say).who = l.who /\ Verdict(l, say).no = l.no
         /\ Verdict(l, say).type = l.type /\ Verdict(l, say).from = l.from
         /\ Verdict(l, say).status = say /\ Verdict(l, say).reviewer = ManagerOf(db, l.who)
         /\ heard' = [heard EXCEPT ![l.no] = say]
         /\ db'.leaves = (db.leaves \ {l}) \cup {Verdict(l, say)}
         /\ db'.notes = Told(db.notes, ManagerOf(db, l.who), l.who, "review")
         /\ \A u \in Users : /\ db'.users[u].role = db.users[u].role
                             /\ db'.users[u].dept = db.users[u].dept
         /\ \A u \in Users : db'.users[u].remain = IF u = l.who
                                                   THEN db.users[u].remain - Charge(l, say)
                                                   ELSE db.users[u].remain
         /\ db'.roles = db.roles /\ db'.departments = db.departments
         /\ db'.types = db.types /\ db'.seat = db.seat /\ db'.sheets = db.sheets
         /\ db'.payrolls = db.payrolls
         /\ db'.warnings = db.warnings /\ db'.corrections = db.corrections
<1> DEFINE m == Verdict(l, say)
           leaves == (db.leaves \ {l}) \cup {m}
           users == [db.users EXCEPT ![l.who].remain = @ - Charge(l, say)]
           notes == Told(db.notes, ManagerOf(db, l.who), l.who, "review")
<1>1. db \in Database /\ l \in LeaveRow
  BY Tables DEF SeedTypeOK
<1>2. l.who \in Users /\ l.no \in Numbers /\ Charge(l, say) \in Int
  BY <1>1 DEF LeaveRow, Charge, Length
<1>3. ManagerOf(db, l.who) \in Users \cup {Nobody} /\ ManagerOf(db, l.who) # Nobody
  BY <1>1, <1>2, ManagerIs DEF Decide
<1>4. /\ m \in LeaveRow /\ m.who = l.who /\ m.no = l.no /\ m.type = l.type /\ m.from = l.from
      /\ m.status = say /\ m.reviewer = ManagerOf(db, l.who)
  <2> DEFINE boss == ManagerOf(db, l.who)
  <2>1. boss \in Users
    BY <1>3
  <2>2. m = [l EXCEPT !.status = say, !.reviewer = boss]
    BY DEF Verdict
  <2> HIDE DEF boss, m
  <2>3. /\ m \in LeaveRow /\ m.who = l.who /\ m.no = l.no /\ m.type = l.type /\ m.from = l.from
        /\ m.status = say /\ m.reviewer = boss
    BY <1>1, <2>1, <2>2 DEF LeaveRow
  <2>4. QED
    BY <2>3 DEF boss
<1>5. db.users[l.who] \in Person
  BY <1>1, <1>2, Tables
<1>6. /\ users \in [Users -> Person]
      /\ \A u \in Users : /\ users[u].role = db.users[u].role
                          /\ users[u].dept = db.users[u].dept
                          /\ users[u].remain = IF u = l.who THEN db.users[u].remain - Charge(l, say)
                                               ELSE db.users[u].remain
  <2> DEFINE p == [db.users[l.who] EXCEPT !.remain = @ - Charge(l, say)]
  <2>1. /\ p \in Person /\ p.role = db.users[l.who].role /\ p.dept = db.users[l.who].dept
        /\ p.remain = db.users[l.who].remain - Charge(l, say)
    BY <1>2, <1>5 DEF Person
  <2>2. users = [db.users EXCEPT ![l.who] = p]
    OBVIOUS
  <2> HIDE DEF p, users
  <2>3. QED
    BY <1>1, <1>2, <2>1, <2>2, Tables
<1>7. leaves \in SUBSET LeaveRow
  BY <1>1, <1>4, Tables
<1>8. notes \in SUBSET NoteRow
  <2>1. db.notes \in SUBSET NoteRow
    BY <1>1, Tables
  <2>2. ManagerOf(db, l.who) \in Users /\ l.who \in Users \cup {Nobody}
    BY <1>2, <1>3
  <2>3. QED
    BY <2>1, <2>2, ToldTyped
<1>9. /\ heard' = [heard EXCEPT ![l.no] = say] /\ reseeded' = reseeded /\ l.status # say
      /\ server = "up" /\ server' = server
  BY DEF Decide
<1>10. db' = [db EXCEPT !.leaves = leaves, !.users = users, !.notes = notes]
  <2>1. db' = [db EXCEPT !.leaves = (@ \ {l}) \cup {[l EXCEPT !.status = say,
                                                              !.reviewer = ManagerOf(db, l.who)]},
                         !.users[l.who].remain = @ - Charge(l, say),
                         !.notes = Told(@, ManagerOf(db, l.who), l.who, "review")]
    BY Zenon DEF Decide
  <2>2. QED
    BY <2>1 DEF Verdict
<1> HIDE DEF leaves, users, notes, m
<1>11. /\ db' \in Database /\ db'.leaves = leaves /\ db'.users = users /\ db'.notes = notes
       /\ db'.roles = db.roles /\ db'.departments = db.departments
       /\ db'.types = db.types /\ db'.seat = db.seat /\ db'.sheets = db.sheets
       /\ db'.payrolls = db.payrolls
       /\ db'.warnings = db.warnings /\ db'.corrections = db.corrections
  BY <1>1, <1>6, <1>7, <1>8, <1>10 DEF Database
<1>12. SeedTypeOK'
  BY <1>2, <1>9, <1>11 DEF SeedTypeOK
<1>13. db'.leaves = (db.leaves \ {l}) \cup {m} /\ db'.notes = Told(db.notes, ManagerOf(db, l.who), l.who, "review")
  BY <1>11 DEF leaves, notes
<1>14. QED
  BY <1>1, <1>4, <1>6, <1>9, <1>11, <1>12, <1>13 DEF m

LEMMA SeedStepTyped == SeedTypeOK /\ [SeedNext]_seedVars => SeedTypeOK'
<1> SUFFICES ASSUME SeedTypeOK, [SeedNext]_seedVars PROVE SeedTypeOK'
  OBVIOUS
<1>1. CASE Start
  BY <1>1, StartTables
<1>2. CASE SeedAtStart \/ Command
  BY <1>2, SeededTables DEF SeedAtStart, Command, SeedTypeOK
<1>3. CASE Crash
  BY <1>3 DEF Crash, SeedTypeOK
<1>4. CASE Hire
  BY <1>4, HireTables
<1>5. ASSUME NEW code \in {"annual", "other"}, NewType(code) PROVE SeedTypeOK'
  BY <1>5, NewTypeTables
<1>6. ASSUME NEW role \in RoleNames, RenameRole(role, OtherRole) PROVE SeedTypeOK'
  BY <1>6, RenameTables
<1>7. ASSUME NEW role \in db.roles, RemoveRole(role) PROVE SeedTypeOK'
  BY <1>7, RemoveTables
<1>8. ASSUME NEW r \in Requests, Apply(r[1], r[2], r[3]) PROVE SeedTypeOK'
  BY <1>8, ApplyTables
<1>9. ASSUME NEW l \in db.leaves, NEW say \in {"APPROVED", "REJECTED"}, Decide(l, say) PROVE SeedTypeOK'
  BY <1>9, DecisionTables
<1>10. CASE UNCHANGED seedVars
  BY <1>10 DEF seedVars, SeedTypeOK
<1>11. QED
  BY <1>1, <1>2, <1>3, <1>4, <1>5, <1>6, <1>7, <1>8, <1>9, <1>10 DEF SeedNext

-----------------------------------------------------------------------------
(* Seed: references *)

\* Nobody with a row has the role of those without one.
LEMMA ExistsHasRole ==
  ASSUME NEW d \in Database, NEW u \in Users
  PROVE  /\ d.users[u] \in Person /\ "none" \notin d.roles
         /\ ~Exists(d, u) => d.users[u].role = "none"
         /\ d.users[u].role # "none" => Exists(d, u)
<1>1. "none" \notin d.roles
  BY Tables DEF RoleNames, LegacyRole, NoneRole, OtherRole
<1>2. QED
  BY <1>1, Tables DEF Exists, NoOne

LEMMA NamedAre ==
  ASSUME NEW d \in Database
  PROVE  /\ Named(d) \subseteq Users \cup {Nobody}
         /\ \A u \in Users : u \in Named(d) <=> Referred(d, u)
<1>1. Nobody \notin Users
  BY GuestAssumption DEF Nobody, Users, Demo, LegacyAdmin
<1>2. /\ \A k \in Departments : d.seat[k] \in Users \cup {Nobody}
      /\ \A u \in Users : d.sheets[u].approver \in Users \cup {Nobody}
      /\ \A l \in d.leaves : l.who \in Users /\ l.reviewer \in Users \cup {Nobody}
      /\ \A n \in d.notes : n[1] \in Users \cup {Nobody} /\ n[2] \in Users
      /\ \A u \in d.warnings : u \in Users
      /\ \A c \in d.corrections : c[1] \in Users /\ c[2] \in Users
  <2>1. \A l \in LeaveRow : l.who \in Users /\ l.reviewer \in Users \cup {Nobody}
    BY DEF LeaveRow
  <2>2. \A n \in NoteRow : n[1] \in Users \cup {Nobody} /\ n[2] \in Users
    BY DEF NoteRow
  <2>3. \A s \in Sheet : s.approver \in Users \cup {Nobody}
    BY DEF Sheet
  <2>4. QED
    BY <2>1, <2>2, <2>3, Tables
<1>3. Named(d) \subseteq Users \cup {Nobody}
  BY <1>2 DEF Named
<1>4. \A u \in Users : u \in Named(d) <=> Referred(d, u)
  BY <1>1 DEF Named, Referred
<1>5. QED
  BY <1>3, <1>4

\* The rows of all tables name someone of a set.
LEMMA NamedWithin ==
  ASSUME NEW d, NEW S,
         \A k \in Departments : d.seat[k] \in S,
         \A u \in Users : d.sheets[u].approver \in S,
         \A u \in Users : d.sheets[u] # NoSheet \/ d.payrolls[u] > 0 => u \in S,
         \A l \in d.leaves : l.who \in S /\ l.reviewer \in S,
         \A n \in d.notes : n[1] \in S /\ n[2] \in S,
         \A u \in d.warnings : u \in S,
         \A c \in d.corrections : c[1] \in S /\ c[2] \in S
  PROVE  Named(d) \subseteq S
<1>1. {d.seat[k] : k \in Departments} \subseteq S /\ {d.sheets[u].approver : u \in Users} \subseteq S
  OBVIOUS
<1>2. {u \in Users : d.sheets[u] # NoSheet \/ d.payrolls[u] > 0} \subseteq S
  OBVIOUS
<1>3. {l.who : l \in d.leaves} \subseteq S /\ {l.reviewer : l \in d.leaves} \subseteq S
  OBVIOUS
<1>4. {n[1] : n \in d.notes} \subseteq S /\ {n[2] : n \in d.notes} \subseteq S /\ d.warnings \subseteq S
  OBVIOUS
<1>5. {c[1] : c \in d.corrections} \subseteq S /\ {c[2] : c \in d.corrections} \subseteq S
  OBVIOUS
<1>6. QED
  BY <1>1, <1>2, <1>3, <1>4, <1>5 DEF Named

\* Whom one row names has a row.
LEMMA NamedExist ==
  ASSUME NEW d \in Database, Refers(d)
  PROVE  /\ \A l \in d.leaves : l.who \in Users /\ Exists(d, l.who)
         /\ \A u \in Users : u \in Named(d) => Exists(d, u)
         /\ \A u \in Users : Exists(d, u) => d.users[u].role \in d.roles /\ d.users[u].dept \in d.departments
         /\ \A l \in d.leaves : l.type \in d.types
<1>1. Nobody \notin Users
  BY GuestAssumption DEF Nobody, Users, Demo, LegacyAdmin
<1>2. \A u \in Users : u \in Named(d) => Exists(d, u)
  BY <1>1 DEF Refers
<1>3. \A l \in d.leaves : l.who \in Users /\ l.who \in Named(d)
  BY Tables DEF LeaveRow, Named
<1>4. QED
  BY <1>2, <1>3 DEF Refers

\* References hold where nothing new is named but who is there.
LEMMA RefersStill ==
  ASSUME NEW d \in Database, NEW e \in Database, Refers(d),
         Named(e) \subseteq Named(d) \cup {Nobody},
         \A u \in Users : Exists(d, u) => Exists(e, u),
         \A u \in Users : Exists(e, u) => e.users[u].role \in e.roles /\ e.users[u].dept \in e.departments,
         \A l \in e.leaves : l.type \in e.types
  PROVE  Refers(e)
<1>1. \A u \in Named(e) \ {Nobody} : u \in Users /\ u \in Named(d)
  BY NamedAre
<1>2. \A u \in Named(e) \ {Nobody} : Exists(e, u)
  BY <1>1, NamedExist
<1>3. QED
  BY <1>2 DEF Refers

LEMMA SeededRefers ==
  ASSUME NEW d \in Database, Refers(d), NEW e \in Seedings(d)
  PROVE  Refers(e)
<1>1. /\ e \in Database
      /\ e.roles = (d.roles \cup RoleNames) \ {LegacyRole, NoneRole}
      /\ e.departments = (d.departments \cup {Today(k) : k \in Departments})
                            \ {Garbled(k) : k \in Departments}
      /\ e.types = MergedTypes(d.types)
      /\ e.seat = [d.seat EXCEPT !["engineering"] = "managerKt", !["hr"] = "hrAdmin"]
      /\ e.users = [u \in Users |-> IF u = LegacyAdmin /\ d.oldName /\ ~Referred(e, u) THEN NoOne
                                    ELSE Settled(d, u)]
      /\ e.sheets = [u \in Users |-> IF u \in Demo \ {"hrAdmin"} THEN SeededSheet(u) ELSE d.sheets[u]]
      /\ e.leaves \in Written(d)
      /\ e.payrolls = [u \in Users |-> IF u \in {"employee2", "employeeOT"}
                                       THEN UpsertPayroll(d.payrolls[u]) ELSE d.payrolls[u]]
      /\ e.notes = d.notes \cup SeededNotes
      /\ e.oldName = d.oldName /\ e.warnings = d.warnings /\ e.corrections = d.corrections
  BY SeededTables
<1>2. /\ \A u \in Users : Exists(d, u) => d.users[u].role \in d.roles /\ d.users[u].dept \in d.departments
      /\ \A l \in d.leaves : l.type \in d.types
      /\ \A u \in Users : u \in Named(d) => Exists(d, u)
  BY NamedExist
<1>3. LegacyAdmin \notin Demo /\ Demo \subseteq Users /\ Nobody \notin Users
  BY GuestAssumption DEF LegacyAdmin, Demo, Users, Nobody
<1>4. RoleNames \subseteq e.roles /\ {Today(k) : k \in Departments} \subseteq e.departments
  <2>1. RoleNames \subseteq e.roles
    BY <1>1 DEF RoleNames, LegacyRole, NoneRole
  <2>2. \A j, k \in Departments : Today(j) # Garbled(k)
    BY NameHasKey
  <2>3. QED
    BY <1>1, <2>1, <2>2
<1>5. ASSUME NEW u \in Users, u \notin Demo
      PROVE  /\ ~Exists(d, u) => Settled(d, u) = NoOne
             /\ Exists(d, u) => /\ Settled(d, u).role \in e.roles /\ Settled(d, u).role # "none"
                                /\ Settled(d, u).dept \in e.departments
  <2> DEFINE p == d.users[u]
  <2>1. p \in Person /\ "none" \notin d.roles /\ p.role # NoneRole
    <3>1. \A q \in Person : q.role # NoneRole
      BY DEF Person, RoleNames, LegacyRole, OtherRole, NoneRole
    <3>2. QED
      BY <3>1, ExistsHasRole
  <2>2. Settled(d, u) = Rehire(Placed(p))
    BY <1>5 DEF Settled
  <2>3. CASE ~Exists(d, u)
    BY <2>1, <2>2, <2>3, SettledPerson DEF Exists
  <2>4. CASE Exists(d, u)
    <3>1. p.role \in d.roles /\ p.dept \in d.departments
      BY <1>2, <2>4
    <3>2. /\ Settled(d, u).role = IF p.role = LegacyRole THEN "employee" ELSE p.role
          /\ Settled(d, u).dept = Placed(p).dept
      BY <2>1, <2>2, PlacedPerson, RehiredPerson
    <3>3. Settled(d, u).role \in e.roles /\ Settled(d, u).role # "none"
      BY <1>1, <1>4, <2>1, <3>1, <3>2 DEF RoleNames
    <3>4. Placed(p).dept \in e.departments
      <4>1. /\ \A k \in Departments : Placed(p).dept # Garbled(k)
            /\ Placed(p).dept = p.dept \/ Placed(p).dept \in {Today(k) : k \in Departments}
        BY <2>1, PlacedPerson
      <4>2. QED
        BY <1>1, <1>4, <3>1, <4>1
    <3>5. QED
      BY <2>4, <3>2, <3>3, <3>4
  <2>5. QED
    BY <2>3, <2>4
<1>6. ASSUME NEW u \in Users, Exists(e, u)
      PROVE e.users[u].role \in e.roles /\ e.users[u].dept \in e.departments
  <2>1. e.users[u] = Settled(d, u)
    BY <1>1, <1>6 DEF Exists
  <2>2. CASE u \in Demo
    BY <1>4, <2>1, <2>2, FreshPerson DEF Settled
  <2>3. CASE u \notin Demo
    BY <1>5, <1>6, <2>1, <2>3 DEF Exists
  <2>4. QED
    BY <2>2, <2>3
<1>7. ASSUME NEW u \in Users, u \in Demo \/ (Exists(d, u) /\ (u = LegacyAdmin => Referred(e, u)))
      PROVE Exists(e, u)
  <2>1. e.users[u] = Settled(d, u)
    BY <1>1, <1>3, <1>7
  <2>2. Settled(d, u).role # "none"
    <3>1. CASE u \in Demo
      BY <3>1, FreshPerson DEF Settled, RoleNames
    <3>2. CASE u \notin Demo
      BY <1>5, <1>7, <3>2
    <3>3. QED
      BY <3>1, <3>2
  <2>3. QED
    BY <1>1, <2>1, <2>2, ExistsHasRole
<1>8. \A l \in e.leaves : \/ l.who \in Demo /\ l.reviewer \in Demo \cup {Nobody} /\ l.type \in e.types
                          \/ \E m \in d.leaves : /\ l.who = m.who /\ l.reviewer = m.reviewer
                                                 /\ l.type \in e.types
  <2>1. /\ Kept(d) \in SUBSET LeaveRow /\ MergedTypes(d.types) \in SUBSET TypeRow
    BY KeptRows
  <2>2. \A l \in e.leaves : l \in Kept(d) \/ \E app \in SeedsLeaves(e.types), n \in Numbers : l = LeaveOf(app, n)
    <3>1. e.leaves \in LeavesSeeded(e.types, Kept(d)) /\ e.types \in SUBSET TypeRow
      BY <1>1, <2>1 DEF Written
    <3>2. QED
      BY <2>1, <3>1, SeedsAreThere
  <2>3. \A key \in LeaveTypes : Canonical(e.types, key) \in e.types
    BY <1>1, MergedTable, Tables
  <2>4. ASSUME NEW app \in SeedsLeaves(e.types), NEW n \in Numbers, NEW l, l = LeaveOf(app, n)
        PROVE  l.who \in Demo /\ l.reviewer \in Demo \cup {Nobody} /\ l.type \in e.types
    BY <1>1, <2>1, <2>3, <2>4, SeededRows
  <2>5. ASSUME NEW l \in Kept(d)
        PROVE  \E m \in d.leaves : l.who = m.who /\ l.reviewer = m.reviewer /\ l.type \in e.types
    <3>1. PICK m \in d.leaves : l = [m EXCEPT !.type = Retyped(d.types, m.type)]
      BY DEF Kept
    <3>2. m \in LeaveRow /\ m.type \in TypeRow /\ m.type \in d.types
      BY <1>2, Tables DEF LeaveRow
    <3>3. Retyped(d.types, m.type) \in TypeRow /\ Retyped(d.types, m.type) \in e.types
      BY <1>1, <3>2, RetypedRow, MergedTable, Tables
    <3>4. l.who = m.who /\ l.reviewer = m.reviewer /\ l.type = Retyped(d.types, m.type)
      BY <3>1, <3>2, <3>3, RetypedLeave
    <3>5. QED
      BY <3>3, <3>4
  <2>6. QED
    BY <2>2, <2>4, <2>5
<1>9. Named(e) \subseteq Named(d) \cup Demo \cup {Nobody}
  <2>1. \A k \in Departments : e.seat[k] \in Named(d) \cup Demo \cup {Nobody}
    BY <1>1, Tables DEF Named, Demo
  <2>2. \A u \in Users : e.sheets[u].approver \in Named(d) \cup Demo \cup {Nobody}
    BY <1>1, SeededPapers DEF Named
  <2>3. \A u \in Users : e.sheets[u] # NoSheet \/ e.payrolls[u] > 0 => u \in Named(d) \cup Demo
    BY <1>1 DEF Named, Demo
  <2>4. \A l \in e.leaves : l.who \in Named(d) \cup Demo /\ l.reviewer \in Named(d) \cup Demo \cup {Nobody}
    <3>1. \A m \in d.leaves : m.who \in Named(d) /\ m.reviewer \in Named(d)
      BY DEF Named
    <3>2. QED
      BY <1>8, <3>1
  <2>5. \A n \in e.notes : n[1] \in Named(d) \cup Demo \cup {Nobody} /\ n[2] \in Named(d) \cup Demo
    <3>1. \A n \in d.notes : n[1] \in Named(d) /\ n[2] \in Named(d)
      BY DEF Named
    <3>2. QED
      BY <1>1, <3>1, SeededPapers
  <2>6. e.warnings \subseteq Named(d) /\ \A c \in e.corrections : c[1] \in Named(d) /\ c[2] \in Named(d)
    BY <1>1 DEF Named
  <2>7. QED
    <3> DEFINE S == Named(d) \cup Demo \cup {Nobody}
    <3>1. /\ \A k \in Departments : e.seat[k] \in S
          /\ \A u \in Users : e.sheets[u].approver \in S
          /\ \A u \in Users : e.sheets[u] # NoSheet \/ e.payrolls[u] > 0 => u \in S
          /\ \A l \in e.leaves : l.who \in S /\ l.reviewer \in S
          /\ \A n \in e.notes : n[1] \in S /\ n[2] \in S
          /\ \A u \in e.warnings : u \in S
          /\ \A c \in e.corrections : c[1] \in S /\ c[2] \in S
      BY <2>1, <2>2, <2>3, <2>4, <2>5, <2>6
    <3> HIDE DEF S
    <3>2. Named(e) \subseteq S
      BY <3>1, NamedWithin
    <3>3. QED
      BY <3>2 DEF S
<1>10. ASSUME NEW u \in Named(e) \ {Nobody} PROVE Exists(e, u)
  <2>1. u \in Users /\ Referred(e, u)
    BY <1>1, <1>10, NamedAre
  <2>2. QED
    BY <1>2, <1>7, <1>9, <1>10, <2>1
<1>11. QED
  BY <1>6, <1>8, <1>10 DEF Refers

LEMMA RefersStep ==
  ASSUME SeedTypeOK, Refers(db), [SeedNext]_seedVars
  PROVE  Refers(db)'
<1>1. db \in Database /\ db' \in Database
  BY SeedStepTyped DEF SeedTypeOK
<1>2. /\ \A l \in db.leaves : l.who \in Users /\ Exists(db, l.who)
      /\ \A u \in Users : u \in Named(db) => Exists(db, u)
      /\ \A u \in Users : Exists(db, u) => db.users[u].role \in db.roles /\ db.users[u].dept \in db.departments
      /\ \A l \in db.leaves : l.type \in db.types
  BY <1>1, NamedExist
<1>3. ASSUME db' = db PROVE Refers(db')
  BY <1>3
<1>4. CASE Start
  <2>1. Named(db') = Named(db)
    BY <1>4, StartTables DEF Named
  <2>2. \A l \in db'.leaves : l.type \in db'.types
    BY <1>2, <1>4, StartTables
  <2>3. QED
    BY <1>1, <1>2, <1>4, <2>1, <2>2, StartTables, RefersStill DEF Exists
<1>5. CASE SeedAtStart \/ Command
  BY <1>1, <1>5, SeededRefers DEF SeedAtStart, Command
<1>6. CASE Crash \/ UNCHANGED seedVars
  BY <1>3, <1>6 DEF Crash, seedVars
<1>7. CASE Hire
  <2>1. Named(db') = Named(db)
    BY <1>7, HireTables DEF Named
  <2>2. /\ "employee" \in db.roles /\ Today("engineering") \in db.departments
        /\ Newcomer.role = "employee" /\ Newcomer.dept = Today("engineering") /\ Newcomer # NoOne
    BY <1>7 DEF Hire, Newcomer, NoOne
  <2>3. \A u \in Users : db'.users[u] = db.users[u] \/ db'.users[u] = Newcomer
    BY <1>1, <1>7, HireTables, Tables
  <2>4. \A u \in Users : Exists(db, u) => Exists(db', u)
    BY <2>2, <2>3 DEF Exists
  <2>5. \A u \in Users : Exists(db', u) => db'.users[u].role \in db'.roles /\ db'.users[u].dept \in db'.departments
    BY <1>2, <1>7, <2>2, <2>3, HireTables DEF Exists
  <2>6. \A l \in db'.leaves : l.type \in db'.types
    BY <1>2, <1>7, HireTables
  <2>7. QED
    BY <1>1, <2>1, <2>4, <2>5, <2>6, RefersStill
<1>8. ASSUME NEW code \in {"annual", "other"}, NewType(code) PROVE Refers(db')
  <2>1. Named(db') = Named(db)
    BY <1>8, NewTypeTables DEF Named
  <2>2. \A l \in db'.leaves : l.type \in db'.types
    BY <1>2, <1>8, NewTypeTables
  <2>3. \A u \in Users : Exists(db', u) <=> Exists(db, u)
    BY <1>8, NewTypeTables DEF Exists
  <2>4. \A u \in Users : Exists(db', u) => db'.users[u].role \in db'.roles /\ db'.users[u].dept \in db'.departments
    BY <1>2, <1>8, <2>3, NewTypeTables
  <2>5. QED
    BY <1>1, <2>1, <2>2, <2>3, <2>4, RefersStill
<1>9. ASSUME NEW role \in RoleNames, RenameRole(role, OtherRole) PROVE Refers(db')
  <2>1. Named(db') = Named(db)
    BY <1>9, RenameTables DEF Named
  <2>2. \A l \in db'.leaves : l.type \in db'.types
    BY <1>2, <1>9, RenameTables
  <2>3. \A u \in Users : Exists(db', u) => db'.users[u].role \in db'.roles /\ db'.users[u].dept \in db'.departments
    BY <1>2, <1>9, RenameTables
  <2>4. QED
    BY <1>1, <1>9, <2>1, <2>2, <2>3, RenameTables, RefersStill
<1>10. ASSUME NEW role \in db.roles, RemoveRole(role) PROVE Refers(db')
  <2>1. Named(db') = Named(db)
    BY <1>10, RemoveTables DEF Named
  <2>2. \A l \in db'.leaves : l.type \in db'.types
    BY <1>2, <1>10, RemoveTables
  <2>3. \A u \in Users : Exists(db', u) <=> Exists(db, u)
    BY <1>10, RemoveTables DEF Exists
  <2>4. \A u \in Users : Exists(db', u) => db'.users[u].role \in db'.roles /\ db'.users[u].dept \in db'.departments
    BY <1>2, <1>10, <2>3, RemoveTables
  <2>5. QED
    BY <1>1, <2>1, <2>2, <2>3, <2>4, RefersStill
<1>11. ASSUME NEW r \in Requests, Apply(r[1], r[2], r[3]) PROVE Refers(db')
  <2>1. PICK l \in LeaveRow :
           /\ SeedTypeOK' /\ reseeded' = reseeded /\ server = "up" /\ server' = server
           /\ l.who = r[1] /\ l.who \in Users /\ Exists(db, l.who)
           /\ l.type \in db.types /\ l.status = "PENDING" /\ l.reviewer = Nobody
           /\ l.no \in Numbers /\ l.no \notin Nos(db.leaves)
           /\ heard' = [heard EXCEPT ![l.no] = "PENDING"]
           /\ db'.leaves = db.leaves \cup {l}
           /\ db'.notes = Told(db.notes, l.who, ManagerOf(db, l.who), "request")
           /\ db'.users = db.users /\ db'.roles = db.roles /\ db'.departments = db.departments
           /\ db'.types = db.types /\ db'.seat = db.seat /\ db'.sheets = db.sheets
           /\ db'.payrolls = db.payrolls
           /\ db'.warnings = db.warnings /\ db'.corrections = db.corrections
    BY <1>11, ApplyTables
  <2>2. /\ ManagerOf(db, l.who) \in Named(db) \cup {Nobody}
        /\ ManagerOf(db, l.who) \in Users \cup {Nobody}
    BY <1>1, <2>1, ManagerIs
  <2>3. \A n \in db'.notes : n \in db.notes \/ (n[1] = l.who /\ n[2] \in Named(db) \cup {Nobody})
    <3>1. \A n \in db'.notes : n \in db.notes \/ n = <<l.who, ManagerOf(db, l.who), "request">>
      BY <2>1, ToldNotes
    <3>2. QED
      BY <2>2, <3>1
  <2>4. Named(db') \subseteq Named(db) \cup {l.who, Nobody}
    <3>1. \A n \in db'.notes : n[1] \in Named(db) \cup {l.who} /\ n[2] \in Named(db) \cup {Nobody}
      BY <2>3 DEF Named
    <3>2. \A k \in db'.leaves : k.who \in Named(db) \cup {l.who} /\ k.reviewer \in Named(db) \cup {Nobody}
      BY <2>1 DEF Named
    <3>3. /\ \A k \in Departments : db'.seat[k] \in Named(db)
          /\ \A u \in Users : db'.sheets[u].approver \in Named(db)
          /\ \A u \in Users : db'.sheets[u] # NoSheet \/ db'.payrolls[u] > 0 => u \in Named(db)
          /\ \A u \in db'.warnings : u \in Named(db)
          /\ \A c \in db'.corrections : c[1] \in Named(db) /\ c[2] \in Named(db)
      BY <2>1 DEF Named
    <3> DEFINE S == Named(db) \cup {l.who, Nobody}
    <3>4. /\ \A k \in Departments : db'.seat[k] \in S
          /\ \A u \in Users : db'.sheets[u].approver \in S
          /\ \A u \in Users : db'.sheets[u] # NoSheet \/ db'.payrolls[u] > 0 => u \in S
          /\ \A k \in db'.leaves : k.who \in S /\ k.reviewer \in S
          /\ \A n \in db'.notes : n[1] \in S /\ n[2] \in S
          /\ \A u \in db'.warnings : u \in S
          /\ \A c \in db'.corrections : c[1] \in S /\ c[2] \in S
      BY <3>1, <3>2, <3>3
    <3> HIDE DEF S
    <3>5. Named(db') \subseteq S
      BY <3>4, NamedWithin
    <3>6. QED
      BY <3>5 DEF S
  <2>5. \A u \in Named(db') \ {Nobody} : u \in Users
    BY <1>1, NamedAre
  <2>6. \A u \in Users : Exists(db', u) <=> Exists(db, u)
    BY <2>1 DEF Exists
  <2>7. \A u \in Named(db') \ {Nobody} : Exists(db', u)
    BY <1>2, <2>1, <2>4, <2>5, <2>6
  <2>8. \A u \in Users : Exists(db', u) => db'.users[u].role \in db'.roles /\ db'.users[u].dept \in db'.departments
    BY <1>2, <2>1, <2>6
  <2>9. \A k \in db'.leaves : k.type \in db'.types
    BY <1>2, <2>1
  <2>10. QED
    BY <2>7, <2>8, <2>9 DEF Refers
<1>12. ASSUME NEW l \in db.leaves, NEW say \in {"APPROVED", "REJECTED"}, Decide(l, say) PROVE Refers(db')
  <2> DEFINE m == Verdict(l, say)
             boss == ManagerOf(db, l.who)
  <2>1. /\ m.who = l.who /\ m.type = l.type /\ m.reviewer = boss
        /\ db'.leaves = (db.leaves \ {l}) \cup {m}
        /\ db'.notes = Told(db.notes, boss, l.who, "review")
        /\ db'.roles = db.roles /\ db'.departments = db.departments /\ db'.types = db.types
        /\ db'.seat = db.seat /\ db'.sheets = db.sheets /\ db'.payrolls = db.payrolls
        /\ db'.warnings = db.warnings /\ db'.corrections = db.corrections
    BY <1>12, DecisionTables
  <2>2. boss \in Users /\ boss \in Named(db) /\ l.who \in Users /\ l.who \in Named(db)
    <3>1. boss # Nobody
      BY <1>12 DEF Decide
    <3>2. boss \in Users \cup {Nobody} /\ boss \in Named(db) \cup {Nobody}
      BY <1>1, <1>2, ManagerIs
    <3>3. l.who \in Named(db)
      BY DEF Named
    <3>4. QED
      BY <1>2, <3>1, <3>2, <3>3
  <2>3. \A n \in db'.notes : n \in db.notes \/ (n[1] = boss /\ n[2] = l.who)
    <3> HIDE DEF boss
    <3>1. \A n \in db'.notes : n \in db.notes \/ n = <<boss, l.who, "review">>
      BY <2>1, ToldNotes
    <3>2. QED
      BY <3>1
  <2>4. \A u \in Users : db'.users[u].role = db.users[u].role /\ db'.users[u].dept = db.users[u].dept
    BY <1>12, DecisionTables
  <2>5. \A u \in Users : u # l.who => db'.users[u].remain = db.users[u].remain
    BY <1>12, DecisionTables
  <2> HIDE DEF m, boss
  <2>6. Named(db') \subseteq Named(db)
    <3>1. \A n \in db'.notes : n[1] \in Named(db) /\ n[2] \in Named(db)
      BY <2>2, <2>3 DEF Named
    <3>2. \A k \in db'.leaves : k.who \in Named(db) /\ k.reviewer \in Named(db)
      <4>1. \A k \in db.leaves : k.who \in Named(db) /\ k.reviewer \in Named(db)
        BY DEF Named
      <4>2. QED
        BY <2>1, <2>2, <4>1
    <3>3. /\ \A k \in Departments : db'.seat[k] \in Named(db)
          /\ \A u \in Users : db'.sheets[u].approver \in Named(db)
          /\ \A u \in Users : db'.sheets[u] # NoSheet \/ db'.payrolls[u] > 0 => u \in Named(db)
          /\ \A u \in db'.warnings : u \in Named(db)
          /\ \A c \in db'.corrections : c[1] \in Named(db) /\ c[2] \in Named(db)
      BY <2>1 DEF Named
    <3> DEFINE S == Named(db)
    <3>4. /\ \A k \in Departments : db'.seat[k] \in S
          /\ \A u \in Users : db'.sheets[u].approver \in S
          /\ \A u \in Users : db'.sheets[u] # NoSheet \/ db'.payrolls[u] > 0 => u \in S
          /\ \A k \in db'.leaves : k.who \in S /\ k.reviewer \in S
          /\ \A n \in db'.notes : n[1] \in S /\ n[2] \in S
          /\ \A u \in db'.warnings : u \in S
          /\ \A c \in db'.corrections : c[1] \in S /\ c[2] \in S
      BY <3>1, <3>2, <3>3
    <3> HIDE DEF S
    <3>5. Named(db') \subseteq S
      BY <3>4, NamedWithin
    <3>6. QED
      BY <3>5 DEF S
  <2>7. \A u \in Users : Exists(db, u) => Exists(db', u)
    <3>1. \A u \in Users : Exists(db, u) => db.users[u].role # "none"
      BY <1>1, <1>2, ExistsHasRole
    <3>2. QED
      BY <1>1, <2>4, <3>1, ExistsHasRole
  <2>8. \A u \in Users : Exists(db', u) => Exists(db, u)
    <3>1. ASSUME NEW u \in Users, ~Exists(db, u) PROVE ~Exists(db', u)
      <4>1. u # l.who
        BY <1>2, <3>1
      <4>2. db.users[u] \in Person /\ db'.users[u] \in Person
        BY <1>1, Tables
      <4>3. db'.users[u] = db.users[u]
        BY <2>4, <2>5, <4>1, <4>2 DEF Person
      <4>4. QED
        BY <3>1, <4>3 DEF Exists
    <3>2. QED
      BY <3>1
  <2>9. \A u \in Users : Exists(db', u) => db'.users[u].role \in db'.roles /\ db'.users[u].dept \in db'.departments
    BY <1>2, <2>1, <2>4, <2>8
  <2>10. \A k \in db'.leaves : k.type \in db'.types
    BY <1>2, <2>1
  <2>11. QED
    BY <1>1, <2>6, <2>7, <2>9, <2>10, RefersStill
<1>13. QED
  BY <1>4, <1>5, <1>6, <1>7, <1>8, <1>9, <1>10, <1>11, <1>12 DEF SeedNext

LEMMA RefersInit == SeedInit => Refers(db)
<1>1. Refers(Empty)
  <2>1. \A u \in Users : ~Exists(Empty, u)
    BY DEF Exists, Empty
  <2>2. \A u \in Named(Empty) : u = Nobody
    BY DEF Named, Empty, NoSheet
  <2>3. \A l \in Empty.leaves : FALSE
    BY DEF Empty
  <2>4. QED
    BY <2>1, <2>2, <2>3 DEF Refers
<1>2. QED
  BY <1>1, InheritedAssumption DEF SeedInit

-----------------------------------------------------------------------------
(* Seed: applications and balances *)

\* The days that one row costs.
Days(l) == {p \in {l} \X (1..2) : p[2] <= Length(l.from)}
Costs(l, u) == l.who = u /\ l.status = "APPROVED" /\ IsPaid(l.type)

LEMMA LengthIs == ASSUME NEW l \in LeaveRow PROVE Length(l.from) \in {1, 2}
BY DEF Length

\* A row that costs adds as many days as it is long.
LEMMA DaysAdd ==
  ASSUME NEW l \in LeaveRow, NEW B, IsFiniteSet(B), \A p \in B : p[1] # l
  PROVE  /\ IsFiniteSet(B \cup Days(l))
         /\ Cardinality(B) \in Int
         /\ Cardinality(B \cup Days(l)) = Cardinality(B) + Length(l.from)
<1>1. <<l, 1>> \notin B /\ <<l, 2>> \notin B \cup {<<l, 1>>}
  OBVIOUS
<1>2. /\ Cardinality(B) \in Nat /\ IsFiniteSet(B \cup {<<l, 1>>})
      /\ Cardinality(B \cup {<<l, 1>>}) = Cardinality(B) + 1
  BY <1>1, FS_AddElement, FS_CardinalityType
<1>3. /\ IsFiniteSet((B \cup {<<l, 1>>}) \cup {<<l, 2>>})
      /\ Cardinality((B \cup {<<l, 1>>}) \cup {<<l, 2>>}) = Cardinality(B) + 2
  <2>1. /\ IsFiniteSet((B \cup {<<l, 1>>}) \cup {<<l, 2>>})
        /\ Cardinality((B \cup {<<l, 1>>}) \cup {<<l, 2>>}) = Cardinality(B \cup {<<l, 1>>}) + 1
    BY <1>1, <1>2, FS_AddElement
  <2>2. QED
    BY <1>2, <2>1
<1>4. CASE Length(l.from) = 1
  <2>1. Days(l) = {<<l, 1>>}
    BY <1>4 DEF Days
  <2>2. QED
    BY <1>2, <1>4, <2>1
<1>5. CASE Length(l.from) = 2
  <2>1. Days(l) = {<<l, 1>>} \cup {<<l, 2>>}
    BY <1>5 DEF Days
  <2>2. B \cup Days(l) = (B \cup {<<l, 1>>}) \cup {<<l, 2>>}
    BY <2>1
  <2>3. QED
    BY <1>2, <1>3, <1>5, <2>2
<1>6. QED
  BY <1>4, <1>5, LengthIs

\* The days of some rows.
Cost(leaves, u) == {p \in leaves \X (1..2) : /\ p[1].who = u /\ p[1].status = "APPROVED"
                                             /\ IsPaid(p[1].type) /\ p[2] <= Length(p[1].from)}

LEMMA ChargedIsCost == \A d, u : Charged(d, u) = Cost(d.leaves, u)
BY DEF Charged, Cost

LEMMA CostFinite ==
  ASSUME NEW leaves, IsFiniteSet(leaves), NEW u
  PROVE  IsFiniteSet(Cost(leaves, u))
<1>1. IsFiniteSet(1..2)
  <2>1. \A a, b \in Int : IsFiniteSet(a..b)
    BY FS_Interval
  <2>2. 1 \in Int /\ 2 \in Int
    OBVIOUS
  <2>3. QED
    BY <2>1, <2>2, Zenon
<1>2. IsFiniteSet(leaves \X (1..2))
  BY <1>1, FS_Product
<1>3. Cost(leaves, u) \subseteq leaves \X (1..2)
  BY DEF Cost
<1>4. QED
  BY <1>2, <1>3, FS_Subset

\* One row more adds its days, where it costs the person any.
LEMMA CostAdds ==
  ASSUME NEW leaves, IsFiniteSet(leaves), NEW l \in LeaveRow, l \notin leaves, NEW u
  PROVE  /\ IsFiniteSet(leaves \cup {l}) /\ Cardinality(Cost(leaves, u)) \in Int
         /\ Cardinality(Cost(leaves \cup {l}, u))
              = Cardinality(Cost(leaves, u)) + IF Costs(l, u) THEN Length(l.from) ELSE 0
<1>1. IsFiniteSet(leaves \cup {l})
  BY FS_AddElement
<1>2. IsFiniteSet(Cost(leaves, u)) /\ Cardinality(Cost(leaves, u)) \in Int
  BY CostFinite, FS_CardinalityType
<1>3. \A p \in Cost(leaves, u) : p[1] # l
  BY DEF Cost
<1>4. CASE Costs(l, u)
  <2>1. Cost(leaves \cup {l}, u) = Cost(leaves, u) \cup Days(l)
    <3>1. ASSUME NEW p PROVE p \in Cost(leaves \cup {l}, u) <=> p \in Cost(leaves, u) \cup Days(l)
      <4>1. CASE p \in leaves \X (1..2)
        BY <4>1 DEF Cost, Days
      <4>2. CASE p \in {l} \X (1..2)
        BY <1>4, <4>2 DEF Cost, Days, Costs
      <4>3. CASE p \notin leaves \X (1..2) /\ p \notin {l} \X (1..2)
        BY <4>3 DEF Cost, Days
      <4>4. QED
        BY <4>1, <4>2, <4>3
    <3>2. QED
      BY <3>1
  <2>2. QED
    BY <1>1, <1>2, <1>3, <1>4, <2>1, DaysAdd
<1>5. CASE ~Costs(l, u)
  <2>1. Cost(leaves \cup {l}, u) = Cost(leaves, u)
    <3>1. ASSUME NEW p PROVE p \in Cost(leaves \cup {l}, u) <=> p \in Cost(leaves, u)
      BY <1>5 DEF Cost, Costs
    <3>2. QED
      BY <3>1
  <2>2. QED
    BY <1>1, <1>2, <1>5, <2>1
<1>6. QED
  BY <1>4, <1>5

\* Where the rows stay and the balances too, the books stay in order.
LEMMA BooksStay ==
  ASSUME NEW d, NEW e, Balanced(d), e.leaves = d.leaves,
         \A u \in Users : Exists(e, u) => Exists(d, u) /\ e.users[u].remain = d.users[u].remain
  PROVE  Balanced(e)
<1>1. \A u : Charged(e, u) = Charged(d, u)
  BY ChargedIsCost
<1>2. QED
  BY <1>1 DEF Balanced

LEMMA DecisionBooks ==
  ASSUME SeedTypeOK, Refers(db), Balanced(db), OneEach(db.leaves),
         NEW l \in db.leaves, NEW say \in {"APPROVED", "REJECTED"}, Decide(l, say)
  PROVE  Balanced(db')
<1> DEFINE m == Verdict(l, say)
           rest == db.leaves \ {l}
<1>1. /\ m.who = l.who /\ m.no = l.no /\ m.type = l.type /\ m.from = l.from /\ m.status = say
      /\ m \in LeaveRow /\ l \in LeaveRow /\ l.status # say
      /\ db'.leaves = (db.leaves \ {l}) \cup {m}
  BY DecisionTables
<1>2. \A u \in Users : db'.users[u].remain = IF u = l.who THEN db.users[u].remain - Charge(l, say)
                                             ELSE db.users[u].remain
  BY DecisionTables
<1>3. \A u \in Users : Exists(db', u) => Exists(db, u)
  <2>1. db \in Database /\ db' \in Database
    BY DecisionTables DEF SeedTypeOK
  <2>2. ASSUME NEW u \in Users, ~Exists(db, u) PROVE ~Exists(db', u)
    <3>1. u # l.who
      BY <2>1, <2>2, NamedExist
    <3>2. db.users[u] \in Person /\ db'.users[u] \in Person
      BY <2>1, Tables
    <3>3. db'.users[u].role = db.users[u].role /\ db'.users[u].dept = db.users[u].dept
      BY DecisionTables
    <3>4. db'.users[u] = db.users[u]
      BY <1>2, <3>1, <3>2, <3>3 DEF Person
    <3>5. QED
      BY <2>2, <3>4 DEF Exists
  <2>3. QED
    BY <2>2
<1> HIDE DEF m
<1>4. IsFiniteSet(rest) /\ l \notin rest /\ m \notin rest
  <2>1. IsFiniteSet(rest)
    BY FS_RemoveElement DEF Balanced
  <2>2. m \notin rest
    BY <1>1 DEF OneEach
  <2>3. QED
    BY <2>1, <2>2
<1>5. db.leaves = rest \cup {l} /\ db'.leaves = rest \cup {m}
  BY <1>1
<1> HIDE DEF rest
<1>6. IsFiniteSet(db'.leaves)
  BY <1>1, <1>4, <1>5, CostAdds
<1>7. ASSUME NEW u \in Users, Exists(db', u)
      PROVE  db'.users[u].remain + Cardinality(Charged(db', u)) = AnnualDays
  <2>1. db.users[u].remain + Cardinality(Charged(db, u)) = AnnualDays
    BY <1>3, <1>7 DEF Balanced
  <2>2. /\ Cardinality(Cost(rest, u)) \in Int
        /\ Cardinality(Charged(db, u)) = Cardinality(Cost(rest, u)) + IF Costs(l, u) THEN Length(l.from) ELSE 0
        /\ Cardinality(Charged(db', u)) = Cardinality(Cost(rest, u)) + IF Costs(m, u) THEN Length(m.from) ELSE 0
    <3>1. /\ Cardinality(Cost(rest, u)) \in Int
          /\ Cardinality(Cost(rest \cup {l}, u)) = Cardinality(Cost(rest, u)) + IF Costs(l, u) THEN Length(l.from) ELSE 0
      BY <1>1, <1>4, CostAdds
    <3>2. Cardinality(Cost(rest \cup {m}, u)) = Cardinality(Cost(rest, u)) + IF Costs(m, u) THEN Length(m.from) ELSE 0
      BY <1>1, <1>4, CostAdds
    <3>3. Charged(db, u) = Cost(rest \cup {l}, u) /\ Charged(db', u) = Cost(rest \cup {m}, u)
      BY <1>5, ChargedIsCost
    <3>4. QED
      BY <3>1, <3>2, <3>3
  <2>3. db.users[u].remain \in Int /\ Length(l.from) \in Int
    <3>1. db.users[u] \in Person
      BY Tables DEF SeedTypeOK
    <3>2. QED
      BY <1>1, <3>1, LengthIs DEF Person
  <2>4. CASE u # l.who
    BY <1>1, <1>2, <2>1, <2>2, <2>3, <2>4 DEF Costs
  <2>5. CASE u = l.who /\ ~IsPaid(l.type)
    BY <1>1, <1>2, <2>1, <2>2, <2>3, <2>5 DEF Costs, Charge
  <2>6. CASE u = l.who /\ IsPaid(l.type) /\ say = "APPROVED"
    BY <1>1, <1>2, <2>1, <2>2, <2>3, <2>6 DEF Costs, Charge
  <2>7. CASE u = l.who /\ IsPaid(l.type) /\ say = "REJECTED"
    BY <1>1, <1>2, <2>1, <2>2, <2>3, <2>7 DEF Costs, Charge
  <2>8. QED
    BY <2>4, <2>5, <2>6, <2>7
<1>8. QED
  BY <1>6, <1>7 DEF Balanced

LEMMA ApplyBooks ==
  ASSUME SeedTypeOK, Refers(db), Balanced(db), NEW r \in Requests, Apply(r[1], r[2], r[3])
  PROVE  Balanced(db')
<1>1. PICK l \in LeaveRow :
           /\ SeedTypeOK' /\ reseeded' = reseeded /\ server = "up" /\ server' = server
           /\ l.who = r[1] /\ l.who \in Users /\ Exists(db, l.who)
           /\ l.type \in db.types /\ l.status = "PENDING" /\ l.reviewer = Nobody
           /\ l.no \in Numbers /\ l.no \notin Nos(db.leaves)
           /\ heard' = [heard EXCEPT ![l.no] = "PENDING"]
           /\ db'.leaves = db.leaves \cup {l}
           /\ db'.notes = Told(db.notes, l.who, ManagerOf(db, l.who), "request")
           /\ db'.users = db.users /\ db'.roles = db.roles /\ db'.departments = db.departments
           /\ db'.types = db.types /\ db'.seat = db.seat /\ db'.sheets = db.sheets
           /\ db'.payrolls = db.payrolls
           /\ db'.warnings = db.warnings /\ db'.corrections = db.corrections
  BY ApplyTables
<1>2. l \notin db.leaves
  BY <1>1 DEF Nos
<1>3. IsFiniteSet(db.leaves) /\ \A u : ~Costs(l, u)
  BY <1>1 DEF Balanced, Costs
<1>4. /\ IsFiniteSet(db'.leaves)
      /\ \A u : Cardinality(Charged(db', u)) = Cardinality(Charged(db, u))
  <2>1. ASSUME NEW u
        PROVE  IsFiniteSet(db'.leaves) /\ Cardinality(Charged(db', u)) = Cardinality(Charged(db, u))
    <3>1. /\ IsFiniteSet(db.leaves \cup {l}) /\ Cardinality(Cost(db.leaves, u)) \in Int
          /\ Cardinality(Cost(db.leaves \cup {l}, u))
               = Cardinality(Cost(db.leaves, u)) + IF Costs(l, u) THEN Length(l.from) ELSE 0
      BY <1>2, <1>3, CostAdds
    <3>2. QED
      <4>1. Charged(db', u) = Cost(db.leaves \cup {l}, u) /\ Charged(db, u) = Cost(db.leaves, u)
        BY <1>1, ChargedIsCost
      <4>2. Cardinality(Cost(db.leaves \cup {l}, u)) = Cardinality(Cost(db.leaves, u))
        BY <1>3, <3>1
      <4>3. QED
        BY <1>1, <3>1, <4>1, <4>2
  <2>2. QED
    BY <2>1
<1>5. QED
  BY <1>1, <1>4 DEF Balanced, Exists

LEMMA HireBooks ==
  ASSUME SeedTypeOK, Refers(db), Balanced(db), Hire
  PROVE  Balanced(db')
<1>1. db \in Database /\ ~Exists(db, Guest) /\ Guest \in Users
  BY DEF SeedTypeOK, Hire, Users
<1>2. \A l \in db.leaves : l.who # Guest
  BY <1>1, NamedExist
<1>3. db'.leaves = db.leaves /\ db'.users = [db.users EXCEPT ![Guest] = Newcomer]
  BY HireTables
<1>4. \A u : Charged(db', u) = Charged(db, u)
  BY <1>3, ChargedIsCost
<1>5. ASSUME NEW u \in Users, Exists(db', u)
      PROVE  db'.users[u].remain + Cardinality(Charged(db', u)) = AnnualDays
  <2>1. CASE u = Guest
    <3>1. Charged(db, u) = {}
      BY <1>2, <2>1 DEF Charged
    <3>2. Cardinality(Charged(db', u)) = 0
      BY <1>4, <3>1, FS_EmptySet
    <3>3. db'.users[u] = Newcomer
      BY <1>1, <1>3, <2>1, Tables
    <3>4. QED
      BY <3>2, <3>3 DEF Newcomer, AnnualDays
  <2>2. CASE u # Guest
    <3>1. db'.users[u] = db.users[u]
      BY <1>1, <1>3, <2>2, Tables
    <3>2. QED
      BY <1>4, <1>5, <3>1 DEF Balanced, Exists
  <2>3. QED
    BY <2>1, <2>2
<1>6. QED
  BY <1>3, <1>5 DEF Balanced

\* The first seed leaves the books in order, and no leave with two rows.
LEMMA FirstBooks ==
  ASSUME NEW d \in Database, Refers(d), IsEmpty(d), NEW e \in Seedings(d)
  PROVE  Balanced(e) /\ ~Doubled(e) /\ d.leaves = {}
<1>1. /\ e \in Database /\ e.types = MergedTypes(d.types)
      /\ e.users = [u \in Users |-> IF u = LegacyAdmin /\ d.oldName /\ ~Referred(e, u) THEN NoOne
                                    ELSE Settled(d, u)]
      /\ e.leaves \in Written(d)
  BY SeededTables
<1>2. \A u \in Users : d.users[u] = NoOne /\ ~Exists(d, u)
  BY DEF IsEmpty, Empty, Exists
<1>3. d.leaves = {}
  BY <1>2, NamedExist
<1>4. Kept(d) = {} /\ e.types \in SUBSET TypeRow
  BY <1>1, <1>3, KeptRows DEF Kept
<1> DEFINE a(n) == LeaveOf(AnnualLeave(e.types), n)
           s(n) == LeaveOf(SickLeave(e.types), n)
           w(n) == LeaveOf(UnpaidLeave(e.types), n)
<1>5. PICK i, j, k \in Numbers :
        /\ i # j /\ i # k /\ j # k
        /\ e.leaves = {a(i), s(j), w(k)}
  <2>1. e.leaves \in LeavesSeeded(e.types, {}) /\ {} \in SUBSET LeaveRow
    BY <1>1, <1>4 DEF Written
  <2>2. QED
    BY <1>4, <2>1, SeededLeaves
<1>6. /\ a(i) \in LeaveRow /\ s(j) \in LeaveRow /\ w(k) \in LeaveRow
      /\ a(i).from = 12 /\ s(j).from = 5 /\ w(k).from = 20
      /\ a(i).status = "PENDING" /\ s(j).status = "APPROVED" /\ w(k).status = "REJECTED"
      /\ s(j).who = "employee2" /\ s(j).type = Canonical(e.types, "sick")
  <2>1. a(i) \in LeaveRow /\ s(j) \in LeaveRow /\ w(k) \in LeaveRow
    BY <1>4, SeededRows DEF SeedsLeaves
  <2>2. QED
    BY <2>1 DEF LeaveOf, AnnualLeave, SickLeave, UnpaidLeave
<1> HIDE DEF a, s, w
<1>7. ~Doubled(e)
  BY <1>5, <1>6 DEF Doubled, SameLeave
<1>8. IsPaid(s(j).type)
  <2>1. s(j).type.name = Today("sick")
    BY <1>4, <1>6, CanonicalRow DEF LeaveTypes
  <2>2. QED
    BY <2>1 DEF IsPaid, Names, Paid, LeaveTypes
<1>9. ASSUME NEW u \in Users
      PROVE  /\ IsFiniteSet(e.leaves)
             /\ Cardinality(Charged(e, u)) = IF u = "employee2" THEN 1 ELSE 0
  <2> DEFINE none == {}
             one == none \cup {a(i)}
             two == one \cup {s(j)}
             cost(l) == IF Costs(l, u) THEN Length(l.from) ELSE 0
  <2>1. IsFiniteSet(none) /\ Cardinality(Cost(none, u)) = 0 /\ a(i) \notin none
    <3>1. Cost({}, u) = {}
      BY DEF Cost
    <3>2. QED
      BY <3>1, FS_EmptySet
  <2>2. s(j) \notin one /\ w(k) \notin two /\ two \cup {w(k)} = e.leaves
    BY <1>5, <1>6
  <2>3. /\ cost(a(i)) = 0 /\ cost(w(k)) = 0
        /\ cost(s(j)) = IF u = "employee2" THEN 1 ELSE 0
    BY <1>6, <1>8 DEF Costs, Length
  <2> HIDE DEF none
  <2>4. IsFiniteSet(one) /\ Cardinality(Cost(one, u)) = Cardinality(Cost(none, u)) + cost(a(i))
    BY <1>6, <2>1, CostAdds
  <2> HIDE DEF one
  <2>5. IsFiniteSet(two) /\ Cardinality(Cost(two, u)) = Cardinality(Cost(one, u)) + cost(s(j))
    BY <1>6, <2>2, <2>4, CostAdds
  <2> HIDE DEF two
  <2>6. IsFiniteSet(two \cup {w(k)}) /\ Cardinality(Cost(two \cup {w(k)}, u)) = Cardinality(Cost(two, u)) + cost(w(k))
    BY <1>6, <2>2, <2>5, CostAdds
  <2> HIDE DEF cost
  <2>7. Cardinality(Cost(two \cup {w(k)}, u)) = IF u = "employee2" THEN 1 ELSE 0
    BY <2>1, <2>3, <2>4, <2>5, <2>6
  <2>8. Charged(e, u) = Cost(two \cup {w(k)}, u)
    BY <2>2, ChargedIsCost
  <2>9. QED
    BY <2>2, <2>6, <2>7, <2>8
<1>10. ASSUME NEW u \in Users, Exists(e, u)
       PROVE  e.users[u].remain = IF u = "employee2" THEN AnnualDays - 1 ELSE AnnualDays
  <2>1. u \in Demo
    <3>1. Rehire(Placed(NoOne)) = NoOne
      <4>1. NoOne \in Person
        BY DEF NoOne, Person
      <4>2. QED
        BY <4>1, SettledPerson
    <3>2. QED
      BY <1>1, <1>2, <1>10, <3>1 DEF Settled, Exists
  <2>2. e.users[u] = Fresh(u)
    BY <1>1, <1>10, <2>1 DEF Settled, Exists
  <2>3. QED
    BY <2>2 DEF Fresh
<1>11. Balanced(e)
  <2>1. IsFiniteSet(e.leaves)
    <3>1. "employee1" \in Users
      BY DEF Users, Demo
    <3>2. QED
      BY <1>9, <3>1
  <2>2. \A u \in Users : Exists(e, u) => e.users[u].remain + Cardinality(Charged(e, u)) = AnnualDays
    BY <1>9, <1>10 DEF AnnualDays
  <2>3. QED
    BY <2>1, <2>2 DEF Balanced
<1>12. QED
  BY <1>3, <1>7, <1>11

-----------------------------------------------------------------------------
(* Seed: what people heard stays true *)

\* What each heard of an application is there, and is what its row says.
HeardKept == \A n \in Numbers : heard[n] # "nothing" => \E l \in db.leaves : l.no = n
HeardTrue == \A n \in Numbers : heard[n] # "nothing" =>
                \E l \in db.leaves : l.no = n /\ l.status = heard[n]

\* A server about to seed has nothing, or what the command just seeded.
FirstSeed == server = "empty" /\ ~reseeded => IsEmpty(db) \/ Seedings(db) = {db}

SeedInv ==
  /\ SeedTypeOK /\ Refers(db) /\ OneEach(db.leaves)
  /\ HeardKept /\ FirstSeed
  /\ ~reseeded => HeardTrue /\ Balanced(db)

LEMMA SeedInvInit == SeedInit => SeedInv
<1> SUFFICES ASSUME SeedInit PROVE SeedInv
  OBVIOUS
<1>1. SeedTypeOK /\ Refers(db)
  BY SeedInitTyped, RefersInit
<1>2. Balanced(Empty) /\ Empty.leaves = {}
  <2>1. \A u \in Users : ~Exists(Empty, u)
    BY DEF Exists, Empty
  <2>2. IsFiniteSet({})
    BY FS_EmptySet
  <2>3. Empty.leaves = {}
    BY DEF Empty
  <2>4. QED
    BY <2>1, <2>2, <2>3 DEF Balanced
<1>3. Balanced(db) /\ OneEach(db.leaves)
  BY <1>2, InheritedAssumption DEF SeedInit, Numbered, OneEach
<1>4. HeardKept /\ HeardTrue /\ FirstSeed
  BY DEF SeedInit, HeardKept, HeardTrue, FirstSeed
<1>5. QED
  BY <1>1, <1>3, <1>4 DEF SeedInv

\* The steps that touch neither an application nor what is heard of one.
LEMMA QuietStep ==
  ASSUME SeedInv,
         \/ Start \/ Crash \/ Hire
         \/ \E code \in {"annual", "other"} : NewType(code)
         \/ \E role \in RoleNames : RenameRole(role, OtherRole)
         \/ \E role \in db.roles : RemoveRole(role)
         \/ UNCHANGED seedVars
  PROVE  /\ db'.leaves = db.leaves /\ heard' = heard /\ reseeded' = reseeded
         /\ Balanced(db) => Balanced(db')
<1> USE DEF SeedInv
<1>1. CASE Start
  <2>1. /\ db'.leaves = db.leaves /\ heard' = heard /\ reseeded' = reseeded /\ db'.users = db.users
    BY <1>1, StartTables
  <2>2. QED
    BY <2>1, BooksStay DEF Exists
<1>2. CASE Crash \/ UNCHANGED seedVars
  BY <1>2 DEF Crash, seedVars
<1>3. CASE Hire
  <2>1. /\ db'.leaves = db.leaves /\ heard' = heard /\ reseeded' = reseeded
    BY <1>3, HireTables
  <2>2. QED
    BY <1>3, <2>1, HireBooks
<1>4. ASSUME NEW code \in {"annual", "other"}, NewType(code)
      PROVE  /\ db'.leaves = db.leaves /\ heard' = heard /\ reseeded' = reseeded
             /\ Balanced(db) => Balanced(db')
  <2>1. /\ db'.leaves = db.leaves /\ heard' = heard /\ reseeded' = reseeded /\ db'.users = db.users
    BY <1>4, NewTypeTables
  <2>2. QED
    BY <2>1, BooksStay DEF Exists
<1>5. ASSUME NEW role \in RoleNames, RenameRole(role, OtherRole)
      PROVE  /\ db'.leaves = db.leaves /\ heard' = heard /\ reseeded' = reseeded
             /\ Balanced(db) => Balanced(db')
  <2>1. /\ db'.leaves = db.leaves /\ heard' = heard /\ reseeded' = reseeded
    BY <1>5, RenameTables
  <2>2. \A u \in Users : (Exists(db', u) <=> Exists(db, u)) /\ db'.users[u].remain = db.users[u].remain
    BY <1>5, RenameTables
  <2>3. QED
    BY <2>1, <2>2, BooksStay
<1>6. ASSUME NEW role \in db.roles, RemoveRole(role)
      PROVE  /\ db'.leaves = db.leaves /\ heard' = heard /\ reseeded' = reseeded
             /\ Balanced(db) => Balanced(db')
  <2>1. /\ db'.leaves = db.leaves /\ heard' = heard /\ reseeded' = reseeded /\ db'.users = db.users
    BY <1>6, RemoveTables
  <2>2. QED
    BY <2>1, BooksStay DEF Exists
<1>7. QED
  BY <1>1, <1>2, <1>3, <1>4, <1>5, <1>6

\* The seed keeps every application, pending or decided.
LEMMA SeededKeeps ==
  ASSUME NEW d \in Database, NEW e \in Seedings(d)
  PROVE  /\ OneEach(d.leaves) => OneEach(e.leaves)
         /\ Nos(d.leaves) \subseteq Nos(e.leaves)
<1>1. /\ e.leaves \in Written(d) /\ Kept(d) \in SUBSET LeaveRow /\ MergedTypes(d.types) \in SUBSET TypeRow
  BY SeededTables, KeptRows
<1>2. e.leaves \in LeavesSeeded(MergedTypes(d.types), Kept(d))
  BY <1>1 DEF Written
<1>3. /\ Nos(Kept(d)) \subseteq Nos(e.leaves)
      /\ OneEach(Kept(d)) => OneEach(e.leaves)
  BY <1>1, <1>2, SeededLeaves
<1>4. \A l \in d.leaves : [l EXCEPT !.type = Retyped(d.types, l.type)].no = l.no
  <2>1. ASSUME NEW l \in d.leaves PROVE [l EXCEPT !.type = Retyped(d.types, l.type)].no = l.no
    <3>1. l \in LeaveRow /\ l.type \in TypeRow
      BY Tables DEF LeaveRow
    <3>2. Retyped(d.types, l.type) \in TypeRow
      BY <3>1, Tables, RetypedRow
    <3>3. QED
      BY <3>1, <3>2, RetypedLeave
  <2>2. QED
    BY <2>1
<1>5. Nos(Kept(d)) = Nos(d.leaves)
  BY <1>4 DEF Kept, Nos
<1>6. OneEach(d.leaves) => OneEach(Kept(d))
  BY <1>4 DEF Kept, OneEach
<1>7. QED
  BY <1>3, <1>5, <1>6

LEMMA SeedInvStep ==
  ASSUME SeedInv, [SeedNext]_seedVars
  PROVE  SeedInv'
<1> DEFINE quiet == \/ Start \/ Crash \/ Hire
                    \/ \E code \in {"annual", "other"} : NewType(code)
                    \/ \E role \in RoleNames : RenameRole(role, OtherRole)
                    \/ \E role \in db.roles : RemoveRole(role)
                    \/ UNCHANGED seedVars
<1>1. SeedTypeOK /\ Refers(db) /\ SeedTypeOK' /\ Refers(db')
  <2>1. SeedTypeOK' /\ Refers(db)'
    BY SeedStepTyped, RefersStep DEF SeedInv
  <2>2. QED
    BY <2>1 DEF SeedInv
<1>2. db \in Database /\ db' \in Database
  BY <1>1 DEF SeedTypeOK
<1>3. FirstSeed'
  <2>1. CASE Command
    <3>1. /\ db' \in Seedings(db) /\ reseeded' = (reseeded \/ ~IsEmpty(db))
      BY <2>1 DEF Command
    <3>2. ASSUME ~reseeded' PROVE Seedings(db') = {db'}
      <4>1. IsEmpty(db)
        BY <3>1, <3>2, Zenon
      <4>2. ~Doubled(db')
        BY <1>1, <1>2, <3>1, <4>1, FirstBooks
      <4>3. QED
        BY <1>2, <3>1, <4>2, SeededTwice
    <3>3. QED
      BY <3>2 DEF FirstSeed
  <2>2. CASE Start
    <3>1. IsEmpty(db) => IsEmpty(db')
      <4>1. db'.roles = db.roles /\ db'.departments = db.departments /\ db'.users = db.users
        BY <1>1, <2>2, StartTables
      <4>2. QED
        BY <4>1 DEF IsEmpty
    <3>2. QED
      BY <2>2, <3>1 DEF Start, FirstSeed
  <2>3. CASE UNCHANGED seedVars
    <3>1. db' = db /\ server' = server /\ reseeded' = reseeded
      BY <2>3 DEF seedVars
    <3>2. QED
      BY <3>1 DEF SeedInv, FirstSeed
  <2>4. CASE server' # "empty"
    BY <2>4 DEF FirstSeed
  <2>5. QED
    BY <2>1, <2>2, <2>3, <2>4
       DEF SeedNext, SeedAtStart, Crash, Hire, NewType, RenameRole, RemoveRole, Apply, Decide
<1>4. CASE quiet
  <2>1. /\ db'.leaves = db.leaves /\ heard' = heard /\ reseeded' = reseeded
        /\ Balanced(db) => Balanced(db')
    BY <1>4, QuietStep
  <2>2. HeardKept' /\ OneEach(db'.leaves) /\ (HeardTrue => HeardTrue')
    BY <2>1 DEF SeedInv, HeardKept, HeardTrue
  <2>3. QED
    BY <1>1, <1>3, <2>1, <2>2 DEF SeedInv
<1>5. CASE SeedAtStart \/ Command
  <2>1. db' \in Seedings(db) /\ heard' = heard
    BY <1>5 DEF SeedAtStart, Command
  <2>2. OneEach(db'.leaves) /\ Nos(db.leaves) \subseteq Nos(db'.leaves)
    BY <1>2, <2>1, SeededKeeps DEF SeedInv
  <2>3. HeardKept'
    BY <2>1, <2>2 DEF SeedInv, HeardKept, Nos
  <2>4. ASSUME ~reseeded' PROVE HeardTrue' /\ Balanced(db')
    <3>1. ~reseeded /\ (IsEmpty(db) \/ Seedings(db) = {db})
      <4>1. CASE SeedAtStart
        BY <2>4, <4>1 DEF SeedAtStart, SeedInv, FirstSeed
      <4>2. CASE Command
        <5>1. reseeded' = (reseeded \/ ~IsEmpty(db))
          BY <4>2 DEF Command
        <5>2. QED
          BY <2>4, <5>1, Zenon
      <4>3. QED
        BY <1>5, <4>1, <4>2
    <3>2. CASE IsEmpty(db)
      <4>1. db.leaves = {} /\ Balanced(db')
        BY <1>1, <1>2, <2>1, <3>2, FirstBooks
      <4>2. \A n \in Numbers : heard[n] = "nothing"
        BY <4>1 DEF SeedInv, HeardKept
      <4>3. QED
        BY <2>1, <4>1, <4>2 DEF HeardTrue
    <3>3. CASE Seedings(db) = {db}
      <4>1. db' = db
        BY <2>1, <3>3
      <4>2. QED
        BY <2>1, <3>1, <4>1 DEF SeedInv, HeardTrue
    <3>4. QED
      BY <3>1, <3>2, <3>3
  <2>5. QED
    BY <1>1, <1>3, <2>2, <2>3, <2>4 DEF SeedInv
<1>6. ASSUME NEW r \in Requests, Apply(r[1], r[2], r[3]) PROVE SeedInv'
  <2>1. PICK l \in LeaveRow :
           /\ SeedTypeOK' /\ reseeded' = reseeded /\ server = "up" /\ server' = server
           /\ l.who = r[1] /\ l.who \in Users /\ Exists(db, l.who)
           /\ l.type \in db.types /\ l.status = "PENDING" /\ l.reviewer = Nobody
           /\ l.no \in Numbers /\ l.no \notin Nos(db.leaves)
           /\ heard' = [heard EXCEPT ![l.no] = "PENDING"]
           /\ db'.leaves = db.leaves \cup {l}
           /\ db'.notes = Told(db.notes, l.who, ManagerOf(db, l.who), "request")
           /\ db'.users = db.users /\ db'.roles = db.roles /\ db'.departments = db.departments
           /\ db'.types = db.types /\ db'.seat = db.seat /\ db'.sheets = db.sheets
           /\ db'.payrolls = db.payrolls
           /\ db'.warnings = db.warnings /\ db'.corrections = db.corrections
    BY <1>1, <1>6, ApplyTables
  <2>2. OneEach(db'.leaves)
    BY <2>1 DEF SeedInv, OneEach, Nos
  <2>3. \A n \in Numbers : heard'[n] = IF n = l.no THEN "PENDING" ELSE heard[n]
    BY <1>1, <2>1 DEF SeedTypeOK
  <2>4. HeardKept' /\ (HeardTrue => HeardTrue')
    BY <2>1, <2>3 DEF SeedInv, HeardKept, HeardTrue
  <2>5. Balanced(db) => Balanced(db')
    BY <1>1, <1>6, ApplyBooks
  <2>6. QED
    BY <1>1, <1>3, <2>1, <2>2, <2>4, <2>5 DEF SeedInv
<1>7. ASSUME NEW l \in db.leaves, NEW say \in {"APPROVED", "REJECTED"}, Decide(l, say) PROVE SeedInv'
  <2> DEFINE m == Verdict(l, say)
  <2>1. /\ m.no = l.no /\ m.status = say /\ l.no \in Numbers
        /\ db'.leaves = (db.leaves \ {l}) \cup {m}
        /\ heard' = [heard EXCEPT ![l.no] = say] /\ reseeded' = reseeded
    <3>1. /\ m.no = l.no /\ m.status = say /\ l \in LeaveRow
          /\ db'.leaves = (db.leaves \ {l}) \cup {m}
          /\ heard' = [heard EXCEPT ![l.no] = say] /\ reseeded' = reseeded
      BY <1>1, <1>7, DecisionTables
    <3>2. QED
      BY <3>1 DEF LeaveRow
  <2> HIDE DEF m
  <2>2. \A j, k \in db.leaves : j.no = k.no => j = k
    BY DEF SeedInv, OneEach
  <2>3. OneEach(db'.leaves)
    BY <2>1, <2>2 DEF OneEach
  <2>4. \A n \in Numbers : heard'[n] = IF n = l.no THEN say ELSE heard[n]
    BY <1>1, <2>1 DEF SeedTypeOK
  <2>5. HeardKept'
    BY <2>1, <2>4 DEF SeedInv, HeardKept
  <2>6. HeardTrue => HeardTrue'
    BY <2>1, <2>4 DEF HeardTrue
  <2>7. Balanced(db) => Balanced(db')
    BY <1>1, <1>7, DecisionBooks DEF SeedInv
  <2>8. QED
    BY <1>1, <1>3, <2>1, <2>3, <2>5, <2>6, <2>7 DEF SeedInv
<1>8. QED
  BY <1>4, <1>5, <1>6, <1>7 DEF SeedNext

LEMMA SeedInvHolds == SeedSpec => []SeedInv
<1>1. SeedInv /\ [SeedNext]_seedVars => SeedInv'
  BY SeedInvStep
<1>2. QED
  BY SeedInvInit, <1>1, PTL DEF SeedSpec

\* Whatever the database holds, a second run of the transaction in the month
\* changes nothing where no seeded leave has two rows; where one has, it makes
\* no row, moves none, and changes no one but the old administrator.
THEOREM SeedingIsOnce == SeedSpec => []SeedsOnce
<1>1. SeedInv => SeedsOnce
  BY SeededTwice, SeededAgain DEF SeedInv, SeedTypeOK, SeedsOnce
<1>2. QED
  BY SeedInvHolds, <1>1, PTL

\* Every merge and clean-up leaves each row with the rows it refers to, and
\* keeps each application that someone made or that was decided.
THEOREM SeedKeepsReferences == SeedSpec => []ReferencesHold
<1>1. SeedInv => ReferencesHold
  BY DEF SeedInv, HeardKept, ReferencesHold
<1>2. QED
  BY SeedInvHolds, <1>1, PTL

\* A start, a crash or a first seed takes back nothing that was said of an
\* application, and no charged day.
THEOREM SeedKeepsDecisions == SeedSpec => []DecisionsSurvive
<1>1. SeedInv => DecisionsSurvive
  BY DEF SeedInv, HeardTrue, DecisionsSurvive
<1>2. QED
  BY SeedInvHolds, <1>1, PTL
=============================================================================

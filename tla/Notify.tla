------------------------------- MODULE Notify -------------------------------
(***************************************************************************)
(* Notifications of one user: backend/src/notification, the socket of      *)
(* backend/src/realtime and the bell of the page,                          *)
(* components/NotificationDropdown.tsx, in every open tab.                 *)
(*                                                                         *)
(* A note is inserted by a handler.  Most handlers insert it in their own  *)
(* transaction: the clients are then told before it commits, and an e-mail *)
(* may be sent in between.  Some insert it in a transaction of its own and *)
(* tell afterwards.  To be told is only a reason to load the inbox again.  *)
(* A load is two requests, one for the notes and one for the number of     *)
(* those not read, answered at different times; loads may overlap and land *)
(* in any order.  Clicking a note shows it as read before the server knows.*)
(***************************************************************************)
EXTENDS Naturals, FiniteSets

CONSTANTS
    Notes,     \* notifications the user may be sent
    Joined,    \* those that are inserted in the transaction of their handler
    Tabs,      \* open browser tabs of the user
    Slots,     \* BOUND: loads under way together in a tab
    Nothing,   \* no answer yet
    MaxFaults  \* BOUND: lost requests and restarts of the server in a behaviour

ASSUME NotifyAssumption ==
    /\ IsFiniteSet(Notes)
    /\ Joined \subseteq Notes
    /\ MaxFaults \in Nat

VARIABLES
    row,      \* the row of each note, and whether the clients were told of an open one
    ring,     \* the notes that each tab is being told of
    load,     \* the loads of each tab with the answers that have arrived
    items,    \* what each tab lists
    badge,    \* how many notes each tab says are not read
    mark,     \* the clicks of each tab that are on their way to the server
    faults    \* lost requests and restarts so far

vars == <<row, ring, load, items, badge, mark, faults>>

Rows == {"none", "open", "told", "gone", "unread", "read"}
Listing == [Notes -> {"none", "unread", "read"}]
Load == [at: {"idle", "sent"}, items: Listing \cup {Nothing}, count: Nat \cup {Nothing}]
Unused == [at |-> "idle", items |-> Nothing, count |-> Nothing]
Sent == [Unused EXCEPT !.at = "sent"]

TypeOK ==
    /\ row \in [Notes -> Rows]
    /\ ring \in [Tabs -> SUBSET Notes]
    /\ load \in [Tabs -> [Slots -> Load]]
    /\ items \in [Tabs -> Listing]
    /\ badge \in [Tabs -> Nat]
    /\ mark \in [Tabs -> SUBSET Notes]
    /\ faults \in 0..MaxFaults

\* Every tab has just been opened and is loading.
Init ==
    /\ row = [n \in Notes |-> "none"]
    /\ ring = [t \in Tabs |-> {}]
    /\ load = [t \in Tabs |-> [s \in Slots |-> IF s = CHOOSE first \in Slots : TRUE
                                                 THEN Sent ELSE Unused]]
    /\ items = [t \in Tabs |-> [n \in Notes |-> "none"]]
    /\ badge = [t \in Tabs |-> 0]
    /\ mark = [t \in Tabs |-> {}]
    /\ faults = 0

-----------------------------------------------------------------------------
(* The server *)

\* What a query finds: rows of open transactions are not visible.
ListedDirty == [n \in Notes |-> CASE row[n] \in {"open", "told", "unread"} -> "unread"
                                  [] row[n] = "read" -> "read" [] OTHER -> "none"]
Listed == [n \in Notes |-> IF row[n] \in {"unread", "read"} THEN row[n] ELSE "none"]
UnreadCount == Cardinality({n \in Notes : row[n] = "unread"})

Insert(n) ==
    /\ row[n] = "none"
    /\ row' = [row EXCEPT ![n] = "open"]
    /\ UNCHANGED <<ring, load, items, badge, mark, faults>>

\* The tabs whose socket is in the room of the user: any, since sockets come and
\* go with the network, with restarts and with every new access token.
Rooms == SUBSET Tabs

\* Those tabs hear of a note.
Emit(n) ==
    \E room \in Rooms :
        ring' = [t \in Tabs |-> IF t \in room THEN ring[t] \cup {n} ELSE ring[t]]

\* A joined note is told of before its transaction commits, any other afterwards.
Tell(n) ==
    /\ n \in Joined /\ row[n] = "open"
    /\ row' = [row EXCEPT ![n] = "told"]
    /\ Emit(n)
    /\ UNCHANGED <<load, items, badge, mark, faults>>
Commit(n) ==
    /\ row[n] = IF n \in Joined THEN "told" ELSE "open"
    /\ row' = [row EXCEPT ![n] = "unread"]
    /\ IF n \in Joined THEN UNCHANGED ring ELSE Emit(n)
    /\ UNCHANGED <<load, items, badge, mark, faults>>

\* The handler fails after it has inserted the note.
RollBack(n) ==
    /\ row[n] \in {"open", "told"}
    /\ row' = [row EXCEPT ![n] = "gone"]
    /\ UNCHANGED <<ring, load, items, badge, mark, faults>>

\* Open transactions are undone.  Requests on their way are lost one by one, by
\* Lose and MarkFails.
Restart ==
    /\ faults < MaxFaults
    /\ faults' = faults + 1
    /\ row' = [n \in Notes |-> IF row[n] \in {"open", "told"} THEN "gone" ELSE row[n]]
    /\ UNCHANGED <<ring, load, items, badge, mark>>

-----------------------------------------------------------------------------
(* The tabs *)

\* refreshNotifications: both requests are sent.
Free(t) == {s \in Slots : load[t][s].at = "idle"}
Refreshes(t) ==
    /\ Free(t) # {}
    /\ load' = [load EXCEPT ![t][CHOOSE s \in Free(t) : TRUE] = Sent]

\* The timer of the page, another socket, or the user opens the menu.
Poll(t) ==
    /\ Refreshes(t)
    /\ UNCHANGED <<row, ring, items, badge, mark, faults>>

\* The client is told of a note.
AddOnRing(t, n) ==
    /\ n \in ring[t]
    /\ ring' = [ring EXCEPT ![t] = @ \ {n}]
    /\ items' = [items EXCEPT ![t][n] = "unread"]
    /\ UNCHANGED <<row, load, badge, mark, faults>>
Ring(t, n) ==
    /\ n \in ring[t]
    /\ ring' = [ring EXCEPT ![t] = @ \ {n}]
    /\ Refreshes(t)
    /\ UNCHANGED <<row, items, badge, mark, faults>>

AnswerItems(t, s) ==
    /\ load[t][s].at = "sent" /\ load[t][s].items = Nothing
    /\ load' = [load EXCEPT ![t][s].items = Listed]
    /\ UNCHANGED <<row, ring, items, badge, mark, faults>>
AnswerCount(t, s) ==
    /\ load[t][s].at = "sent" /\ load[t][s].count = Nothing
    /\ load' = [load EXCEPT ![t][s].count = UnreadCount]
    /\ UNCHANGED <<row, ring, items, badge, mark, faults>>

\* Both answers are in: the list and the badge are replaced.
LandItemsOnly(t, s) ==
    /\ load[t][s].items # Nothing /\ load[t][s].count # Nothing
    /\ items' = [items EXCEPT ![t] = load[t][s].items]
    /\ load' = [load EXCEPT ![t][s] = Unused]
    /\ UNCHANGED <<row, ring, badge, mark, faults>>
Land(t, s) ==
    /\ load[t][s].items # Nothing /\ load[t][s].count # Nothing
    /\ items' = [items EXCEPT ![t] = load[t][s].items]
    /\ badge' = [badge EXCEPT ![t] = load[t][s].count]
    /\ load' = [load EXCEPT ![t][s] = Unused]
    /\ UNCHANGED <<row, ring, mark, faults>>

\* One of the requests fails: the tab keeps what it shows.
Lose(t, s) ==
    /\ faults < MaxFaults
    /\ faults' = faults + 1
    /\ load[t][s].at = "sent"
    /\ load' = [load EXCEPT ![t][s] = Unused]
    /\ UNCHANGED <<row, ring, items, badge, mark>>

\* handleNotificationClick: shown as read at once.
Click(t, n) ==
    /\ items[t][n] = "unread" /\ n \notin mark[t]
    /\ items' = [items EXCEPT ![t][n] = "read"]
    /\ badge' = [badge EXCEPT ![t] = IF @ > 0 THEN @ - 1 ELSE 0]
    /\ mark' = [mark EXCEPT ![t] = @ \cup {n}]
    /\ UNCHANGED <<row, ring, load, faults>>

\* markAsRead finds the note, which is the user's, and writes unless it is read.
MarkAsRead(t, n) ==
    /\ n \in mark[t]
    /\ row' = [row EXCEPT ![n] = "read"]
    /\ mark' = [mark EXCEPT ![t] = @ \ {n}]
    /\ UNCHANGED <<ring, load, items, badge, faults>>

\* The request or its answer is lost: the tab loads the inbox again.
MarkFails(t, n) ==
    /\ faults < MaxFaults
    /\ faults' = faults + 1
    /\ n \in mark[t]
    /\ mark' = [mark EXCEPT ![t] = @ \ {n}]
    /\ row' \in {row, [row EXCEPT ![n] = "read"]}
    /\ Refreshes(t)
    /\ UNCHANGED <<ring, items, badge>>

-----------------------------------------------------------------------------
Serve(n) == Insert(n) \/ Tell(n) \/ Commit(n) \/ RollBack(n)
Browse(t) ==
    \/ Poll(t)
    \/ \E s \in Slots : AnswerItems(t, s) \/ AnswerCount(t, s) \/ Land(t, s) \/ Lose(t, s)
    \/ \E n \in Notes : Ring(t, n) \/ Click(t, n) \/ MarkAsRead(t, n) \/ MarkFails(t, n)

Next == Restart \/ (\E n \in Notes : Serve(n)) \/ \E t \in Tabs : Browse(t)

\* The timer of an open tab keeps running, a transaction ends (it has a time
\* limit), and a request is answered or given up (the client has one).
Fairness ==
    /\ \A n \in Notes : WF_vars(Tell(n) \/ Commit(n) \/ RollBack(n))
    /\ \A t \in Tabs :
         /\ WF_vars(Poll(t))
         /\ \A s \in Slots : /\ WF_vars(AnswerItems(t, s)) /\ WF_vars(AnswerCount(t, s))
                             /\ WF_vars(Land(t, s))
         /\ \A n \in Notes : WF_vars(MarkAsRead(t, n))

Spec == Init /\ [][Next]_vars /\ Fairness

-----------------------------------------------------------------------------
(* Properties *)

\* No tab ever lists a note of a transaction that has not committed, although
\* clients are told of it before: what was undone has never been seen.
NothingUnreal ==
    \A t \in Tabs, n \in Notes : items[t][n] # "none" => row[n] \in {"unread", "read"}

\* When no more notes come, every tab comes to list exactly the notes there are,
\* as read or not read as they are, with their number on the badge: whatever was
\* told too early, lost, clicked in another tab or overtaken by a later load.
TabsSettle ==
    \A t \in Tabs : <>[](items[t] = Listed /\ badge[t] = UnreadCount)

\* It implements the abstract inbox: no note is posted twice, taken back or read
\* before it is posted, no tab shows one that is not, and in the end each shows all.
Posted == {n \in Notes : row[n] \in {"unread", "read"}}
Seen == {n \in Notes : row[n] = "read"}
Shown == [t \in Tabs |-> {n \in Notes : items[t][n] # "none"}]
AbstractInbox == INSTANCE Inbox WITH posted <- Posted, read <- Seen, shown <- Shown
ImplementsInbox == AbstractInbox!Spec
=============================================================================

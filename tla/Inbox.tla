-------------------------------- MODULE Inbox --------------------------------
(***************************************************************************)
(* What the notifications of one user promise: a note is posted once and   *)
(* for all, may be read once and for all, and every open browser tab shows *)
(* only posted notes and, from some time on, all of them.                  *)
(***************************************************************************)
CONSTANTS Notes, Tabs

VARIABLES
    posted,   \* the notes that have been sent to the user
    read,     \* those that the user has read
    shown     \* the notes that each tab shows

Init ==
    /\ posted = {}
    /\ read = {}
    /\ shown = [t \in Tabs |-> {}]

Post(n) ==
    /\ n \notin posted
    /\ posted' = posted \cup {n}
    /\ UNCHANGED <<read, shown>>

Read(n) ==
    /\ n \in posted \ read
    /\ read' = read \cup {n}
    /\ UNCHANGED <<posted, shown>>

\* A tab may show an older inbox for a while.
Show(t) ==
    /\ \E seen \in SUBSET posted : shown' = [shown EXCEPT ![t] = seen]
    /\ UNCHANGED <<posted, read>>

Next == (\E n \in Notes : Post(n) \/ Read(n)) \/ \E t \in Tabs : Show(t)

EverythingIsShown == \A t \in Tabs : <>[](shown[t] = posted)

vars == <<posted, read, shown>>

Spec == Init /\ [][Next]_vars /\ EverythingIsShown
=============================================================================

------------------------------ MODULE SheetLife ------------------------------
(***************************************************************************)
(* What the system promises about the month of one employee: while nobody  *)
(* has locked it days are closed and corrections asked for and answered,   *)
(* each once; then it is handed in with nothing left to answer, a reviewer *)
(* signs it or gives it back, and what was signed is paid, once.           *)
(***************************************************************************)
EXTENDS Sequences

CONSTANTS Entries, Requests, Reviewers

VARIABLES
    stage,    \* how far the month has come
    signedBy, \* the reviewer who approved it
    closed,   \* the entries that have a check-out
    answers,  \* what became of each request for a correction
    paid      \* what each payroll of this month pays

vars == <<stage, signedBy, closed, answers, paid>>

Nobody == "nobody"
Answers == {"APPROVED", "REJECTED", "MISSING_OUT"}

Init ==
    /\ stage = "NONE"
    /\ signedBy = Nobody
    /\ closed = {}
    /\ answers = [r \in Requests |-> "NONE"]
    /\ paid = <<>>

Open ==
    /\ stage = "NONE"
    /\ stage' = "DRAFT"
    /\ UNCHANGED <<signedBy, closed, answers, paid>>

Unlocked == stage \in {"DRAFT", "REJECTED"}

Close(e) ==
    /\ Unlocked
    /\ closed' = closed \cup {e}
    /\ UNCHANGED <<stage, signedBy, answers, paid>>

Ask(r) ==
    /\ Unlocked
    /\ answers[r] = "NONE"
    /\ answers' = [answers EXCEPT ![r] = "PENDING"]
    /\ UNCHANGED <<stage, signedBy, closed, paid>>

\* An approved correction may close its entry.
Answer(r, answer) ==
    /\ Unlocked
    /\ answers[r] = "PENDING"
    /\ answers' = [answers EXCEPT ![r] = answer]
    /\ \/ UNCHANGED closed
       \/ answer = "APPROVED" /\ \E e \in Entries : closed' = closed \cup {e}
    /\ UNCHANGED <<stage, signedBy, paid>>

HandIn ==
    /\ Unlocked
    /\ \A r \in Requests : answers[r] # "PENDING"
    /\ stage' = "SUBMITTED"
    /\ UNCHANGED <<signedBy, closed, answers, paid>>

Sign(reviewer) ==
    /\ stage = "SUBMITTED"
    /\ stage' = "APPROVED"
    /\ signedBy' = reviewer
    /\ UNCHANGED <<closed, answers, paid>>

GiveBack ==
    /\ stage = "SUBMITTED"
    /\ stage' = "REJECTED"
    /\ UNCHANGED <<signedBy, closed, answers, paid>>

\* Everything that was closed is paid.
Pay ==
    /\ stage = "APPROVED"
    /\ paid = <<>>
    /\ paid' = <<closed>>
    /\ UNCHANGED <<stage, signedBy, closed, answers>>

Next ==
    \/ Open \/ HandIn \/ GiveBack \/ Pay
    \/ \E e \in Entries : Close(e)
    \/ \E r \in Requests : Ask(r) \/ \E answer \in Answers : Answer(r, answer)
    \/ \E reviewer \in Reviewers : Sign(reviewer)

Spec == Init /\ [][Next]_vars
=============================================================================

--------------------------- MODULE RecoveryProofs ---------------------------
(* What holds of reset codes and passwords for any number of browsers,       *)
(* codes, passwords and requests.                                            *)
EXTENDS Recovery, TLAPS

\* The row has the latest code or none; a code that it has, or that nobody has
\* made up yet, has set no password.
CodesInOrder ==
    /\ code \in {NoCode, issued}
    /\ code # NoCode => used[code] = 0
    /\ \A c \in Codes : c > issued => used[c] = 0

\* A request in the middle has a code that was made up; if a later one has been
\* made up since, they cross; a reset that passed its check still finds its code.
MiddleKnown ==
    \A s \in Slots : InTheMiddle(s) =>
        /\ req[s].code \in Codes /\ req[s].code <= issued
        /\ req[s].code # issued => issued \in crossed
        /\ Is(s, "reset", "passed") /\ req[s].code \notin crossed => code = req[s].code

\* Two requests that are in the middle together cross each other.
MiddlesCross ==
    \A s, d \in Slots : s # d /\ InTheMiddle(s) /\ InTheMiddle(d) => req[s].code \in crossed

\* Every mail on its way is one request's, and is known to be on its way.
Sending(s) == InTheMiddle(s) /\ req[s].kind = "send"
SendsApart ==
    \A s, d \in Slots : s # d /\ Sending(s) /\ Sending(d) => req[s].code # req[d].code
SendsOpen == \A s \in Slots : Sending(s) => mail[req[s].code] = "sending"

\* The latest code is gone only when it was used, its mail failed or it was crossed.
LatestStands ==
    issued \in Codes \ crossed /\ used[issued] = 0 /\ mail[issued] # "failed" => code = issued

CodeInv ==
    /\ CodesInOrder
    /\ MiddleKnown
    /\ MiddlesCross
    /\ SendsApart
    /\ SendsOpen
    /\ LatestStands
    /\ FailedSendLeavesNothing

\* While the announced password is known, one request at most changes the
\* password, and it is the one announced until that request is carried out.
OneChange ==
    announced # Unknown => \A s, d \in Slots : SetsPassword(s) /\ SetsPassword(d) => s = d
NotYet ==
    announced \notin {Blank, Unknown} /\ (\A s \in Slots : SetsPassword(s) => req[s].at # "ok")
        => password = announced
Done ==
    announced # Unknown =>
        \A s \in Slots : SetsPassword(s) /\ req[s].at = "ok" /\ req[s].new # Blank
            => password = req[s].new
LateLost == SetsPassword(Late) => announced = Unknown
WordInv == OneChange /\ NotYet /\ Done /\ LateLost

USE DEF NoCode, Codes, Blank, Passwords, Slots, row, world, made, Unknown

-----------------------------------------------------------------------------
LEMMA RequestFields ==
    ASSUME NEW r \in Requests
    PROVE  /\ r.code \in Codes \cup {NoCode} /\ r.old \in Passwords /\ r.new \in Passwords
           /\ r.at \in Stages
           /\ \A a \in Stages : [r EXCEPT !.at = a] \in Requests
           /\ \A a \in Stages, c \in Codes : [r EXCEPT !.at = a, !.code = c] \in Requests
  BY DEF Requests

LEMMA FormFields ==
    ASSUME NEW r \in FormStates
    PROVE  /\ r.code \in Codes \cup {NoCode}
           /\ \A x \in Steps : [r EXCEPT !.step = x] \in FormStates
           /\ \A c \in Codes \cup {NoCode} : [r EXCEPT !.code = c] \in FormStates
  BY DEF FormStates

LEMMA EmptyForm == [step |-> "login", code |-> NoCode] \in FormStates
  BY DEF FormStates, Steps

LEMMA NothingTyped == Nothing \in Requests
  BY RecoveryAssumption DEF Nothing, Requests, Stages

LEMMA GoesTyped ==
    ASSUME NEW s \in Slots, NEW a \in Stages, TypeOK, Goes(s, a)
    PROVE  req' \in [Slots -> Requests]
  BY RequestFields DEF Goes, TypeOK

LEMMA AskTyped ==
    ASSUME NEW f \in Forms, NEW k \in {"send", "verify", "reset", "change"},
           NEW c \in Codes \cup {NoCode}, NEW v \in Passwords, NEW w \in Passwords,
           TypeOK, Ask(f, k, c, v, w)
    PROVE  req' \in [Slots -> Requests] /\ ops' \in 0 .. MaxOps
  <1>1. [kind |-> k, at |-> "sent", code |-> c, old |-> v, new |-> w] \in Requests
    BY DEF Requests, Stages
  <1>2. req' \in [Slots -> Requests]
    BY <1>1 DEF Ask, TypeOK
  <1> QED
    BY <1>2, RecoveryAssumption DEF Ask, Act, TypeOK

LEMMA CrossedTyped ==
    ASSUME NEW s \in Slots, NEW c \in Codes \cup {NoCode}, TypeOK
    PROVE  CrossedBy(s, c) \subseteq Codes \cup {NoCode}
  <1>1. \A d \in Slots : req[d].code \in Codes \cup {NoCode}
    BY RequestFields DEF TypeOK
  <1> DEFINE others == {d \in Slots \ {s} : InTheMiddle(d)}
  <1>2. {req[d].code : d \in others} \subseteq Codes \cup {NoCode}
    BY <1>1
  <1>3. CrossedBy(s, c) = IF others = {} THEN crossed
                          ELSE crossed \cup {c} \cup {req[d].code : d \in others}
    BY Zenon DEF CrossedBy
  <1>4. crossed \subseteq Codes \cup {NoCode}
    BY DEF TypeOK
  <1> QED
    BY <1>2, <1>3, <1>4

LEMMA InitTyped == Init => TypeOK
  BY RecoveryAssumption, NothingTyped DEF Init, TypeOK, FormStates, Steps

LEMMA NextTyped == TypeOK /\ [Next]_vars => TypeOK'
  <1> SUFFICES ASSUME TypeOK, [Next]_vars PROVE TypeOK'
    OBVIOUS
  <1> USE RecoveryAssumption
  <1>1. ASSUME NEW f \in Forms, Open(f) PROVE TypeOK'
    BY <1>1, FormFields DEF Open, TypeOK, Steps
  <1>2. ASSUME NEW f \in Forms, Back(f) PROVE TypeOK'
    BY <1>2, FormFields DEF Back, TypeOK, Steps
  <1>3. ASSUME NEW f \in Forms, CompleteLogin(f) PROVE TypeOK'
    BY <1>3, FormFields DEF CompleteLogin, TypeOK, Steps
  <1>4. ASSUME NEW f \in Forms, Receive(f) PROVE TypeOK'
    <2>1. StepAfter(f) \in FormStates
      BY FormFields, EmptyForm DEF StepAfter, TypeOK, Steps
    <2>2. req[f].new \in Passwords
      BY RequestFields DEF TypeOK
    <2> QED
      BY <1>4, <2>1, <2>2, NothingTyped DEF Receive, TypeOK
  <1>5. ASSUME NEW f \in Forms, Lose(f) PROVE TypeOK'
    <2>1. \A l : l \in Requests => [req EXCEPT ![f] = Nothing, ![Late] = l] \in [Slots -> Requests]
      BY NothingTyped DEF TypeOK
    <2>2. req' \in [Slots -> Requests]
      BY <1>5, <2>1 DEF Lose, TypeOK
    <2>3. form' \in [Forms -> FormStates]
      BY <1>5, EmptyForm DEF Lose, TypeOK
    <2>4. ops' \in 0 .. MaxOps
      BY <1>5 DEF Lose, TypeOK, Act
    <2>5. announced' \in Passwords \cup {Unknown}
      BY <1>5 DEF Lose, TypeOK, Doubt
    <2> QED
      BY <1>5, <2>2, <2>3, <2>4, <2>5 DEF Lose, TypeOK
  <1>6. ASSUME NEW f \in Forms, HandleSendCode(f) PROVE TypeOK'
    <2>1. Ask(f, "send", NoCode, 0, 0) /\ NoCode \in Codes \cup {NoCode} /\ 0 \in Passwords
      BY <1>6 DEF HandleSendCode
    <2>2. req' \in [Slots -> Requests] /\ ops' \in 0 .. MaxOps
      BY <2>1, AskTyped
    <2> QED
      BY <1>6, <2>2 DEF HandleSendCode, TypeOK
  <1>7. ASSUME NEW f \in Forms, HandleVerifyCode(f) PROVE TypeOK'
    <2>1. PICK c \in Codes : Ask(f, "verify", c, 0, 0) /\ form' = [form EXCEPT ![f].code = c]
      BY <1>7 DEF HandleVerifyCode, TypeOK
    <2>2. c \in Codes \cup {NoCode} /\ 0 \in Passwords
      OBVIOUS
    <2>3. req' \in [Slots -> Requests] /\ ops' \in 0 .. MaxOps
      BY <2>1, <2>2, AskTyped
    <2>4. form' \in [Forms -> FormStates]
      BY <2>1, <2>2, FormFields DEF TypeOK
    <2> QED
      BY <1>7, <2>3, <2>4 DEF HandleVerifyCode, TypeOK
  <1>8. ASSUME NEW f \in Forms, HandleResetPassword(f) PROVE TypeOK'
    <2>1. form[f].code \in Codes \cup {NoCode}
      BY FormFields DEF TypeOK
    <2>2. PICK w \in Passwords : Choose(w) /\ Chosen(w) /\ Ask(f, "reset", form[f].code, 0, w)
      BY <1>8 DEF HandleResetPassword
    <2>3. 0 \in Passwords
      OBVIOUS
    <2>4. req' \in [Slots -> Requests] /\ ops' \in 0 .. MaxOps
      BY <2>1, <2>2, <2>3, AskTyped
    <2> QED
      BY <1>8, <2>2, <2>4 DEF HandleResetPassword, TypeOK, Choose, Chosen, Doubt
  <1>9. ASSUME NEW f \in Forms, HandlePasswordSubmit(f) PROVE TypeOK'
    <2>1. PICK w \in Passwords, old \in 0 .. words :
              Choose(w) /\ Chosen(w) /\ Ask(f, "change", NoCode, old, w)
      BY <1>9 DEF HandlePasswordSubmit
    <2>2. NoCode \in Codes \cup {NoCode} /\ old \in Passwords
      BY DEF TypeOK
    <2>3. req' \in [Slots -> Requests] /\ ops' \in 0 .. MaxOps
      BY <2>1, <2>2, AskTyped
    <2> QED
      BY <1>9, <2>1, <2>3 DEF HandlePasswordSubmit, TypeOK, Choose, Chosen, Doubt
  <1>10. ASSUME NEW s \in Slots, IssueCode(s) PROVE TypeOK'
    <2>1. issued + 1 \in Codes
      BY <1>10 DEF IssueCode, TypeOK
    <2>2. req' \in [Slots -> Requests]
      BY <1>10, <2>1, RequestFields DEF IssueCode, TypeOK, Stages
    <2>3. crossed' = CrossedBy(s, issued + 1)
      BY <1>10 DEF IssueCode
    <2>4. crossed' \subseteq Codes \cup {NoCode}
      BY <2>1, <2>3, CrossedTyped
    <2>5. mail' \in [Codes -> {"none", "sending", "sent", "failed", "cut"}]
      BY <1>10, <2>1 DEF IssueCode, TypeOK
    <2>6. issued' = issued + 1 /\ code' = issued + 1
      BY <1>10 DEF IssueCode, StoredCode
    <2>7. UNCHANGED <<password, words, world, form, ops, used, announced>>
      BY <1>10 DEF IssueCode
    <2> QED
      BY <2>1, <2>2, <2>4, <2>5, <2>6, <2>7 DEF TypeOK
  <1>11. ASSUME NEW s \in Slots, SendMail(s) PROVE TypeOK'
    <2>1. req' \in [Slots -> Requests]
      BY <1>11, GoesTyped DEF SendMail, Stages
    <2> QED
      BY <1>11, <2>1 DEF SendMail, TypeOK
  <1>12. ASSUME NEW s \in Slots, Revert(s) PROVE TypeOK'
    BY <1>12, GoesTyped DEF Revert, Reverted, TypeOK, Stages
  <1>13. ASSUME NEW s \in Slots, VerifyResetCode(s) PROVE TypeOK'
    BY <1>13, GoesTyped DEF VerifyResetCode, TypeOK, Stages
  <1>14. ASSUME NEW s \in Slots, CheckReset(s) PROVE TypeOK'
    <2>1. req' \in [Slots -> Requests]
      BY <1>14, GoesTyped DEF CheckReset, Stages
    <2>2. req[s].code \in Codes \cup {NoCode}
      BY RequestFields DEF TypeOK
    <2>3. crossed' \in {crossed, CrossedBy(s, req[s].code)}
      BY <1>14 DEF CheckReset
    <2>4. crossed' \subseteq Codes \cup {NoCode}
      <3>1. crossed \subseteq Codes \cup {NoCode} /\ CrossedBy(s, req[s].code) \subseteq Codes \cup {NoCode}
        BY <2>2, CrossedTyped DEF TypeOK
      <3> QED
        BY <2>3, <3>1
    <2> QED
      BY <1>14, <2>1, <2>4 DEF CheckReset, TypeOK
  <1>15. ASSUME NEW s \in Slots, SaveReset(s) PROVE TypeOK'
    <2>1. req' \in [Slots -> Requests] /\ req[s].new \in Passwords
      BY <1>15, GoesTyped, RequestFields DEF SaveReset, Stages, TypeOK
    <2>2. used' \in [Codes -> Nat]
      <3>1. used' = [used EXCEPT ![req[s].code] = @ + 1] /\ used \in [Codes -> Nat]
        BY <1>15 DEF SaveReset, TypeOK
      <3>2. CASE req[s].code \in Codes
        BY <3>1, <3>2
      <3>3. CASE req[s].code \notin Codes
        BY <3>1, <3>3
      <3> QED
        BY <3>2, <3>3
    <2> QED
      BY <1>15, <2>1, <2>2 DEF SaveReset, ClearedCode, TypeOK
  <1>16. ASSUME NEW s \in Slots, CheckChange(s) PROVE TypeOK'
    BY <1>16, GoesTyped DEF CheckChange, TypeOK, Stages
  <1>17. ASSUME NEW s \in Slots, SaveChange(s) PROVE TypeOK'
    BY <1>17, GoesTyped, RequestFields DEF SaveChange, TypeOK, Stages
  <1>18. ASSUME NEW c \in Codes, Arrive(c) \/ Expire(c) PROVE TypeOK'
    BY <1>18 DEF Arrive, Expire, TypeOK
  <1>19. CASE LateEnds
    BY <1>19, NothingTyped DEF LateEnds, TypeOK
  <1>20. CASE Crash
    <2>1. \A s \in Slots : [req[s] EXCEPT !.at = "refused"] \in Requests
      BY RequestFields DEF TypeOK, Stages
    <2>2. req' \in [Slots -> Requests]
      BY <1>20, <2>1, NothingTyped DEF Crash, TypeOK
    <2>3. mail' \in [Codes -> {"none", "sending", "sent", "failed", "cut"}]
      BY <1>20 DEF Crash, TypeOK
    <2>4. ops' \in 0 .. MaxOps
      BY <1>20 DEF Crash, TypeOK, Act
    <2> QED
      BY <1>20, <2>2, <2>3, <2>4 DEF Crash, TypeOK
  <1>21. CASE UNCHANGED vars
    BY <1>21 DEF vars, TypeOK
  <1> QED
    BY <1>1, <1>2, <1>3, <1>4, <1>5, <1>6, <1>7, <1>8, <1>9, <1>10, <1>11, <1>12, <1>13,
       <1>14, <1>15, <1>16, <1>17, <1>18, <1>19, <1>20, <1>21 DEF Next

\* The types of the variables, for every number of browsers, codes and passwords.
THEOREM RecoveryTypeCorrect == Spec => []TypeOK
  BY InitTyped, NextTyped, PTL DEF Spec

-----------------------------------------------------------------------------
(* Codes.  Most steps leave codes alone and put nothing new in the middle.   *)

CodesStay ==
    /\ UNCHANGED <<code, issued, used, crossed>>
    /\ \A c \in Codes :
         /\ mail'[c] = "failed" <=> mail[c] = "failed"
         /\ mail[c] \in {"sending", "sent", "cut"} => mail'[c] \in {"sending", "sent", "cut"}
MiddleStays(s, d) ==
    /\ InTheMiddle(d)
    /\ req'[s].code = req[d].code
    /\ Is(s, "reset", "passed")' => Is(d, "reset", "passed")
    /\ Sending(s)' => Sending(d)
MiddlesStay ==
    \A s, e \in Slots : InTheMiddle(s)' /\ InTheMiddle(e)' =>
        \E d, b \in Slots : MiddleStays(s, d) /\ MiddleStays(e, b) /\ (s # e => d # b)

LEMMA StaysSimple ==
    ASSUME \A s \in Slots : InTheMiddle(s)' => MiddleStays(s, s)
    PROVE  MiddlesStay
  BY DEF MiddlesStay, MiddleStays

LEMMA CodeFrame ==
    ASSUME TypeOK, CodeInv, CodesStay, MiddlesStay, SendsOpen'
    PROVE  CodeInv'
  <1>1. CodesInOrder'
    BY DEF CodeInv, CodesInOrder, CodesStay
  <1>2. MiddleKnown'
    <2> SUFFICES ASSUME NEW s \in Slots, InTheMiddle(s)'
                 PROVE  /\ req'[s].code \in Codes /\ req'[s].code <= issued'
                        /\ req'[s].code # issued' => issued' \in crossed'
                        /\ Is(s, "reset", "passed")' /\ req'[s].code \notin crossed'
                               => code' = req'[s].code
      BY DEF MiddleKnown
    <2>1. PICK d \in Slots : MiddleStays(s, d)
      BY DEF MiddlesStay
    <2> QED
      BY <2>1 DEF MiddleStays, CodeInv, MiddleKnown, CodesStay
  <1>3. MiddlesCross'
    <2> SUFFICES ASSUME NEW s \in Slots, NEW e \in Slots, s # e, InTheMiddle(s)', InTheMiddle(e)'
                 PROVE  req'[s].code \in crossed'
      BY DEF MiddlesCross
    <2>1. PICK d \in Slots, b \in Slots : MiddleStays(s, d) /\ MiddleStays(e, b) /\ d # b
      BY DEF MiddlesStay
    <2> QED
      BY <2>1 DEF MiddleStays, CodeInv, MiddlesCross, CodesStay
  <1>6. SendsApart'
    <2> SUFFICES ASSUME NEW s \in Slots, NEW e \in Slots, s # e, Sending(s)', Sending(e)'
                 PROVE  req'[s].code # req'[e].code
      BY DEF SendsApart
    <2>1. PICK d \in Slots, b \in Slots : MiddleStays(s, d) /\ MiddleStays(e, b) /\ d # b
      BY DEF MiddlesStay, Sending
    <2> QED
      BY <2>1 DEF MiddleStays, CodeInv, SendsApart
  <1>4. LatestStands'
    BY DEF CodeInv, LatestStands, CodesStay
  <1>5. FailedSendLeavesNothing'
    BY DEF CodeInv, FailedSendLeavesNothing, CodesStay, TypeOK
  <1> QED
    BY <1>1, <1>2, <1>3, <1>4, <1>5, <1>6 DEF CodeInv

LEMMA StillFrame ==
    ASSUME TypeOK, CodeInv, UNCHANGED <<code, issued, used, crossed, mail>>, MiddlesStay
    PROVE  CodeInv'
  <1>1. CodesStay
    BY DEF CodesStay
  <1>2. SendsOpen'
    <2> SUFFICES ASSUME NEW s \in Slots, Sending(s)' PROVE mail'[req'[s].code] = "sending"
      BY DEF SendsOpen
    <2>1. PICK d \in Slots : MiddleStays(s, d)
      BY DEF MiddlesStay, Sending
    <2> QED
      BY <2>1 DEF MiddleStays, CodeInv, SendsOpen
  <1> QED
    BY <1>1, <1>2, CodeFrame

\* A new request is not in the middle.
LEMMA AskStays ==
    ASSUME NEW f \in Forms, NEW k, NEW c, NEW v, NEW w, TypeOK, Ask(f, k, c, v, w)
    PROVE  MiddlesStay
  <1>1. ~InTheMiddle(f)'
    BY DEF Ask, InTheMiddle, Busy, TypeOK
  <1>2. \A s \in Slots : s # f => req'[s] = req[s]
    BY DEF Ask, TypeOK
  <1>3. \A s \in Slots : InTheMiddle(s)' => MiddleStays(s, s)
    BY <1>1, <1>2 DEF MiddleStays, InTheMiddle, Busy, Is, Sending
  <1> QED
    BY <1>3, StaysSimple

\* A request that goes on to an answer, or from a mail to its failure, was there.
LEMMA GoesStays ==
    ASSUME NEW s \in Slots, NEW at \in Stages, TypeOK, Goes(s, at),
           \/ at \in {"sent", "ok", "refused"}
           \/ req[s].kind = "change"
           \/ at = "failing" /\ Is(s, "send", "mailing")
    PROVE  MiddlesStay
  <1>1. \A d \in Slots : d # s => req'[d] = req[d]
    BY DEF Goes, TypeOK
  <1>2. req'[s] = [req[s] EXCEPT !.at = at]
    BY DEF Goes, TypeOK
  <1>3. req'[s].at = at /\ req'[s].kind = req[s].kind /\ req'[s].code = req[s].code
    BY <1>2 DEF TypeOK, Requests
  <1>4. InTheMiddle(s)' => MiddleStays(s, s)
    BY <1>3 DEF MiddleStays, InTheMiddle, Busy, Is, Sending
  <1>5. \A d \in Slots : InTheMiddle(d)' => MiddleStays(d, d)
    BY <1>1, <1>4 DEF MiddleStays, InTheMiddle, Busy, Is, Sending
  <1> QED
    BY <1>5, StaysSimple

\* A client that gives up hands its request to nobody, or to the late one's slot.
LEMMA LoseStays ==
    ASSUME NEW f \in Forms, TypeOK, Lose(f)
    PROVE  MiddlesStay
  <1>1. PICK l \in {req[Late]} \cup {r \in {req[f]} : ~Busy(Late) /\ ~Answered(f)} :
            req' = [req EXCEPT ![f] = Nothing, ![Late] = l]
    BY DEF Lose
  <1>2. f # Late
    BY RecoveryAssumption
  <1>3. req'[f] = Nothing /\ req'[Late] = l /\ \A s \in Forms : s # f => req'[s] = req[s]
    BY <1>1, <1>2, RecoveryAssumption DEF TypeOK
  <1>4. ~InTheMiddle(f)'
    BY <1>3 DEF InTheMiddle, Busy, Nothing
  <1>5. CASE l = req[Late]
    <2>1. \A s \in Slots : InTheMiddle(s)' => MiddleStays(s, s)
      BY <1>3, <1>4, <1>5 DEF MiddleStays, InTheMiddle, Busy, Is, Sending
    <2> QED
      BY <2>1, StaysSimple
  <1>6. CASE l = req[f] /\ ~Busy(Late)
    <2>1. InTheMiddle(Late)' => MiddleStays(Late, f)
      BY <1>3, <1>6 DEF MiddleStays, InTheMiddle, Busy, Is, Sending
    <2>2. \A s \in Forms : InTheMiddle(s)' => s # f /\ MiddleStays(s, s)
      BY <1>3, <1>4 DEF MiddleStays, InTheMiddle, Busy, Is, Sending
    <2> QED
      BY <2>1, <2>2 DEF MiddlesStay, MiddleStays
  <1> QED
    BY <1>1, <1>5, <1>6

\* Whoever enters the middle beside others crosses them.
LEMMA EntersCrossed ==
    ASSUME NEW s \in Slots, NEW c, NEW d \in Slots, d # s, InTheMiddle(d)
    PROVE  c \in CrossedBy(s, c) /\ req[d].code \in CrossedBy(s, c) /\ crossed \subseteq CrossedBy(s, c)
  <1> DEFINE others == {x \in Slots \ {s} : InTheMiddle(x)}
  <1>1. CrossedBy(s, c) = crossed \cup {c} \cup {req[x].code : x \in others}
    BY Zenon DEF CrossedBy
  <1> QED
    BY <1>1

LEMMA CrossedGrows ==
    ASSUME NEW s \in Slots, NEW c
    PROVE  crossed \subseteq CrossedBy(s, c)
  BY Zenon DEF CrossedBy

LEMMA IssueCodeInv ==
    ASSUME NEW s \in Slots, TypeOK, CodeInv, IssueCode(s)
    PROVE  CodeInv'
  <1> DEFINE c == issued + 1
  <1>1. c \in Codes /\ issued \in Nat
    BY RecoveryAssumption DEF IssueCode, TypeOK
  <1>2. issued' = c /\ code' = c /\ used' = used /\ mail' = [mail EXCEPT ![c] = "sending"]
    BY DEF IssueCode, StoredCode
  <1>3. crossed' = CrossedBy(s, c)
    BY DEF IssueCode
  <1>4. req'[s].at = "mailing" /\ req'[s].code = c /\ req'[s].kind = "send"
    BY DEF IssueCode, TypeOK, Requests, Is
  <1>5. \A d \in Slots : d # s => req'[d] = req[d]
    BY DEF IssueCode, TypeOK
  <1>6. CodesInOrder'
    BY <1>1, <1>2 DEF CodeInv, CodesInOrder, TypeOK
  <1>7. MiddleKnown'
    <2> SUFFICES ASSUME NEW d \in Slots, InTheMiddle(d)'
                 PROVE  /\ req'[d].code \in Codes /\ req'[d].code <= issued'
                        /\ req'[d].code # issued' => issued' \in crossed'
                        /\ Is(d, "reset", "passed")' /\ req'[d].code \notin crossed'
                               => code' = req'[d].code
      BY DEF MiddleKnown
    <2>1. CASE d = s
      BY <2>1, <1>1, <1>2, <1>4 DEF Is
    <2>2. CASE d # s
      <3>1. InTheMiddle(d) /\ req'[d].code = req[d].code
        BY <2>2, <1>5 DEF InTheMiddle, Busy
      <3>2. c \in crossed' /\ req'[d].code \in crossed'
        BY <2>2, <3>1, <1>3, EntersCrossed
      <3>3. req[d].code \in Codes /\ req[d].code <= issued
        BY <3>1 DEF CodeInv, MiddleKnown
      <3> QED
        BY <3>1, <3>2, <3>3, <1>1, <1>2
    <2> QED
      BY <2>1, <2>2
  <1>8. MiddlesCross'
    <2> SUFFICES ASSUME NEW d \in Slots, NEW e \in Slots, d # e, InTheMiddle(d)', InTheMiddle(e)'
                 PROVE  req'[d].code \in crossed'
      BY DEF MiddlesCross
    <2>1. CASE d = s
      <3>1. InTheMiddle(e)
        BY <2>1, <1>5 DEF InTheMiddle, Busy
      <3> QED
        BY <2>1, <3>1, <1>3, <1>4, EntersCrossed
    <2>2. CASE d # s
      <3>1. InTheMiddle(d) /\ req'[d].code = req[d].code
        BY <2>2, <1>5 DEF InTheMiddle, Busy
      <3> QED
        BY <2>2, <3>1, <1>3, EntersCrossed
    <2> QED
      BY <2>1, <2>2
  <1>9. LatestStands' /\ FailedSendLeavesNothing'
    BY <1>1, <1>2 DEF LatestStands, FailedSendLeavesNothing, TypeOK
  <1>10. \A d \in Slots : d # s /\ Sending(d)' =>
            Sending(d) /\ req'[d] = req[d] /\ req[d].code \in Codes /\ req[d].code # c
    <2> SUFFICES ASSUME NEW d \in Slots, d # s, Sending(d)'
                 PROVE  Sending(d) /\ req'[d] = req[d] /\ req[d].code \in Codes /\ req[d].code # c
      OBVIOUS
    <2>1. Sending(d) /\ InTheMiddle(d) /\ req'[d] = req[d]
      BY <1>5 DEF Sending, InTheMiddle, Busy
    <2>2. req[d].code \in Codes /\ req[d].code <= issued
      BY <2>1 DEF CodeInv, MiddleKnown
    <2> QED
      BY <2>1, <2>2, <1>1
  <1>11. SendsApart'
    BY <1>4, <1>10 DEF CodeInv, SendsApart
  <1>12. SendsOpen'
    BY <1>1, <1>2, <1>4, <1>10 DEF CodeInv, SendsOpen, TypeOK
  <1> QED
    BY <1>6, <1>7, <1>8, <1>9, <1>11, <1>12 DEF CodeInv

LEMMA RevertInv ==
    ASSUME NEW s \in Slots, TypeOK, CodeInv, Revert(s)
    PROVE  CodeInv'
  <1>1. code' = NoCode /\ UNCHANGED <<issued, used, crossed>> /\ Goes(s, "refused")
    BY DEF Revert, Reverted
  <1>2. mail' = [mail EXCEPT ![req[s].code] = "failed"]
    BY DEF Revert
  <1>3. InTheMiddle(s) /\ Is(s, "send", "failing")
    BY DEF Revert, InTheMiddle, Busy, Is
  <1>4. \A d \in Slots : InTheMiddle(d)' => d # s /\ req'[d] = req[d]
    BY <1>1 DEF Goes, TypeOK, Requests, InTheMiddle
  <1>5. CodesInOrder'
    BY <1>1 DEF CodeInv, CodesInOrder
  <1>6. MiddleKnown'
    <2> SUFFICES ASSUME NEW d \in Slots, InTheMiddle(d)'
                 PROVE  /\ req[d].code \in Codes /\ req[d].code <= issued
                        /\ req[d].code # issued => issued \in crossed
                        /\ req[d].code \in crossed
      BY <1>1, <1>4 DEF MiddleKnown
    <2>1. InTheMiddle(d) /\ d # s
      BY <1>4 DEF InTheMiddle, Busy
    <2> QED
      BY <2>1, <1>3 DEF CodeInv, MiddleKnown, MiddlesCross
  <1>7. MiddlesCross'
    BY <1>1, <1>4 DEF CodeInv, MiddlesCross, InTheMiddle, Busy
  <1>8. LatestStands'
    <2> SUFFICES ASSUME issued \in Codes \ crossed, mail'[issued] # "failed" PROVE FALSE
      BY <1>1 DEF LatestStands
    <2>1. req[s].code = issued
      BY <1>3 DEF CodeInv, MiddleKnown
    <2> QED
      BY <2>1, <1>2 DEF TypeOK
  <1>9. FailedSendLeavesNothing'
    BY <1>1 DEF FailedSendLeavesNothing
  <1>10. \A d \in Slots : Sending(d)' => d # s /\ Sending(d) /\ req'[d] = req[d]
    BY <1>4 DEF Sending, InTheMiddle, Busy
  <1>11. SendsApart'
    BY <1>10 DEF CodeInv, SendsApart
  <1>12. SendsOpen'
    <2> SUFFICES ASSUME NEW d \in Slots, Sending(d)' PROVE mail'[req'[d].code] = "sending"
      BY DEF SendsOpen
    <2>1. d # s /\ Sending(d) /\ Sending(s) /\ req'[d] = req[d]
      BY <1>3, <1>10 DEF Sending, Is
    <2>2. req[d].code # req[s].code /\ mail[req[d].code] = "sending" /\ req[d].code \in Codes
      BY <2>1 DEF CodeInv, SendsApart, SendsOpen, MiddleKnown, Sending
    <2> QED
      BY <2>1, <2>2, <1>2 DEF TypeOK
  <1> QED
    BY <1>5, <1>6, <1>7, <1>8, <1>9, <1>11, <1>12 DEF CodeInv

LEMMA CheckResetInv ==
    ASSUME NEW s \in Slots, TypeOK, CodeInv, CheckReset(s), MayReset(req[s].code)
    PROVE  CodeInv'
  <1> DEFINE c == req[s].code
  <1>1. UNCHANGED <<code, issued, used, mail>> /\ Goes(s, "passed") /\ crossed' = CrossedBy(s, c)
    BY DEF CheckReset
  <1>2. code = c /\ c # NoCode /\ c = issued /\ c \in Codes
    BY DEF MayReset, CodeIsValid, CodeInv, CodesInOrder, TypeOK
  <1>3. \A d \in Slots : d # s => req'[d] = req[d]
    BY <1>1 DEF Goes, TypeOK
  <1>4. req'[s].code = c
    BY <1>1 DEF Goes, TypeOK, Requests
  <1>5. crossed \subseteq crossed'
    BY <1>1, CrossedGrows
  <1>6. \A d \in Slots : d # s /\ InTheMiddle(d)' =>
            /\ InTheMiddle(d) /\ c \in crossed' /\ req'[d].code \in crossed'
    <2> SUFFICES ASSUME NEW d \in Slots, d # s, InTheMiddle(d)'
                 PROVE  InTheMiddle(d) /\ c \in crossed' /\ req'[d].code \in crossed'
      OBVIOUS
    <2>1. InTheMiddle(d) /\ req'[d].code = req[d].code
      BY <1>3 DEF InTheMiddle, Busy
    <2> QED
      BY <2>1, <1>1, EntersCrossed
  <1>7. CodesInOrder'
    BY <1>1 DEF CodeInv, CodesInOrder
  <1>8. MiddleKnown'
    <2> SUFFICES ASSUME NEW d \in Slots, InTheMiddle(d)'
                 PROVE  /\ req'[d].code \in Codes /\ req'[d].code <= issued'
                        /\ req'[d].code # issued' => issued' \in crossed'
                        /\ Is(d, "reset", "passed")' /\ req'[d].code \notin crossed'
                               => code' = req'[d].code
      BY DEF MiddleKnown
    <2>1. CASE d = s
      BY <2>1, <1>1, <1>2, <1>4
    <2>2. CASE d # s
      <3>1. InTheMiddle(d) /\ req'[d] = req[d] /\ req'[d].code \in crossed' /\ c \in crossed'
        BY <2>2, <1>3, <1>6
      <3>2. req[d].code \in Codes /\ req[d].code <= issued
        BY <3>1 DEF CodeInv, MiddleKnown
      <3> QED
        BY <3>1, <3>2, <1>1, <1>2
    <2> QED
      BY <2>1, <2>2
  <1>9. MiddlesCross'
    <2> SUFFICES ASSUME NEW d \in Slots, NEW e \in Slots, d # e, InTheMiddle(d)', InTheMiddle(e)'
                 PROVE  req'[d].code \in crossed'
      BY DEF MiddlesCross
    <2>1. CASE d = s
      BY <2>1, <1>4, <1>6
    <2>2. CASE d # s
      BY <2>2, <1>6
    <2> QED
      BY <2>1, <2>2
  <1>10. LatestStands' /\ FailedSendLeavesNothing'
    BY <1>1, <1>5 DEF CodeInv, LatestStands, FailedSendLeavesNothing
  <1>11. \A d \in Slots : Sending(d)' => Sending(d) /\ req'[d] = req[d]
    <2>1. ~Sending(s)'
      BY <1>1 DEF Goes, TypeOK, Requests, Sending, CheckReset, Is
    <2> QED
      BY <2>1, <1>3 DEF Sending, InTheMiddle, Busy
  <1>12. SendsApart' /\ SendsOpen'
    BY <1>1, <1>11 DEF CodeInv, SendsApart, SendsOpen
  <1> QED
    BY <1>7, <1>8, <1>9, <1>10, <1>12 DEF CodeInv

LEMMA SaveResetInv ==
    ASSUME NEW s \in Slots, TypeOK, CodeInv, SaveReset(s)
    PROVE  CodeInv'
  <1> DEFINE c == req[s].code
  <1>1. code' = NoCode /\ UNCHANGED <<issued, crossed, mail>> /\ Goes(s, "ok")
    BY DEF SaveReset, ClearedCode
  <1>2. used' = [used EXCEPT ![c] = @ + 1]
    BY DEF SaveReset
  <1>3. InTheMiddle(s)
    BY DEF SaveReset, InTheMiddle, Busy, Is
  <1>4. c \in Codes /\ c <= issued /\ issued \in Nat
    BY <1>3, RecoveryAssumption DEF CodeInv, MiddleKnown, TypeOK
  <1>5. \A d \in Slots : InTheMiddle(d)' => d # s /\ req'[d] = req[d]
    BY <1>1 DEF Goes, TypeOK, Requests, InTheMiddle
  <1>6. CodesInOrder'
    BY <1>1, <1>2, <1>4 DEF CodeInv, CodesInOrder, TypeOK
  <1>7. MiddleKnown'
    <2> SUFFICES ASSUME NEW d \in Slots, InTheMiddle(d)'
                 PROVE  /\ req[d].code \in Codes /\ req[d].code <= issued
                        /\ req[d].code # issued => issued \in crossed
                        /\ req[d].code \in crossed
      BY <1>1, <1>5 DEF MiddleKnown
    <2>1. InTheMiddle(d) /\ d # s
      BY <1>5 DEF InTheMiddle, Busy
    <2> QED
      BY <2>1, <1>3 DEF CodeInv, MiddleKnown, MiddlesCross
  <1>8. MiddlesCross'
    BY <1>1, <1>5 DEF CodeInv, MiddlesCross, InTheMiddle, Busy
  <1>9. LatestStands'
    <2> SUFFICES ASSUME issued \in Codes \ crossed, used'[issued] = 0 PROVE FALSE
      BY <1>1 DEF LatestStands
    <2>1. c = issued
      BY <1>3 DEF CodeInv, MiddleKnown
    <2> QED
      BY <2>1, <1>2, <1>4 DEF TypeOK
  <1>10. FailedSendLeavesNothing'
    BY <1>1 DEF FailedSendLeavesNothing
  <1>11. \A d \in Slots : Sending(d)' => Sending(d) /\ req'[d] = req[d]
    BY <1>5 DEF Sending, InTheMiddle, Busy
  <1>12. SendsApart' /\ SendsOpen'
    BY <1>1, <1>11 DEF CodeInv, SendsApart, SendsOpen
  <1> QED
    BY <1>6, <1>7, <1>8, <1>9, <1>10, <1>12 DEF CodeInv

LEMMA SendMailInv ==
    ASSUME NEW s \in Slots, TypeOK, CodeInv, SendMail(s)
    PROVE  CodeInv'
  <1>1. PICK sent \in BOOLEAN :
            /\ Goes(s, IF sent THEN "ok" ELSE "failing")
            /\ mail' = [mail EXCEPT ![req[s].code] = IF sent THEN "sent" ELSE @]
    BY DEF SendMail, Reports
  <1>2. Sending(s) /\ InTheMiddle(s)
    BY DEF SendMail, Sending, InTheMiddle, Busy, Is
  <1>3. mail[req[s].code] = "sending" /\ req[s].code \in Codes
    BY <1>2 DEF CodeInv, SendsOpen, MiddleKnown
  <1>4. MiddlesStay
    BY <1>1, GoesStays DEF SendMail, Stages
  <1>5. CASE sent
    <2>1. Goes(s, "ok") /\ mail' = [mail EXCEPT ![req[s].code] = "sent"]
      BY <1>1, <1>5
    <2>2. CodesStay
      BY <2>1, <1>3 DEF CodesStay, SendMail, TypeOK
    <2>3. \A d \in Slots : Sending(d)' => d # s /\ Sending(d) /\ req'[d] = req[d]
      BY <2>1 DEF Goes, TypeOK, Requests, Sending, InTheMiddle, Busy
    <2>4. \A d \in Slots : Sending(d)' => req[d].code # req[s].code /\ req[d].code \in Codes
                                          /\ mail[req[d].code] = "sending"
      BY <2>3, <1>2 DEF CodeInv, SendsApart, SendsOpen, MiddleKnown, Sending
    <2>5. SendsOpen'
      BY <2>1, <2>3, <2>4 DEF SendsOpen, TypeOK
    <2> QED
      BY <2>2, <2>5, <1>4, CodeFrame
  <1>6. CASE ~sent
    <2>1. mail' = mail
      BY <1>1, <1>3, <1>6 DEF TypeOK
    <2> QED
      BY <2>1, <1>4, StillFrame DEF SendMail
  <1> QED
    BY <1>5, <1>6

LEMMA CrashInv ==
    ASSUME TypeOK, CodeInv, Crash
    PROVE  CodeInv'
  <1>1. \A s \in Slots : ~InTheMiddle(s)'
    <2> SUFFICES ASSUME NEW s \in Slots PROVE ~InTheMiddle(s)'
      OBVIOUS
    <2>1. req'[s] = IF s = Late THEN Nothing
                    ELSE IF Busy(s) /\ ~Answered(s) THEN [req[s] EXCEPT !.at = "refused"] ELSE req[s]
      BY DEF Crash
    <2>2. CASE s = Late
      BY <2>1, <2>2 DEF InTheMiddle, Busy, Nothing
    <2>3. CASE s # Late /\ Busy(s) /\ ~Answered(s)
      <3>1. req'[s].at = "refused"
        BY <2>1, <2>3 DEF TypeOK, Requests
      <3> QED
        BY <3>1 DEF InTheMiddle
    <2>4. CASE s # Late /\ ~(Busy(s) /\ ~Answered(s))
      BY <2>1, <2>4 DEF InTheMiddle, Busy, Answered
    <2> QED
      BY <2>2, <2>3, <2>4
  <1>2. MiddlesStay /\ SendsOpen'
    BY <1>1 DEF MiddlesStay, SendsOpen, Sending
  <1>3. CodesStay
    BY DEF CodesStay, Crash, TypeOK
  <1> QED
    BY <1>2, <1>3, CodeFrame

LEMMA InitCodes == Init => CodeInv
  <1> SUFFICES ASSUME Init PROVE CodeInv
    OBVIOUS
  <1>1. \A s \in Slots : ~InTheMiddle(s)
    BY DEF Init, InTheMiddle, Busy, Nothing
  <1>2. CodesInOrder /\ LatestStands /\ FailedSendLeavesNothing
    BY DEF Init, CodesInOrder, LatestStands, FailedSendLeavesNothing
  <1> QED
    BY <1>1, <1>2 DEF CodeInv, MiddleKnown, MiddlesCross, SendsApart, SendsOpen, Sending

LEMMA NextCodes == TypeOK /\ CodeInv /\ [Next]_vars => CodeInv'
  <1> SUFFICES ASSUME TypeOK, CodeInv, [Next]_vars PROVE CodeInv'
    OBVIOUS
  <1>1. ASSUME req' = req, UNCHANGED <<code, issued, used, crossed, mail>> PROVE CodeInv'
    <2>1. \A s \in Slots : InTheMiddle(s)' => MiddleStays(s, s)
      BY <1>1 DEF MiddleStays, InTheMiddle, Busy, Is, Sending
    <2> QED
      BY <1>1, <2>1, StaysSimple, StillFrame
  <1>2. ASSUME NEW s \in Slots, req' = [req EXCEPT ![s] = Nothing],
               UNCHANGED <<code, issued, used, crossed, mail>> PROVE CodeInv'
    <2>1. \A d \in Slots : InTheMiddle(d)' => MiddleStays(d, d)
      BY <1>2 DEF MiddleStays, InTheMiddle, Busy, Is, Sending, Nothing, TypeOK
    <2> QED
      BY <1>2, <2>1, StaysSimple, StillFrame
  <1>3. ASSUME NEW f \in Forms, Open(f) \/ Back(f) \/ CompleteLogin(f) PROVE CodeInv'
    BY <1>1, <1>3 DEF Open, Back, CompleteLogin
  <1>4. ASSUME NEW f \in Forms, Receive(f) PROVE CodeInv'
    BY <1>2, <1>4 DEF Receive
  <1>5. ASSUME NEW f \in Forms, Lose(f) PROVE CodeInv'
    BY <1>5, LoseStays, StillFrame DEF Lose
  <1>6. ASSUME NEW f \in Forms, HandleSendCode(f) PROVE CodeInv'
    BY <1>6, AskStays, StillFrame DEF HandleSendCode
  <1>7. ASSUME NEW f \in Forms, HandleVerifyCode(f) PROVE CodeInv'
    BY <1>7, AskStays, StillFrame DEF HandleVerifyCode
  <1>8. ASSUME NEW f \in Forms, HandleResetPassword(f) PROVE CodeInv'
    BY <1>8, AskStays, StillFrame DEF HandleResetPassword
  <1>9. ASSUME NEW f \in Forms, HandlePasswordSubmit(f) PROVE CodeInv'
    BY <1>9, AskStays, StillFrame DEF HandlePasswordSubmit
  <1>10. ASSUME NEW s \in Slots, VerifyResetCode(s) PROVE CodeInv'
    BY <1>10, GoesStays, StillFrame DEF VerifyResetCode, Stages
  <1>11. ASSUME NEW s \in Slots, CheckReset(s) PROVE CodeInv'
    <2>1. CASE MayReset(req[s].code)
      BY <1>11, <2>1, CheckResetInv
    <2>2. CASE ~MayReset(req[s].code)
      BY <1>11, <2>2, GoesStays, StillFrame DEF CheckReset, Stages
    <2> QED
      BY <2>1, <2>2
  <1>12. ASSUME NEW s \in Slots, CheckChange(s) \/ SaveChange(s) PROVE CodeInv'
    BY <1>12, GoesStays, StillFrame DEF CheckChange, SaveChange, Is, Stages
  <1>13. ASSUME NEW c \in Codes, Arrive(c) \/ Expire(c) PROVE CodeInv'
    BY <1>1, <1>13 DEF Arrive, Expire
  <1>14. CASE LateEnds
    BY <1>2, <1>14 DEF LateEnds
  <1>15. CASE UNCHANGED vars
    BY <1>1, <1>15 DEF vars
  <1> QED
    BY <1>3, <1>4, <1>5, <1>6, <1>7, <1>8, <1>9, <1>10, <1>11, <1>12, <1>13, <1>14, <1>15,
       IssueCodeInv, RevertInv, SaveResetInv, SendMailInv, CrashInv DEF Next

LEMMA CodesHold == Spec => []CodeInv
  BY InitCodes, NextCodes, RecoveryTypeCorrect, PTL DEF Spec

\* What a failed send leaves in the row is no code that counts, however requests
\* cross and wherever the server stops.
THEOREM FailedSendLeavesNothingAlways == Spec => []FailedSendLeavesNothing
  BY CodesHold, PTL DEF CodeInv

\* The latest code that was reported sent is the one in the row.
THEOREM SentCodeIsAlwaysGood == Spec => []SentCodeIsGood
  <1>1. TypeOK /\ CodeInv => SentCodeIsGood
    BY DEF CodeInv, LatestStands, SentCodeIsGood, TypeOK
  <1> QED
    BY <1>1, CodesHold, RecoveryTypeCorrect, PTL

\* No code sets a password twice, or after it was replaced or taken back, unless
\* requests cross.
THEOREM CodesWorkOnce == Spec => CodeWorksOnce
  <1> DEFINE Once == \A c \in Codes \ crossed : used'[c] # used[c] => code = c /\ used[c] = 0
  <1>1. TypeOK /\ CodeInv /\ [Next]_vars => [Once]_vars
    <2> SUFFICES ASSUME TypeOK, CodeInv, Next, NEW c \in Codes \ crossed, used'[c] # used[c]
                 PROVE  code = c /\ used[c] = 0
      OBVIOUS
    <2>1. PICK s \in Slots : SaveReset(s)
      BY DEF Next, Open, Back, CompleteLogin, Receive, Lose, HandleSendCode, HandleVerifyCode,
             HandleResetPassword, HandlePasswordSubmit, IssueCode, SendMail, Revert,
             VerifyResetCode, CheckReset, CheckChange, SaveChange, Arrive, Expire, LateEnds, Crash
    <2>2. req[s].code = c
      BY <2>1 DEF SaveReset, TypeOK
    <2>3. InTheMiddle(s) /\ Is(s, "reset", "passed")
      BY <2>1 DEF SaveReset, InTheMiddle, Busy, Is
    <2>4. code = c
      BY <2>2, <2>3 DEF CodeInv, MiddleKnown
    <2> QED
      BY <2>4 DEF CodeInv, CodesInOrder
  <1> QED
    BY <1>1, CodesHold, RecoveryTypeCorrect, PTL DEF Spec, CodeWorksOnce

-----------------------------------------------------------------------------
(* Passwords *)

\* The slots that change the password are those they were, at the same stage.
LEMMA WordFrame ==
    ASSUME WordInv, UNCHANGED <<password, announced>>,
           \A s \in Slots : SetsPassword(s)' =>
               /\ SetsPassword(s)
               /\ req'[s].new = req[s].new
               /\ req'[s].at = "ok" => req[s].at = "ok" \/ req[s].new = Blank,
           \A s \in Slots : SetsPassword(s) /\ req[s].at = "ok" /\ announced # Unknown
               => SetsPassword(s)' /\ req'[s].at = "ok"
    PROVE  WordInv'
  <1>1. OneChange' /\ Done'
    BY DEF WordInv, OneChange, Done
  <1>2. NotYet' /\ LateLost'
    BY DEF WordInv, NotYet, LateLost
  <1> QED
    BY <1>1, <1>2 DEF WordInv

\* A request that does not change the password, or goes on without an answer "ok".
LEMMA GoesWord ==
    ASSUME NEW s \in Slots, NEW at \in Stages, TypeOK, WordInv, Goes(s, at),
           UNCHANGED <<password, announced>>, req[s].at # "ok",
           ~SetsPassword(s) \/ at # "ok" \/ req[s].new = Blank
    PROVE  WordInv'
  <1>1. \A d \in Slots : d # s => req'[d] = req[d]
    BY DEF Goes, TypeOK
  <1>2. req'[s].at = at /\ req'[s].kind = req[s].kind /\ req'[s].new = req[s].new
    BY DEF Goes, TypeOK, Requests
  <1> QED
    BY <1>1, <1>2, WordFrame DEF SetsPassword

\* A request that has changed the password.
LEMMA SavesWord ==
    ASSUME NEW s \in Slots, TypeOK, WordInv, Goes(s, "ok"), SetsPassword(s),
           password' = req[s].new, announced' = announced
    PROVE  WordInv'
  <1>1. \A d \in Slots : d # s => req'[d] = req[d]
    BY DEF Goes, TypeOK
  <1>2. req'[s].at = "ok" /\ req'[s].kind = req[s].kind /\ req'[s].new = req[s].new
    BY DEF Goes, TypeOK, Requests
  <1>3. OneChange'
    BY <1>1, <1>2 DEF WordInv, OneChange, SetsPassword
  <1>4. Done'
    BY <1>1, <1>2 DEF WordInv, OneChange, Done, SetsPassword
  <1>5. NotYet'
    BY <1>2 DEF NotYet, SetsPassword
  <1>6. LateLost'
    BY <1>1, <1>2 DEF WordInv, LateLost, SetsPassword
  <1> QED
    BY <1>3, <1>4, <1>5, <1>6 DEF WordInv

LEMMA AskWord ==
    ASSUME NEW f \in Forms, NEW k \in {"send", "verify", "reset", "change"}, NEW c, NEW v, NEW w,
           TypeOK, WordInv, Ask(f, k, c, v, w), password' = password,
           \/ k \in {"send", "verify"} /\ announced' = announced
           \/ Doubt(AlsoChanges)
    PROVE  WordInv'
  <1>1. \A d \in Slots : d # f => req'[d] = req[d]
    BY DEF Ask, TypeOK
  <1>2. req'[f].kind = k /\ req'[f].at = "sent" /\ ~SetsPassword(f)
    BY DEF Ask, TypeOK, Busy, SetsPassword
  <1>3. announced' # Unknown =>
            /\ announced' = announced
            /\ \A s, d \in Slots : SetsPassword(s)' /\ SetsPassword(d)' => s = d
    BY <1>1, <1>2 DEF WordInv, OneChange, Doubt, AlsoChanges, SetsPassword
  <1>4. OneChange'
    BY <1>3 DEF OneChange
  <1>5. NotYet'
    BY <1>1, <1>2, <1>3 DEF WordInv, NotYet, SetsPassword
  <1>6. Done'
    BY <1>1, <1>2, <1>3 DEF WordInv, Done, SetsPassword
  <1>7. LateLost'
    BY <1>1, RecoveryAssumption DEF WordInv, LateLost, SetsPassword, Doubt
  <1> QED
    BY <1>4, <1>5, <1>6, <1>7 DEF WordInv

LEMMA ReceiveWord ==
    ASSUME NEW f \in Forms, TypeOK, WordInv, Receive(f)
    PROVE  WordInv'
  <1>1. \A d \in Slots : d # f => req'[d] = req[d]
    BY DEF Receive, TypeOK
  <1>2. ~SetsPassword(f)' /\ password' = password
    BY DEF Receive, TypeOK, SetsPassword, Nothing
  <1>3. CASE SetsPassword(f) /\ req[f].at = "ok" /\ announced # Unknown
    <2>1. announced' = req[f].new
      BY <1>3 DEF Receive
    <2>2. \A d \in Slots : ~SetsPassword(d)'
      BY <1>1, <1>2, <1>3 DEF WordInv, OneChange, SetsPassword
    <2>3. announced' # Blank => password' = announced'
      BY <2>1, <1>2, <1>3 DEF WordInv, Done
    <2> QED
      BY <2>2, <2>3 DEF WordInv, OneChange, NotYet, Done, LateLost
  <1>4. CASE ~(SetsPassword(f) /\ req[f].at = "ok" /\ announced # Unknown)
    <2>1. announced' = announced
      BY <1>4 DEF Receive
    <2> QED
      BY <2>1, <1>1, <1>2, <1>4, WordFrame DEF SetsPassword
  <1> QED
    BY <1>3, <1>4

LEMMA LoseWord ==
    ASSUME NEW f \in Forms, TypeOK, WordInv, Lose(f)
    PROVE  WordInv'
  <1>1. CASE SetsPassword(f)
    BY <1>1 DEF Lose, Doubt, WordInv, OneChange, NotYet, Done, LateLost
  <1>2. CASE ~SetsPassword(f)
    <2>1. PICK l \in {req[Late]} \cup {r \in {req[f]} : ~Busy(Late) /\ ~Answered(f)} :
              req' = [req EXCEPT ![f] = Nothing, ![Late] = l]
      BY DEF Lose
    <2>2. f # Late
      BY RecoveryAssumption
    <2>3. req'[f] = Nothing /\ req'[Late] = l /\ \A s \in Forms : s # f => req'[s] = req[s]
      BY <2>1, <2>2, RecoveryAssumption DEF TypeOK
    <2>4. ~SetsPassword(f)' /\ UNCHANGED <<password, announced>>
      BY <1>2, <2>3 DEF SetsPassword, Nothing, Lose, Doubt
    <2>5. CASE l = req[Late]
      BY <2>3, <2>4, <2>5, <1>2, WordFrame DEF SetsPassword
    <2>6. CASE l = req[f] /\ ~Busy(Late)
      BY <2>3, <2>4, <2>6, <1>2, WordFrame DEF SetsPassword, Busy
    <2> QED
      BY <2>1, <2>5, <2>6
  <1> QED
    BY <1>1, <1>2

LEMMA CrashWord ==
    ASSUME TypeOK, WordInv, Crash
    PROVE  WordInv'
  <1>1. \A s \in Forms :
            /\ req'[s].kind = req[s].kind /\ req'[s].new = req[s].new
            /\ req[s].at = "ok" <=> req'[s].at = "ok"
    <2> SUFFICES ASSUME NEW s \in Forms
                 PROVE  /\ req'[s].kind = req[s].kind /\ req'[s].new = req[s].new
                        /\ req[s].at = "ok" <=> req'[s].at = "ok"
      OBVIOUS
    <2>1. req'[s] = IF Busy(s) /\ ~Answered(s) THEN [req[s] EXCEPT !.at = "refused"] ELSE req[s]
      BY RecoveryAssumption DEF Crash
    <2> QED
      BY <2>1 DEF TypeOK, Requests, Answered
  <1>2. ~SetsPassword(Late)'
    BY DEF Crash, SetsPassword, Nothing
  <1>3. SetsPassword(Late) => announced = Unknown
    BY DEF WordInv, LateLost
  <1> QED
    BY <1>1, <1>2, <1>3, WordFrame DEF SetsPassword, Crash

LEMMA InitWord == Init => WordInv
  BY DEF Init, WordInv, OneChange, NotYet, Done, LateLost, SetsPassword, Nothing

LEMMA NextWord == TypeOK /\ WordInv /\ [Next]_vars => WordInv'
  <1> SUFFICES ASSUME TypeOK, WordInv, [Next]_vars PROVE WordInv'
    OBVIOUS
  <1>1. ASSUME UNCHANGED <<req, password, announced>> PROVE WordInv'
    BY <1>1, WordFrame DEF SetsPassword
  <1>2. ASSUME NEW f \in Forms, Open(f) \/ Back(f) \/ CompleteLogin(f) PROVE WordInv'
    BY <1>1, <1>2 DEF Open, Back, CompleteLogin
  <1>3. ASSUME NEW f \in Forms, HandleSendCode(f) PROVE WordInv'
    BY <1>3, AskWord DEF HandleSendCode
  <1>4. ASSUME NEW f \in Forms, HandleVerifyCode(f) PROVE WordInv'
    BY <1>4, AskWord DEF HandleVerifyCode
  <1>5. ASSUME NEW f \in Forms, HandleResetPassword(f) PROVE WordInv'
    BY <1>5, AskWord DEF HandleResetPassword
  <1>6. ASSUME NEW f \in Forms, HandlePasswordSubmit(f) PROVE WordInv'
    BY <1>6, AskWord DEF HandlePasswordSubmit
  <1>7. ASSUME NEW s \in Slots, IssueCode(s) PROVE WordInv'
    <2>1. \A d \in Slots : d # s => req'[d] = req[d]
      BY <1>7 DEF IssueCode, TypeOK
    <2>2. ~SetsPassword(s) /\ ~SetsPassword(s)'
      BY <1>7 DEF IssueCode, TypeOK, Requests, Is, SetsPassword
    <2> QED
      BY <1>7, <2>1, <2>2, WordFrame DEF SetsPassword, IssueCode
  <1>8. ASSUME NEW s \in Slots, SendMail(s) \/ Revert(s) \/ VerifyResetCode(s) PROVE WordInv'
    <2>1. ~SetsPassword(s) /\ req[s].at # "ok"
      BY <1>8 DEF SendMail, Revert, VerifyResetCode, Is, SetsPassword
    <2>2. PICK at \in Stages : Goes(s, at)
      BY <1>8 DEF SendMail, Revert, VerifyResetCode, Stages
    <2> QED
      BY <1>8, <2>1, <2>2, GoesWord DEF SendMail, Revert, VerifyResetCode
  <1>9. ASSUME NEW s \in Slots, CheckReset(s) PROVE WordInv'
    BY <1>9, GoesWord DEF CheckReset, Is, Stages
  <1>10. ASSUME NEW s \in Slots, CheckChange(s) PROVE WordInv'
    BY <1>10, GoesWord DEF CheckChange, Is, Stages
  <1>11. ASSUME NEW s \in Slots, SaveReset(s) \/ SaveChange(s) PROVE WordInv'
    BY <1>11, SavesWord DEF SaveReset, SaveChange, Is, SetsPassword
  <1>12. ASSUME NEW c \in Codes, Arrive(c) \/ Expire(c) PROVE WordInv'
    BY <1>1, <1>12 DEF Arrive, Expire
  <1>13. CASE LateEnds
    <2>1. ~SetsPassword(Late)' /\ \A s \in Slots : s # Late => req'[s] = req[s]
      BY <1>13 DEF LateEnds, SetsPassword, Nothing, TypeOK
    <2>2. SetsPassword(Late) => announced = Unknown
      BY DEF WordInv, LateLost
    <2> QED
      BY <1>13, <2>1, <2>2, WordFrame DEF LateEnds, SetsPassword
  <1>14. CASE UNCHANGED vars
    BY <1>1, <1>14 DEF vars
  <1> QED
    BY <1>2, <1>3, <1>4, <1>5, <1>6, <1>7, <1>8, <1>9, <1>10, <1>11, <1>12, <1>13, <1>14,
       ReceiveWord, LoseWord, CrashWord DEF Next

\* A password that a page calls set is the password, while nothing was lost.
THEOREM AnnouncedIsAlwaysThePassword == Spec => []AnnouncedIsSet
  <1>1. WordInv => AnnouncedIsSet
    BY DEF WordInv, NotYet, AnnouncedIsSet, AlsoChanges
  <1> QED
    BY <1>1, InitWord, NextWord, RecoveryTypeCorrect, PTL DEF Spec
=============================================================================

------------------------------ MODULE Recovery ------------------------------
(***************************************************************************)
(* The password of one account: reset codes by mail, and the change of the *)
(* password by its owner (backend/src/auth/auth.service.ts, sendResetCode, *)
(* verifyResetCode, resetPassword; backend/src/user/user.service.ts,       *)
(* updateSelfProfile; backend/src/common/email.service.ts), and the forms  *)
(* of frontend/src/components (LoginForm, employee/ProfileSection).        *)
(*                                                                         *)
(* Codes and passwords are numbers in the order in which they were made    *)
(* up; a password may also be nothing but spaces.  Each form has one       *)
(* request; one that its client gave up may still be carried out: it then  *)
(* is the late one.                                                        *)
(***************************************************************************)
EXTENDS Naturals

CONSTANTS
    Forms,       \* browsers in which the owner of the account sits
    Late,        \* the request that no client waits for any more
    MaxCodes,    \* BOUND: codes made up in a behaviour
    MaxWords,    \* BOUND: passwords made up in a behaviour
    MaxOps       \* BOUND: requests, losses and crashes in a behaviour

ASSUME RecoveryAssumption ==
    /\ MaxCodes \in Nat
    /\ MaxWords \in Nat
    /\ MaxOps \in Nat
    /\ Late \notin Forms

NoCode == 0
Codes == 1 .. MaxCodes
Blank == MaxWords + 1                    \* a password of spaces
Passwords == 0 .. Blank
Unknown == MaxWords + 2
Slots == Forms \cup {Late}
Steps == {"login", "email", "code", "reset", "in"}
Stages == {"sent", "mailing", "failing", "passed", "ok", "refused"}
Requests == [kind: {"none", "send", "verify", "reset", "change"}, at: Stages,
             code: Codes \cup {NoCode}, old: Passwords, new: Passwords]
FormStates == [step: Steps, code: Codes \cup {NoCode}]
Nothing == [kind |-> "none", at |-> "sent", code |-> NoCode, old |-> 0, new |-> 0]

VARIABLES
    password,    \* hashedPassword of the row of users
    code,        \* resetPasswordCode of that row
    expired,     \* codes whose five minutes are over
    issued,      \* codes made up so far
    words,       \* passwords made up so far
    provider,    \* how the server sends mail
    box,         \* codes that have arrived in the mailbox of the owner
    form,        \* per browser: the step of its form, the code typed there
    req,         \* per slot: the request in progress
    ops,         \* requests, losses and crashes so far
    mail,        \* history: per code, what the provider has reported
    used,        \* history: per code, how often it has set the password
    crossed,     \* history: codes of requests that were carried out together
    announced    \* history: the password that a page last called set; unknown
                 \* from when a change is lost or crosses another

row == <<password, code>>
world == <<expired, provider, box>>
made == <<issued, words>>
vars == <<row, world, made, form, req, ops, mail, used, crossed, announced>>

TypeOK ==
    /\ password \in Passwords
    /\ code \in Codes \cup {NoCode}
    /\ expired \subseteq Codes /\ box \subseteq Codes
    /\ crossed \subseteq Codes \cup {NoCode}
    /\ issued \in 0 .. MaxCodes /\ words \in 0 .. MaxWords /\ ops \in 0 .. MaxOps
    /\ provider \in {"log", "real"}
    /\ form \in [Forms -> FormStates]
    /\ req \in [Slots -> Requests]
    /\ mail \in [Codes -> {"none", "sending", "sent", "failed", "cut"}]
    /\ used \in [Codes -> Nat]
    /\ announced \in Passwords \cup {Unknown}

\* EMAIL_PROVIDER, or an incomplete configuration, may leave the provider that
\* only writes to the log.
Init ==
    /\ password = 0 /\ announced = 0
    /\ code = NoCode
    /\ expired = {} /\ box = {} /\ crossed = {}
    /\ issued = 0 /\ words = 0 /\ ops = 0
    /\ provider \in {"log", "real"}
    /\ form = [f \in Forms |-> [step |-> "login", code |-> NoCode]]
    /\ req = [s \in Slots |-> Nothing]
    /\ mail = [c \in Codes |-> "none"]
    /\ used = [c \in Codes |-> 0]

-----------------------------------------------------------------------------
Act == ops < MaxOps /\ ops' = ops + 1
Busy(s) == req[s].kind # "none"
Answered(s) == req[s].at \in {"ok", "refused"}
SetsPassword(s) == req[s].kind \in {"reset", "change"}
Is(s, kind, at) == req[s].kind = kind /\ req[s].at = at

\* Between their first and their last look at the code of the row.
InTheMiddle(s) == Busy(s) /\ req[s].kind # "change" /\ req[s].at \in {"mailing", "failing", "passed"}
CrossedBy(s, c) ==
    LET others == {d \in Slots \ {s} : InTheMiddle(d)} IN
    IF others = {} THEN crossed ELSE crossed \cup {c} \cup {req[d].code : d \in others}

-----------------------------------------------------------------------------
(* The forms.  A form has one request at a time (loading); the buttons that *)
(* lead back to the sign-in stay enabled meanwhile.                         *)

Ask(f, kind, c, old, new) ==
    /\ ~Busy(f)
    /\ req' = [req EXCEPT ![f] =
          [kind |-> kind, at |-> "sent", code |-> c, old |-> old, new |-> new]]
    /\ Act

Open(f) ==
    /\ form[f].step = "login" /\ ~Busy(f)
    /\ form' = [form EXCEPT ![f].step = "email"]
    /\ UNCHANGED <<row, world, made, req, ops, mail, used, crossed, announced>>

Back(f) ==
    /\ form[f].step \in {"email", "code", "reset"}
    /\ form' = [form EXCEPT ![f].step = "login"]
    /\ UNCHANGED <<row, world, made, req, ops, mail, used, crossed, announced>>

HandleSendCode(f) ==
    /\ form[f].step = "email"
    /\ Ask(f, "send", NoCode, 0, 0)
    /\ UNCHANGED <<row, world, made, form, mail, used, crossed, announced>>

HandleVerifyCode(f) ==
    /\ form[f].step = "code"
    /\ \E c \in box :
         /\ form' = [form EXCEPT ![f].code = c]
         /\ Ask(f, "verify", c, 0, 0)
    /\ UNCHANGED <<row, world, made, mail, used, crossed, announced>>

\* A new password: one that nobody has used before, or six spaces.
Choose(w) == w = Blank \/ (w = words + 1 /\ words < MaxWords)
Chosen(w) == words' = IF w = Blank THEN words ELSE w

\* Two requests that change the password may be carried out in either order.
Doubt(reason) == announced' = IF reason THEN Unknown ELSE announced
AlsoChanges == \E s \in Slots : SetsPassword(s)

HandleResetPassword(f) ==
    /\ form[f].step = "reset"
    /\ \E w \in Passwords :
         /\ Choose(w) /\ Chosen(w)
         /\ Ask(f, "reset", form[f].code, 0, w)
    /\ Doubt(AlsoChanges)
    /\ UNCHANGED <<row, world, issued, form, mail, used, crossed>>

HandlePasswordSubmit(f) ==
    /\ form[f].step = "in"
    /\ \E w \in Passwords, old \in 0 .. words :
         /\ Choose(w) /\ Chosen(w)
         /\ Ask(f, "change", NoCode, old, w)
    /\ Doubt(AlsoChanges)
    /\ UNCHANGED <<row, world, issued, form, mail, used, crossed>>

\* completeLogin: the form asks for more than spaces.
SignsIn(w) == w = password /\ w # Blank
CompleteLogin(f) ==
    /\ form[f].step = "login" /\ ~Busy(f)
    /\ \E w \in 0 .. words : SignsIn(w)
    /\ form' = [form EXCEPT ![f].step = "in"]
    /\ UNCHANGED <<row, world, made, req, ops, mail, used, crossed, announced>>

\* What the form does with an answer, also when its user has gone back since.
StepAfter(f) ==
    CASE req[f].kind = "send"   -> [form[f] EXCEPT !.step = "code"]
      [] req[f].kind = "verify" -> [form[f] EXCEPT !.step = "reset"]
      [] req[f].kind = "reset"  -> [step |-> "login", code |-> NoCode]
      [] OTHER                  -> form[f]
Receive(f) ==
    /\ Busy(f) /\ Answered(f)
    /\ req' = [req EXCEPT ![f] = Nothing]
    /\ IF req[f].at = "ok" THEN
          /\ form' = [form EXCEPT ![f] = StepAfter(f)]
          /\ announced' = IF SetsPassword(f) /\ announced # Unknown THEN req[f].new ELSE announced
       ELSE UNCHANGED <<form, announced>>
    /\ UNCHANGED <<row, world, made, ops, mail, used, crossed>>

-----------------------------------------------------------------------------
(* The server *)

Goes(s, at) == req' = [req EXCEPT ![s].at = at]

\* sendResetCode makes up a code and stores it over any earlier one ...
StoredCodeMutant(c) == IF code \in {NoCode} \cup expired THEN c ELSE code
StoredCode(c) == c
IssueCode(s) ==
    /\ Is(s, "send", "sent") /\ issued < MaxCodes
    /\ LET c == issued + 1 IN
         /\ issued' = c /\ code' = StoredCode(c)
         /\ req' = [req EXCEPT ![s].at = "mailing", ![s].code = c]
         /\ mail' = [mail EXCEPT ![c] = "sending"]
         /\ crossed' = CrossedBy(s, c)
    /\ UNCHANGED <<password, words, world, form, ops, used, announced>>

\* ... hands it to the provider, which reports success or failure and never throws ...
Reports == IF provider = "log" THEN {FALSE} ELSE BOOLEAN
SendMail(s) ==
    /\ Is(s, "send", "mailing")
    /\ \E sent \in Reports :
         /\ Goes(s, IF sent THEN "ok" ELSE "failing")
         /\ mail' = [mail EXCEPT ![req[s].code] = IF sent THEN "sent" ELSE @]
    /\ UNCHANGED <<row, world, made, form, ops, used, crossed, announced>>

\* ... and takes back whatever code the row has, when the mail has failed.
RevertedMutant(s) == code
Reverted(s) == NoCode
Revert(s) ==
    /\ Is(s, "send", "failing")
    /\ code' = Reverted(s)
    /\ mail' = [mail EXCEPT ![req[s].code] = "failed"]
    /\ Goes(s, "refused")
    /\ UNCHANGED <<password, made, world, form, ops, used, crossed, announced>>

CodeIsValid(c) == c # NoCode /\ code = c /\ c \notin expired
VerifyResetCode(s) ==
    /\ Is(s, "verify", "sent")
    /\ Goes(s, IF CodeIsValid(req[s].code) THEN "ok" ELSE "refused")
    /\ UNCHANGED <<row, world, made, form, ops, mail, used, crossed, announced>>

\* resetPassword verifies the code again, makes the hash, and then stores it
\* and clears the code without another look at the row.
MayResetMutant(c) == code # NoCode /\ c # NoCode
MayReset(c) == CodeIsValid(c)
CheckReset(s) ==
    /\ Is(s, "reset", "sent")
    /\ IF MayReset(req[s].code)
       THEN Goes(s, "passed") /\ crossed' = CrossedBy(s, req[s].code)
       ELSE Goes(s, "refused") /\ crossed' = crossed
    /\ UNCHANGED <<row, world, made, form, ops, mail, used, announced>>

ClearedCode == NoCode
SaveReset(s) ==
    /\ Is(s, "reset", "passed")
    /\ password' = req[s].new /\ code' = ClearedCode
    /\ used' = [used EXCEPT ![req[s].code] = @ + 1]
    /\ Goes(s, "ok")
    /\ UNCHANGED <<world, made, form, ops, mail, crossed, announced>>

\* updateSelfProfile takes a password of spaces for none and answers with success.
KnowsPassword(old) == old = password
CheckChangeMutant(s) ==
    /\ Is(s, "change", "sent")
    /\ Goes(s, IF req[s].new # Blank /\ KnowsPassword(req[s].old) THEN "passed" ELSE "ok")
    /\ UNCHANGED <<row, world, made, form, ops, mail, used, crossed, announced>>
CheckChange(s) ==
    /\ Is(s, "change", "sent")
    /\ Goes(s, IF req[s].new = Blank THEN "ok"
               ELSE IF KnowsPassword(req[s].old) THEN "passed" ELSE "refused")
    /\ UNCHANGED <<row, world, made, form, ops, mail, used, crossed, announced>>

SaveChange(s) ==
    /\ Is(s, "change", "passed")
    /\ password' = req[s].new
    /\ Goes(s, "ok")
    /\ UNCHANGED <<code, world, made, form, ops, mail, used, crossed, announced>>

-----------------------------------------------------------------------------
(* What happens around them *)

\* A mail may arrive whatever its provider has reported, late, or never.
Arrive(c) ==
    /\ provider = "real" /\ c <= issued /\ c \notin box
    /\ box' = box \cup {c}
    /\ UNCHANGED <<row, made, expired, provider, form, req, ops, mail, used, crossed, announced>>

\* Five minutes are over.
Expire(c) ==
    /\ c <= issued /\ c \notin expired
    /\ \A d \in 1 .. (c - 1) : d \in expired
    /\ expired' = expired \cup {c}
    /\ UNCHANGED <<row, made, provider, box, form, req, ops, mail, used, crossed, announced>>

\* The client gives up after 15 seconds, or its page is closed; the server may
\* carry the request out later.
Lose(f) ==
    /\ Busy(f) /\ Act
    /\ \E l \in {req[Late]} \cup {r \in {req[f]} : ~Busy(Late) /\ ~Answered(f)} :
         /\ Answered(f) \/ l = req[f]
         /\ req' = [req EXCEPT ![f] = Nothing, ![Late] = l]
    /\ form' \in {form, [form EXCEPT ![f] = [step |-> "login", code |-> NoCode]]}
    /\ Doubt(SetsPassword(f))
    /\ UNCHANGED <<row, world, made, mail, used, crossed>>

LateEnds ==
    /\ Busy(Late) /\ Answered(Late)
    /\ req' = [req EXCEPT ![Late] = Nothing]
    /\ UNCHANGED <<row, world, made, form, ops, mail, used, crossed, announced>>

\* The process ends between two statements; clients get an error.
Crash ==
    /\ Act
    /\ \E s \in Slots : Busy(s) /\ ~Answered(s)
    /\ req' = [s \in Slots |->
                 IF s = Late THEN Nothing
                 ELSE IF Busy(s) /\ ~Answered(s) THEN [req[s] EXCEPT !.at = "refused"] ELSE req[s]]
    /\ mail' = [c \in Codes |-> IF mail[c] = "sending" THEN "cut" ELSE mail[c]]
    /\ UNCHANGED <<row, world, made, form, used, crossed, announced>>

Next ==
    \/ \E f \in Forms :
         \/ Open(f) \/ Back(f) \/ CompleteLogin(f) \/ Receive(f) \/ Lose(f)
         \/ HandleSendCode(f) \/ HandleVerifyCode(f)
         \/ HandleResetPassword(f) \/ HandlePasswordSubmit(f)
    \/ \E s \in Slots :
         \/ IssueCode(s) \/ SendMail(s) \/ Revert(s) \/ VerifyResetCode(s)
         \/ CheckReset(s) \/ SaveReset(s) \/ CheckChange(s) \/ SaveChange(s)
    \/ \E c \in Codes : Arrive(c) \/ Expire(c)
    \/ LateEnds
    \/ Crash

Spec == Init /\ [][Next]_vars

-----------------------------------------------------------------------------
(* Properties *)

\* "A failed send does not leave an active OTP code": the code of the row is
\* one whose mail is on its way or was reported sent, or the server stopped on
\* the way, however sends, resets and lost answers cross.
FailedSendLeavesNothing ==
    code # NoCode => mail[code] \in {"sending", "sent", "cut"}

\* The latest code, once its mail is reported sent, is the one that counts until
\* it is used or runs out, unless another request was carried out meanwhile.
SentCodeIsGood ==
    \A c \in Codes :
        mail[c] = "sent" /\ c = issued /\ c \notin expired \cup crossed /\ used[c] = 0
            => code = c

\* A code sets a password once and only while it is the code of the row: one
\* that was replaced, taken back or used does nothing, unless requests cross.
CodeWorksOnce ==
    [][\A c \in Codes \ crossed : used'[c] # used[c] => code = c /\ used[c] = 0]_vars

\* When no change is on its way and none was lost or crossed another, the
\* password is the one that a page last called set; one of spaces excepted.
AnnouncedIsSet ==
    announced \notin {Blank, Unknown} /\ ~AlsoChanges => password = announced

\* The same for every password: ProfileSection.tsx says of one of spaces too
\* that it has been set.
AnnouncedIsAlwaysSet ==
    announced # Unknown /\ ~AlsoChanges => password = announced
=============================================================================

---------------------------- MODULE SessionProofs ---------------------------
(***************************************************************************)
(* Theorems about Session, for any number of tabs, of sessions issued and  *)
(* of actions of people: unless something came between them, the browser   *)
(* and the server keep the same session, and the browser does not lose it. *)
(***************************************************************************)
EXTENDS Session, TLAPS

-----------------------------------------------------------------------------
(* Calls *)

\* What a slot may hold: which calls are sent from it, and how each may be answered.
Fits(c, x) ==
    /\ x \in Call
    /\ \A t \in Tabs :
         /\ c = <<t, "shared">> => x.kind \in {"none", "refresh"}
         /\ c = <<t, "verify">> => x.kind \in {"none", "refresh", "check"}
         /\ c = <<t, "user">> => x.kind \in {"none", "login", "logout"}
    /\ x.at = "passed" => x.kind \in {"login", "refresh"}
    /\ x.at = "inactive" => x.kind = "check"
    /\ x.at = "unauthorized" => x.kind \in {"check", "logout"}
    /\ x.kind \in {"refresh", "check", "logout"} => x.sess # None

\* A session that a call has just brought is still good.
JustBrought(x, ages, n) ==
    /\ x.kind \in {"login", "refresh"} /\ x.at = "ok" =>
         x.sess # None /\ x.sess <= n /\ ages[x.sess] = 0
    /\ x.kind = "check" /\ x.last => ages[x.sess] = 0

Calls == \A c \in Slots : Fits(c, call[c]) /\ JustBrought(call[c], age, issued)

\* A request that is repeated carries a session that was just issued.
Repeated(carried, ages) == \A r \in carried : r[2] => r[1] # None /\ ages[r[1]] = 0

Recent ==
    /\ \A n \in Sessions : n > issued => age[n] = 0
    /\ \A t \in Tabs : Repeated(tab[t].carried, age)

Orderly == TypeOK /\ Calls /\ Recent

LEMMA Numbers ==
    /\ MaxTokens \in Nat /\ MaxOps \in Nat /\ None = 0 /\ Sessions \subseteq Nat
    /\ \A n \in Sessions : n # None /\ n \in 0..MaxTokens
BY SessionAssumption DEF None, Sessions

LEMMA SlotsOfTabs ==
    /\ Late \in Slots
    /\ \A t \in Tabs : /\ <<t, "shared">> \in Slots /\ <<t, "verify">> \in Slots /\ <<t, "user">> \in Slots
                       /\ <<t, "shared">> # Late /\ <<t, "verify">> # Late /\ <<t, "user">> # Late
                       /\ SlotsOf(t) \subseteq Slots /\ Late \notin SlotsOf(t)
BY SessionAssumption DEF Slots, SlotsOf

LEMMA NoCallFits ==
    ASSUME NEW c
    PROVE  Fits(c, NoCall) /\ NoCall.kind = "none" /\ \A ages, n : JustBrought(NoCall, ages, n)
BY DEF Fits, NoCall, Call, None, JustBrought

\* A call of any slot may become the late one.
LEMMA LateFits ==
    ASSUME NEW c, NEW x, Fits(c, x)
    PROVE  Fits(Late, x)
BY SessionAssumption DEF Fits

LEMMA FreshTab ==
    ASSUME NEW at \in {"home", "login", "entering", "pages"}, NEW sess, NEW ages
    PROVE  Fresh(at, sess) \in Tab /\ Repeated(Fresh(at, sess).carried, ages)
           /\ Fresh(at, sess).at = at /\ Fresh(at, sess).carried = {}
BY DEF Fresh, Tab, Repeated

\* A call that is sent.
LEMMA SentFits ==
    ASSUME NEW c, NEW kind \in {"login", "refresh", "check", "logout"},
           NEW sess \in Sessions \cup {None}, NEW last \in BOOLEAN,
           kind = "login" \/ sess # None,
           \A t \in Tabs : /\ c = <<t, "shared">> => kind \in {"refresh"}
                           /\ c = <<t, "verify">> => kind \in {"refresh", "check"}
                           /\ c = <<t, "user">> => kind \in {"login", "logout"},
           NEW ages, NEW n, kind = "check" /\ last => ages[sess] = 0
    PROVE  /\ Fits(c, Send(kind, sess, last)) /\ JustBrought(Send(kind, sess, last), ages, n)
           /\ Send(kind, sess, last).kind = kind /\ Send(kind, sess, last).at = "sent"
           /\ Send(kind, sess, last).sess = sess /\ Send(kind, sess, last).last = last
<1> DEFINE x == Send(kind, sess, last)
<1>1. /\ x \in Call /\ x.kind = kind /\ x.at = "sent" /\ x.sess = sess /\ x.last = last
  BY DEF Send, Call
<1> HIDE DEF x
<1>2. Fits(c, x)  BY <1>1 DEF Fits
<1>3. JustBrought(x, ages, n)  BY <1>1 DEF JustBrought
<1>4. QED  BY <1>1, <1>2, <1>3 DEF x

\* Calls after a step that changes one of them.
LEMMA OneCall ==
    ASSUME TypeOK, NEW c \in Slots, NEW x, call' = [call EXCEPT ![c] = x]
    PROVE  /\ call' = [d \in Slots |-> call'[d]] /\ call'[c] = x
           /\ \A d \in Slots : d # c => call'[d] = call[d]
BY DEF TypeOK

\* Calls after the browser has given up some: each is as it was or gone, but for the late one.
LEMMA GivenUp ==
    ASSUME TypeOK, NEW cs, cs \subseteq Slots, Abandon(cs)
    PROVE  /\ call' = [d \in Slots |-> call'[d]]
           /\ \A d \in Slots : d # Late => call'[d] = IF d \in cs THEN NoCall ELSE call[d]
           /\ \/ call'[Late] = call[Late]
              \/ \E c \in cs : /\ call'[Late] = call[c] /\ Busy(c) /\ call[c].at \in {"sent", "passed"}
<1>1. PICK l \in {call[Late]} \cup {call[c] : c \in {c \in cs :
                 call[Late] = NoCall /\ Busy(c) /\ call[c].at \in {"sent", "passed"}}} :
        call' = [c \in Slots |-> IF c = Late THEN l ELSE IF c \in cs THEN NoCall ELSE call[c]]
  BY DEF Abandon
<1>2. call'[Late] = l  BY <1>1, SlotsOfTabs
<1>3. QED  BY <1>1, <1>2

\* A step that leaves the server's clock alone keeps order if what is new is in order.
LEMMA CallsNext ==
    ASSUME call' = [d \in Slots |-> call'[d]],
           \A d \in Slots : Fits(d, call'[d]) /\ JustBrought(call'[d], age', issued')
    PROVE  Calls' /\ call' \in [Slots -> Call]
<1>1. \A d \in Slots : call'[d] \in Call  BY DEF Fits
<1>2. call' \in [Slots -> Call]  BY <1>1
<1>3. Calls'  BY DEF Calls, Fits, JustBrought
<1>4. QED  BY <1>2, <1>3

LEMMA CallsAfterOne ==
    ASSUME Orderly, UNCHANGED <<age, issued>>, NEW c \in Slots, NEW x, call' = [call EXCEPT ![c] = x],
           Fits(c, x), JustBrought(x, age, issued)
    PROVE  Calls' /\ call' \in [Slots -> Call]
BY OneCall, CallsNext DEF Orderly, Calls

LEMMA CallsAfterGivingUp ==
    ASSUME Orderly, UNCHANGED <<age, issued>>, NEW cs, cs \subseteq Slots, Abandon(cs)
    PROVE  Calls' /\ call' \in [Slots -> Call]
<1>1. /\ call' = [d \in Slots |-> call'[d]]
      /\ \A d \in Slots : d # Late => call'[d] = IF d \in cs THEN NoCall ELSE call[d]
      /\ call'[Late] = call[Late] \/ \E c \in cs : call'[Late] = call[c]
  BY GivenUp DEF Orderly
<1>2. \A d \in Slots : Fits(d, call[d]) /\ JustBrought(call[d], age, issued)  BY DEF Orderly, Calls
<1>3. ASSUME NEW d \in Slots PROVE Fits(d, call'[d]) /\ JustBrought(call'[d], age', issued')
  BY <1>1, <1>2, NoCallFits, LateFits
<1>4. QED  BY <1>1, <1>3, CallsNext

\* Tabs after a step that changes one of them, or none.
LEMMA OneTab ==
    ASSUME Orderly, UNCHANGED <<age, issued>>, NEW t \in Tabs, NEW x \in Tab,
           Repeated(x.carried, age), tab' = [tab EXCEPT ![t] = x]
    PROVE  Recent' /\ tab' \in [Tabs -> Tab]
<1>1. tab \in [Tabs -> Tab]  BY DEF Orderly, TypeOK
<1>2. \A u \in Tabs : Repeated(tab'[u].carried, age)  BY <1>1 DEF Orderly, Recent
<1>3. Recent'  BY <1>2 DEF Orderly, Recent, Repeated
<1>4. QED  BY <1>1, <1>3

LEMMA SameTabs ==
    ASSUME Orderly, UNCHANGED <<age, issued, tab>>
    PROVE  Recent' /\ tab' \in [Tabs -> Tab]
BY DEF Orderly, Recent, Repeated, TypeOK

LEMMA InitOrderly == Init => Orderly
<1> SUFFICES ASSUME Init PROVE Orderly  OBVIOUS
<1>1. TypeOK
  <2>1. NoCall \in Call  BY DEF NoCall, Call, None
  <2>2. call \in [Slots -> Call]  BY <2>1 DEF Init
  <2>3. tab \in [Tabs -> Tab]  BY DEF Init, Tab
  <2>4. /\ token \in Sessions \cup {None} /\ issued \in 0..MaxTokens
        /\ stored \in Sessions \cup {None} /\ ops \in Nat
    BY Numbers DEF Init
  <2>5. age \in [Sessions -> 0..2]  BY DEF Init
  <2>6. active \in BOOLEAN /\ excused \in BOOLEAN  BY DEF Init
  <2>7. QED  BY <2>2, <2>3, <2>4, <2>5, <2>6 DEF TypeOK
<1>2. Calls  BY NoCallFits DEF Init, Calls
<1>3. Recent  BY DEF Init, Recent, Repeated
<1>4. QED  BY <1>1, <1>2, <1>3 DEF Orderly

\* A step of the server that carries out the call of c without a new session.
LEMMA ServedOrderly ==
    ASSUME Orderly, NEW c \in Slots, NEW at \in {"passed", "ok", "inactive", "unauthorized", "failed"},
           Busy(c), call' = [call EXCEPT ![c].at = at],
           at = "passed" => call[c].kind \in {"login", "refresh"},
           at = "inactive" => call[c].kind = "check",
           at = "unauthorized" => call[c].kind \in {"check", "logout"},
           at = "ok" => call[c].kind \in {"check", "logout"},
           UNCHANGED <<age, issued, tab>>
    PROVE  Calls' /\ call' \in [Slots -> Call] /\ Recent' /\ tab' \in [Tabs -> Tab]
<1> DEFINE x == [call[c] EXCEPT !.at = at]
<1>1. Fits(c, call[c]) /\ JustBrought(call[c], age, issued) /\ call[c] \in Call  BY DEF Orderly, Calls, Fits
<1>2. /\ x \in Call /\ x.kind = call[c].kind /\ x.sess = call[c].sess
      /\ x.last = call[c].last /\ x.at = at
  BY <1>1 DEF Call
<1>3. call' = [call EXCEPT ![c] = x]  OBVIOUS
<1> HIDE DEF x
<1>4. Fits(c, x)  BY <1>1, <1>2 DEF Fits
<1>5. JustBrought(x, age, issued)  BY <1>1, <1>2 DEF JustBrought
<1>6. QED  BY <1>3, <1>4, <1>5, CallsAfterOne, SameTabs

\* A step of the server that issues a session, for the call of c or for another device.
LEMMA MintedFits ==
    ASSUME Orderly, NEW n \in Minted \cap Sessions
    PROVE  /\ n \in Sessions /\ n # None /\ n \in 0..MaxTokens /\ age[n] = 0
           /\ issued <= n /\ n \in Nat /\ issued \in Nat
           /\ \A m \in Sessions : m > n => age[m] = 0
<1>1. issued \in 0..MaxTokens /\ n \in Sessions  BY DEF Orderly, TypeOK
<1>2. n \in Nat /\ n # None /\ n \in 0..MaxTokens /\ issued \in Nat  BY <1>1, Numbers
<1>3. n = issued + 1 \/ (n = issued /\ age[n] = 0)  BY DEF Minted
<1>4. \A m \in Sessions : m > issued => age[m] = 0  BY DEF Orderly, Recent
<1>5. issued <= n /\ age[n] = 0  BY <1>1, <1>2, <1>3, <1>4
<1>6. \A m \in Sessions : m > n => age[m] = 0  BY <1>2, <1>4, <1>5, Numbers
<1>7. QED  BY <1>1, <1>2, <1>5, <1>6

LEMMA IssuedOrderly ==
    ASSUME Orderly, NEW n \in Minted \cap Sessions, issued' = n, UNCHANGED <<age, tab>>,
           call' = [d \in Slots |-> call'[d]],
           \A d \in Slots : \/ call'[d] = call[d]
                            \/ Fits(d, call'[d]) /\ JustBrought(call'[d], age, n)
    PROVE  Calls' /\ call' \in [Slots -> Call] /\ Recent' /\ tab' \in [Tabs -> Tab]
           /\ issued' \in 0..MaxTokens
<1>1. /\ n \in Sessions /\ n # None /\ n \in 0..MaxTokens /\ age[n] = 0
      /\ issued <= n /\ n \in Nat /\ issued \in Nat
      /\ \A m \in Sessions : m > n => age[m] = 0
  BY MintedFits
<1>2. ASSUME NEW d \in Slots PROVE Fits(d, call[d]) /\ JustBrought(call[d], age, n)
  <2>1. Fits(d, call[d]) /\ JustBrought(call[d], age, issued)  BY DEF Orderly, Calls
  <2>2. call[d].sess \in Nat  BY <2>1, Numbers DEF Fits, Call
  <2>3. QED  BY <1>1, <2>1, <2>2 DEF JustBrought
<1>3. \A d \in Slots : Fits(d, call'[d]) /\ JustBrought(call'[d], age', issued')  BY <1>2
<1>4. Calls' /\ call' \in [Slots -> Call]  BY <1>3, CallsNext
<1>5. Recent'  BY <1>1 DEF Orderly, Recent, Repeated
<1>6. QED  BY <1>1, <1>4, <1>5 DEF Orderly, TypeOK

LEMMA SavedFits ==
    ASSUME Orderly, NEW c \in Slots, NEW n \in Minted \cap Sessions, call[c].kind \in {"login", "refresh"},
           call' = [call EXCEPT ![c].at = "ok", ![c].sess = n]
    PROVE  /\ call' = [d \in Slots |-> call'[d]]
           /\ \A d \in Slots : \/ call'[d] = call[d]
                               \/ Fits(d, call'[d]) /\ JustBrought(call'[d], age, n)
<1> DEFINE x == [call[c] EXCEPT !.at = "ok", !.sess = n]
<1>1. Fits(c, call[c]) /\ call[c] \in Call  BY DEF Orderly, Calls, Fits
<1>2. n \in Sessions /\ n # None /\ age[n] = 0 /\ n \in Nat  BY MintedFits
<1>3. /\ x \in Call /\ x.kind = call[c].kind /\ x.sess = n
      /\ x.last = call[c].last /\ x.at = "ok"
  BY <1>1, <1>2 DEF Call
<1>4. call' = [call EXCEPT ![c] = x]  OBVIOUS
<1> HIDE DEF x
<1>5. Fits(c, x)  BY <1>1, <1>2, <1>3 DEF Fits
<1>6. JustBrought(x, age, n)  BY <1>2, <1>3 DEF JustBrought
<1>7. QED  BY <1>4, <1>5, <1>6, OneCall DEF Orderly


-----------------------------------------------------------------------------
(* Every step keeps order *)

LEMMA ServerOrderly ==
    ASSUME Orderly, NEW c \in Slots, Serve(c) \/ Lose(c)
    PROVE  Orderly'
<1>1. TypeOK /\ Fits(c, call[c]) /\ call[c] \in Call  BY DEF Orderly, Calls, Fits
<1>2. CASE Check(c)
  <2>1. call' = [call EXCEPT ![c].at = "passed"] \/ call' = [call EXCEPT ![c].at = "failed"]
    BY <1>2 DEF Check
  <2>2. Busy(c) /\ call[c].kind \in {"login", "refresh"} /\ UNCHANGED <<server, stored, tab, ops, excused>>
    BY <1>2 DEF Check, Busy
  <2>3. Calls' /\ call' \in [Slots -> Call] /\ Recent' /\ tab' \in [Tabs -> Tab]
    BY <2>1, <2>2, ServedOrderly DEF server
  <2>4. QED  BY <1>1, <2>2, <2>3 DEF Orderly, TypeOK, server
<1>3. CASE Save(c)
  <2>1. PICK n \in Minted \cap Sessions : /\ issued' = n /\ token' = Saved(n)
                                          /\ call' = [call EXCEPT ![c].at = "ok", ![c].sess = n]
    BY <1>3 DEF Save
  <2>2. call[c].kind \in {"login", "refresh"}  BY <1>1, <1>3 DEF Save, Busy, Fits
  <2>3. /\ call' = [d \in Slots |-> call'[d]]
        /\ \A d \in Slots : call'[d] = call[d] \/ (Fits(d, call'[d]) /\ JustBrought(call'[d], age, n))
    BY <2>1, <2>2, SavedFits
  <2>4. UNCHANGED <<active, age, stored, tab, ops, excused>>  BY <1>3 DEF Save
  <2>5. /\ Calls' /\ call' \in [Slots -> Call] /\ Recent' /\ tab' \in [Tabs -> Tab]
        /\ issued' \in 0..MaxTokens
    BY <2>1, <2>3, <2>4, IssuedOrderly
  <2>6. token' \in Sessions \cup {None}  BY <2>1 DEF Saved
  <2>7. QED  BY <1>1, <2>4, <2>5, <2>6 DEF Orderly, TypeOK
<1>4. CASE SsoUnsaved(c)
  <2>1. PICK n \in Minted \cap Sessions : /\ issued' = n
                                          /\ call' = [call EXCEPT ![c].at = "ok", ![c].sess = n]
    BY <1>4 DEF SsoUnsaved
  <2>2. call[c].kind \in {"login", "refresh"}  BY <1>4 DEF SsoUnsaved, Is
  <2>3. /\ call' = [d \in Slots |-> call'[d]]
        /\ \A d \in Slots : call'[d] = call[d] \/ (Fits(d, call'[d]) /\ JustBrought(call'[d], age, n))
    BY <2>1, <2>2, SavedFits
  <2>4. UNCHANGED <<token, active, age, stored, tab, ops>> /\ excused' \in BOOLEAN
    BY <1>4 DEF SsoUnsaved, Excuse
  <2>5. /\ Calls' /\ call' \in [Slots -> Call] /\ Recent' /\ tab' \in [Tabs -> Tab]
        /\ issued' \in 0..MaxTokens
    BY <2>1, <2>3, <2>4, IssuedOrderly
  <2>6. QED  BY <1>1, <2>4, <2>5 DEF Orderly, TypeOK
<1>5. CASE LogsOut(c)
  <2>1. call' = [call EXCEPT ![c].at = "ok"] \/ call' = [call EXCEPT ![c].at = "unauthorized"]
    BY <1>5 DEF LogsOut
  <2>2. Busy(c) /\ call[c].kind = "logout" /\ UNCHANGED <<active, issued, age, stored, tab, ops>>
    BY <1>5 DEF LogsOut, Busy, Is
  <2>3. Calls' /\ call' \in [Slots -> Call] /\ Recent' /\ tab' \in [Tabs -> Tab]
    BY <2>1, <2>2, ServedOrderly
  <2>4. excused' \in BOOLEAN  BY <1>5 DEF LogsOut, Excuse
  <2>5. token' \in Sessions \cup {None}  BY <1>1, <1>5 DEF LogsOut, TypeOK
  <2>6. QED  BY <1>1, <2>2, <2>3, <2>4, <2>5 DEF Orderly, TypeOK
<1>6. CASE Looks(c)
  <2>1. \/ call' = [call EXCEPT ![c].at = "ok"] \/ call' = [call EXCEPT ![c].at = "inactive"]
        \/ call' = [call EXCEPT ![c].at = "unauthorized"]
    BY <1>6 DEF Looks
  <2>2. Busy(c) /\ call[c].kind = "check" /\ UNCHANGED <<server, stored, tab, ops, excused>>
    BY <1>6 DEF Looks, Busy, Is
  <2>3. Calls' /\ call' \in [Slots -> Call] /\ Recent' /\ tab' \in [Tabs -> Tab]
    BY <2>1, <2>2, ServedOrderly DEF server
  <2>4. QED  BY <1>1, <2>2, <2>3 DEF Orderly, TypeOK, server
<1>7. CASE Lose(c)
  <2>1. c # Late /\ Busy(c) /\ UNCHANGED <<server, stored, tab, ops>> /\ excused' \in BOOLEAN
    BY <1>7 DEF Lose, Excuse
  <2>2. PICK l \in {call[Late], call[c]} : call' = [call EXCEPT ![c].at = "failed", ![Late] = l]
    BY <1>7 DEF Lose
  <2> DEFINE x == [call[c] EXCEPT !.at = "failed"]
  <2>3. /\ x \in Call /\ x.kind = call[c].kind /\ x.sess = call[c].sess
        /\ x.last = call[c].last /\ x.at = "failed"
    BY <1>1 DEF Call
  <2>4. call' = [d \in Slots |-> IF d = Late THEN l ELSE IF d = c THEN x ELSE call[d]]
    BY <1>1, <2>1, <2>2, SlotsOfTabs DEF TypeOK
  <2> HIDE DEF x
  <2>5. Fits(c, x) /\ JustBrought(x, age, issued)
    BY <1>1, <2>3 DEF Fits, JustBrought, Orderly, Calls
  <2>6. \A d \in Slots : Fits(d, call[d]) /\ JustBrought(call[d], age, issued)  BY DEF Orderly, Calls
  <2>7. Fits(Late, l) /\ JustBrought(l, age, issued)  BY <1>1, <2>2, <2>6, LateFits, SlotsOfTabs
  <2>8. ASSUME NEW d \in Slots PROVE Fits(d, call'[d]) /\ JustBrought(call'[d], age', issued')
    BY <2>1, <2>4, <2>5, <2>6, <2>7 DEF server
  <2>9. Calls' /\ call' \in [Slots -> Call]  BY <2>4, <2>8, CallsNext
  <2>10. Recent' /\ tab' \in [Tabs -> Tab]  BY <2>1, SameTabs DEF server
  <2>11. QED  BY <1>1, <2>1, <2>9, <2>10 DEF Orderly, TypeOK, server
<1>8. QED  BY <1>2, <1>3, <1>4, <1>5, <1>6, <1>7 DEF Serve

LEMMA LateEndsOrderly ==
    ASSUME Orderly, LateEnds
    PROVE  Orderly'
<1>1. Calls' /\ call' \in [Slots -> Call]
  BY NoCallFits, SlotsOfTabs, CallsAfterOne DEF LateEnds, server
<1>2. Recent' /\ tab' \in [Tabs -> Tab]  BY SameTabs DEF LateEnds, server
<1>3. QED  BY <1>1, <1>2 DEF LateEnds, Orderly, TypeOK, server

\* A session that has just been brought is not about to run out.
LEMMA ExpireOrderly ==
    ASSUME Orderly, NEW n \in Sessions, Expire(n)
    PROVE  Orderly'
<1>1. /\ n <= issued /\ age[n] < 2 /\ ~JustIssued(n) /\ age' = [age EXCEPT ![n] = @ + 1]
      /\ UNCHANGED <<token, active, issued, stored, tab, call, ops>> /\ excused' \in BOOLEAN
  BY DEF Expire, Excuse
<1>2. TypeOK /\ age \in [Sessions -> 0..2]  BY DEF Orderly, TypeOK
<1>3. age' \in [Sessions -> 0..2] /\ \A m \in Sessions : m # n => age'[m] = age[m]  BY <1>1, <1>2
<1>4. TypeOK'  BY <1>1, <1>2, <1>3 DEF TypeOK
<1>5. Calls'
  <2>1. ASSUME NEW d \in Slots PROVE Fits(d, call[d]) /\ JustBrought(call[d], age', issued)
    <3>1. Fits(d, call[d]) /\ JustBrought(call[d], age, issued)  BY DEF Orderly, Calls
    <3>2. call[d].sess \in Sessions \cup {None}  BY <3>1 DEF Fits, Call
    <3>3. CASE call[d].sess = n
      <4>1. ~(Busy(d) /\ IF call[d].kind = "check" THEN call[d].last ELSE call[d].at = "ok")
        BY <1>1, <3>3 DEF JustIssued
      <4>2. QED  BY <3>1, <4>1 DEF Busy, JustBrought
    <3>4. CASE call[d].sess # n
      <4>1. call[d].sess # None => age'[call[d].sess] = age[call[d].sess]  BY <1>3, <3>2, <3>4
      <4>2. call[d].kind = "check" => call[d].sess # None  BY <3>1 DEF Fits
      <4>3. QED  BY <3>1, <4>1, <4>2 DEF JustBrought
    <3>5. QED  BY <3>3, <3>4
  <2>2. call' = call /\ issued' = issued  BY <1>1
  <2>3. QED  BY <2>1, <2>2 DEF Calls
<1>6. Recent'
  <2>1. \A m \in Sessions : m > issued' => age'[m] = 0
    BY <1>1, <1>2, <1>3, Numbers DEF Orderly, Recent, TypeOK
  <2>2. ASSUME NEW t \in Tabs PROVE Repeated(tab[t].carried, age')
    <3>1. \A r \in tab[t].carried : r \in (Sessions \cup {None}) \X BOOLEAN  BY <1>2 DEF TypeOK, Tab
    <3>2. \A r \in tab[t].carried : r[2] => r[1] # None /\ age[r[1]] = 0  BY DEF Orderly, Recent, Repeated
    <3>3. <<n, TRUE>> \notin tab[t].carried  BY <1>1 DEF JustIssued
    <3>4. ASSUME NEW r \in tab[t].carried, r[2] PROVE r[1] # n
      <4>1. r = <<r[1], r[2]>> /\ r[2] \in BOOLEAN  BY <3>1
      <4>2. r[2] = TRUE  BY <3>4, <4>1, Zenon
      <4>3. QED  BY <3>3, <4>1, <4>2
    <3>5. QED  BY <1>3, <3>1, <3>2, <3>4 DEF Repeated
  <2>3. tab' = tab  BY <1>1
  <2>4. QED  BY <2>1, <2>2, <2>3 DEF Recent
<1>7. QED  BY <1>4, <1>5, <1>6 DEF Orderly


\* The tab of a step of the browser: its route, its store, its requests.
LEMMA RoutedTab ==
    ASSUME Orderly, UNCHANGED <<age, issued>>, NEW t \in Tabs,
           NEW at \in {"home", "login", "entering", "pages"}, tab' = [tab EXCEPT ![t].at = at]
    PROVE  Recent' /\ tab' \in [Tabs -> Tab]
<1> DEFINE x == [tab[t] EXCEPT !.at = at]
<1>1. tab[t] \in Tab /\ Repeated(tab[t].carried, age)  BY DEF Orderly, TypeOK, Recent
<1>2. x \in Tab /\ x.carried = tab[t].carried  BY <1>1 DEF Tab
<1>3. tab' = [tab EXCEPT ![t] = x]  OBVIOUS
<1> HIDE DEF x
<1>4. QED  BY <1>1, <1>2, <1>3, OneTab

LEMMA CarryingTab ==
    ASSUME Orderly, UNCHANGED <<age, issued>>, NEW t \in Tabs,
           NEW carried \in SUBSET ((Sessions \cup {None}) \X BOOLEAN), Repeated(carried, age),
           NEW waiting \in BOOLEAN,
           \/ tab' = [tab EXCEPT ![t].carried = carried]
           \/ tab' = [tab EXCEPT ![t].carried = carried, ![t].waiting = waiting]
    PROVE  Recent' /\ tab' \in [Tabs -> Tab]
<1>1. tab[t] \in Tab  BY DEF Orderly, TypeOK
<1>2. CASE tab' = [tab EXCEPT ![t].carried = carried]
  <2> DEFINE x == [tab[t] EXCEPT !.carried = carried]
  <2>1. x \in Tab /\ x.carried = carried  BY <1>1 DEF Tab
  <2>2. tab' = [tab EXCEPT ![t] = x]  BY <1>2
  <2> HIDE DEF x
  <2>3. QED  BY <2>1, <2>2, OneTab
<1>3. CASE tab' = [tab EXCEPT ![t].carried = carried, ![t].waiting = waiting]
  <2> DEFINE x == [tab[t] EXCEPT !.carried = carried, !.waiting = waiting]
  <2>1. x \in Tab /\ x.carried = carried  BY <1>1 DEF Tab
  <2>2. tab' = [tab EXCEPT ![t] = x]  BY <1>3
  <2> HIDE DEF x
  <2>3. QED  BY <2>1, <2>2, OneTab
<1>4. QED  BY <1>2, <1>3

LEMMA StoringTab ==
    ASSUME Orderly, UNCHANGED <<age, issued>>, NEW t \in Tabs, NEW store \in {"none", "unchecked", "checked"},
           \/ tab' = [tab EXCEPT ![t].store = store]
           \/ tab' = [tab EXCEPT ![t].store = store, ![t].at = "pages"]
    PROVE  Recent' /\ tab' \in [Tabs -> Tab]
<1>1. tab[t] \in Tab /\ Repeated(tab[t].carried, age)  BY DEF Orderly, TypeOK, Recent
<1>2. CASE tab' = [tab EXCEPT ![t].store = store]
  <2> DEFINE x == [tab[t] EXCEPT !.store = store]
  <2>1. x \in Tab /\ x.carried = tab[t].carried  BY <1>1 DEF Tab
  <2>2. tab' = [tab EXCEPT ![t] = x]  BY <1>2
  <2> HIDE DEF x
  <2>3. QED  BY <1>1, <2>1, <2>2, OneTab
<1>3. CASE tab' = [tab EXCEPT ![t].store = store, ![t].at = "pages"]
  <2> DEFINE x == [tab[t] EXCEPT !.store = store, !.at = "pages"]
  <2>1. x \in Tab /\ x.carried = tab[t].carried  BY <1>1 DEF Tab
  <2>2. tab' = [tab EXCEPT ![t] = x]  BY <1>3
  <2> HIDE DEF x
  <2>3. QED  BY <1>1, <2>1, <2>2, OneTab
<1>4. QED  BY <1>2, <1>3

LEMMA SameCalls ==
    ASSUME Orderly, UNCHANGED <<age, issued, call>>
    PROVE  Calls' /\ call' \in [Slots -> Call]
BY DEF Orderly, Calls, TypeOK

\* The call of c ends.
LEMMA EndedCall ==
    ASSUME Orderly, UNCHANGED <<age, issued>>, NEW c \in Slots, call' = [call EXCEPT ![c] = NoCall]
    PROVE  Calls' /\ call' \in [Slots -> Call]
BY NoCallFits, CallsAfterOne

\* The call of c is sent, or followed by another one.
LEMMA SentCall ==
    ASSUME Orderly, UNCHANGED <<age, issued>>, NEW c \in Slots,
           NEW kind \in {"login", "refresh", "check", "logout"},
           NEW sess \in Sessions \cup {None}, NEW last \in BOOLEAN, kind = "login" \/ sess # None,
           \A t \in Tabs : /\ c = <<t, "shared">> => kind \in {"refresh"}
                           /\ c = <<t, "verify">> => kind \in {"refresh", "check"}
                           /\ c = <<t, "user">> => kind \in {"login", "logout"},
           kind = "check" /\ last => age[sess] = 0,
           call' = [call EXCEPT ![c] = Send(kind, sess, last)]
    PROVE  Calls' /\ call' \in [Slots -> Call]
<1>1. Fits(c, Send(kind, sess, last)) /\ JustBrought(Send(kind, sess, last), age, issued)  BY SentFits
<1>2. QED  BY <1>1, CallsAfterOne

LEMMA TypedNext ==
    ASSUME Orderly, UNCHANGED <<active, issued, age>>, token' \in Sessions \cup {None},
           stored' \in Sessions \cup {None}, ops' \in Nat, excused' \in BOOLEAN,
           Calls' /\ call' \in [Slots -> Call], Recent' /\ tab' \in [Tabs -> Tab]
    PROVE  Orderly'
BY DEF Orderly, TypeOK

LEMMA SignedOutOrderly ==
    ASSUME Orderly, NEW t \in Tabs, SignedOut(t), UNCHANGED <<server, ops, excused>>
    PROVE  Orderly'
<1>1. stored' = None /\ UNCHANGED <<age, issued>>  BY DEF SignedOut, server
<1>2. {<<t, "shared">>} \subseteq Slots /\ SlotsOf(t) \subseteq Slots  BY SlotsOfTabs
<1>3. tab[t] \in Tab /\ Repeated(tab[t].carried, age)  BY DEF Orderly, TypeOK, Recent
<1>4. CASE tab[t].at \in {"login", "entering"}
  <2>1. tab' = [tab EXCEPT ![t].waiting = FALSE] /\ Abandon({<<t, "shared">>})
    BY <1>4 DEF SignedOut, NotWaiting
  <2> DEFINE x == [tab[t] EXCEPT !.waiting = FALSE]
  <2>2. x \in Tab /\ x.carried = tab[t].carried  BY <1>3 DEF Tab
  <2>3. tab' = [tab EXCEPT ![t] = x]  BY <2>1
  <2> HIDE DEF x
  <2>4. Recent' /\ tab' \in [Tabs -> Tab]  BY <1>1, <1>3, <2>2, <2>3, OneTab
  <2>5. Calls' /\ call' \in [Slots -> Call]  BY <1>1, <1>2, <2>1, CallsAfterGivingUp
  <2>6. QED  BY <1>1, <2>4, <2>5, TypedNext DEF server, Orderly, TypeOK
<1>5. CASE tab[t].at \notin {"login", "entering"}
  <2>1. tab' = [tab EXCEPT ![t] = Fresh("entering", None)] /\ Abandon(SlotsOf(t))
    BY <1>5 DEF SignedOut
  <2>2. Recent' /\ tab' \in [Tabs -> Tab]  BY <1>1, <2>1, FreshTab, OneTab
  <2>3. Calls' /\ call' \in [Slots -> Call]  BY <1>1, <1>2, <2>1, CallsAfterGivingUp
  <2>4. QED  BY <1>1, <2>2, <2>3, TypedNext DEF server, Orderly, TypeOK
<1>6. QED  BY <1>4, <1>5

LEMMA RequestsOrderly ==
    ASSUME Orderly, NEW t \in Tabs,
           Answered(t) \/ Rejected(t) \/ RejectedForGood(t) \/ Renewed(t) \/ NotRenewed(t)
    PROVE  Orderly'
<1> DEFINE c == <<t, "shared">>
<1>1. /\ c \in Slots /\ tab[t] \in Tab /\ Repeated(tab[t].carried, age)
      /\ Fits(c, call[c]) /\ JustBrought(call[c], age, issued) /\ call[c] \in Call
      /\ TypeOK /\ SlotsOf(t) \subseteq Slots
  BY SlotsOfTabs DEF Orderly, TypeOK, Recent, Calls, Fits
<1>2. /\ tab[t].carried \in SUBSET ((Sessions \cup {None}) \X BOOLEAN)
      /\ \A r : /\ tab[t].carried \ {r} \in SUBSET ((Sessions \cup {None}) \X BOOLEAN)
                /\ Repeated(tab[t].carried \ {r}, age)
  BY <1>1 DEF Tab, Repeated
<1>3. CASE Answered(t)
  <2>1. PICK r \in tab[t].carried : tab' = [tab EXCEPT ![t].carried = tab[t].carried \ {r}]
    BY <1>3 DEF Answered
  <2>2. UNCHANGED <<server, stored, call, ops, excused>>  BY <1>3 DEF Answered
  <2>3. Recent' /\ tab' \in [Tabs -> Tab]  BY <1>2, <2>1, <2>2, CarryingTab DEF server
  <2>4. Calls' /\ call' \in [Slots -> Call]  BY <2>2, SameCalls DEF server
  <2>5. QED  BY <1>1, <2>2, <2>3, <2>4, TypedNext DEF server, TypeOK
<1>4. CASE Rejected(t)
  <2>1. PICK r \in tab[t].carried :
          /\ stored # None \/ Busy(c)
          /\ tab' = [tab EXCEPT ![t].carried = tab[t].carried \ {r}, ![t].waiting = TRUE]
          /\ IF Busy(c) THEN UNCHANGED <<call, excused>>
             ELSE call' = [call EXCEPT ![c] = Send("refresh", stored, FALSE)] /\ Excuse(Crosses(c))
          /\ UNCHANGED <<server, stored, ops>>
    BY <1>4 DEF Rejected, Renews
  <2>2. Recent' /\ tab' \in [Tabs -> Tab]  BY <1>2, <2>1, CarryingTab DEF server
  <2>3. Calls' /\ call' \in [Slots -> Call] /\ excused' \in BOOLEAN
    <3>1. CASE Busy(c)  BY <1>1, <2>1, <3>1, SameCalls DEF server, TypeOK
    <3>2. CASE ~Busy(c)
      <4>1. /\ stored \in Sessions \cup {None} /\ stored # None
            /\ call' = [call EXCEPT ![c] = Send("refresh", stored, FALSE)] /\ excused' \in BOOLEAN
        BY <1>1, <2>1, <3>2 DEF TypeOK, Excuse
      <4>2. UNCHANGED <<age, issued>>  BY <2>1 DEF server
      <4>3. QED  BY <1>1, <4>1, <4>2, SentCall
    <3>3. QED  BY <3>1, <3>2
  <2>4. QED  BY <1>1, <2>1, <2>2, <2>3, TypedNext DEF server, TypeOK
<1>5. CASE RejectedForGood(t)
  <2>1. stored' = None /\ UNCHANGED <<server, ops>>  BY <1>5 DEF RejectedForGood
  <2>2. CASE tab[t].at \in {"login", "entering"}
    <3>1. PICK r \in tab[t].carried : tab' = [tab EXCEPT ![t].carried = tab[t].carried \ {r}]
                                      /\ UNCHANGED <<call, excused>>
      BY <1>5, <2>2 DEF RejectedForGood
    <3>2. Recent' /\ tab' \in [Tabs -> Tab]  BY <1>2, <2>1, <3>1, CarryingTab DEF server
    <3>3. Calls' /\ call' \in [Slots -> Call]  BY <2>1, <3>1, SameCalls DEF server
    <3>4. QED  BY <1>1, <2>1, <3>1, <3>2, <3>3, TypedNext DEF server, TypeOK
  <2>3. CASE tab[t].at \notin {"login", "entering"}
    <3>1. /\ tab' = [tab EXCEPT ![t] = Fresh("entering", None)] /\ Abandon(SlotsOf(t))
          /\ excused' \in BOOLEAN
      BY <1>5, <2>3 DEF RejectedForGood, Excuse
    <3>2. UNCHANGED <<age, issued>>  BY <2>1 DEF server
    <3>3. Recent' /\ tab' \in [Tabs -> Tab]  BY <3>1, <3>2, FreshTab, OneTab
    <3>4. Calls' /\ call' \in [Slots -> Call]  BY <1>1, <3>1, <3>2, CallsAfterGivingUp
    <3>5. QED  BY <1>1, <2>1, <3>1, <3>3, <3>4, TypedNext DEF server, TypeOK
  <2>4. QED  BY <2>2, <2>3
<1>6. CASE Renewed(t)
  <2> DEFINE carried == tab[t].carried \cup {<<call[c].sess, TRUE>>}
  <2>1. /\ call[c].kind = "refresh" /\ call[c].at = "ok" /\ stored' = call[c].sess
        /\ tab' = [NotWaiting(t) EXCEPT ![t].carried = @ \cup {<<stored', TRUE>>}]
        /\ call' = [call EXCEPT ![c] = NoCall] /\ UNCHANGED <<server, ops, excused>>
    BY <1>6 DEF Renewed, Is
  <2>2. call[c].sess \in Sessions /\ call[c].sess # None /\ age[call[c].sess] = 0
    BY <1>1, <2>1 DEF JustBrought, Call
  <2>3. carried \in SUBSET ((Sessions \cup {None}) \X BOOLEAN) /\ Repeated(carried, age)
    <3>1. carried \in SUBSET ((Sessions \cup {None}) \X BOOLEAN)
      <4>1. <<call[c].sess, TRUE>> \in (Sessions \cup {None}) \X BOOLEAN  BY <2>2
      <4>2. QED  BY <1>2, <4>1
    <3>2. ASSUME NEW r \in carried, r[2] PROVE r[1] # None /\ age[r[1]] = 0
      <4>1. CASE r \in tab[t].carried  BY <1>1, <3>2, <4>1 DEF Repeated
      <4>2. CASE r = <<call[c].sess, TRUE>>  BY <2>2, <4>2
      <4>3. QED  BY <4>1, <4>2
    <3>3. QED  BY <3>1, <3>2 DEF Repeated
  <2>4. tab' = [tab EXCEPT ![t].carried = carried, ![t].waiting = FALSE]
    BY <1>1, <2>1 DEF NotWaiting, TypeOK, Tab
  <2>5. Recent' /\ tab' \in [Tabs -> Tab]
    <3> HIDE DEF carried
    <3>1. UNCHANGED <<age, issued>>  BY <2>1 DEF server
    <3>2. QED  BY <2>3, <2>4, <3>1, CarryingTab
  <2>6. Calls' /\ call' \in [Slots -> Call]  BY <1>1, <2>1, EndedCall DEF server
  <2>7. QED  BY <1>1, <2>1, <2>2, <2>5, <2>6, TypedNext DEF server, TypeOK
<1>7. CASE NotRenewed(t)  BY <1>7, SignedOutOrderly DEF NotRenewed
<1>8. QED  BY <1>3, <1>4, <1>5, <1>6, <1>7


LEMMA VerifyingOrderly ==
    ASSUME Orderly, NEW t \in Tabs, Verify(t) \/ VerifyRefreshed(t) \/ Verified(t)
    PROVE  Orderly'
<1> DEFINE c == <<t, "verify">>
<1>1. /\ c \in Slots /\ TypeOK
      /\ Fits(c, call[c]) /\ JustBrought(call[c], age, issued) /\ call[c] \in Call
      /\ \A u \in Tabs : c # <<u, "shared">> /\ c # <<u, "user">>
  BY SlotsOfTabs DEF Orderly, Calls, Fits
<1>2. ASSUME NEW sess \in Sessions \cup {None}, EndVerify(t, sess), UNCHANGED <<server, ops>>
      PROVE  Orderly'
  <2>1. /\ stored' = sess /\ tab' = [tab EXCEPT ![t].store = Verdict(sess)]
        /\ call' = [call EXCEPT ![c] = NoCall] /\ UNCHANGED excused
    BY <1>2 DEF EndVerify
  <2>2. UNCHANGED <<age, issued>>  BY <1>2 DEF server
  <2>3. Recent' /\ tab' \in [Tabs -> Tab]
    <3>1. Verdict(sess) \in {"none", "unchecked", "checked"}  BY DEF Verdict
    <3>2. QED  BY <2>1, <2>2, <3>1, StoringTab
  <2>4. Calls' /\ call' \in [Slots -> Call]  BY <1>1, <2>1, <2>2, EndedCall
  <2>5. QED  BY <1>1, <1>2, <2>1, <2>3, <2>4, TypedNext DEF server, TypeOK
<1>3. ASSUME NEW kind \in {"check", "refresh"}, NEW sess \in Sessions, NEW last \in BOOLEAN,
             NextVerify(t, Send(kind, sess, last)), UNCHANGED <<server, ops>>,
             kind = "check" /\ last => age[sess] = 0, stored' \in Sessions \cup {None}
      PROVE  Orderly'
  <2>1. /\ call' = [call EXCEPT ![c] = Send(kind, sess, last)] /\ UNCHANGED tab /\ excused' \in BOOLEAN
    BY <1>3 DEF NextVerify, Excuse
  <2>2. UNCHANGED <<age, issued>> /\ sess # None  BY <1>3, Numbers DEF server
  <2>3. Calls' /\ call' \in [Slots -> Call]
    <3> HIDE DEF c
    <3>1. \A u \in Tabs : /\ c = <<u, "shared">> => kind \in {"refresh"}
                          /\ c = <<u, "verify">> => kind \in {"refresh", "check"}
                          /\ c = <<u, "user">> => kind \in {"login", "logout"}
      BY <1>1
    <3>2. kind = "check" /\ last => age[sess] = 0  BY <1>3
    <3>3. kind \in {"login", "refresh", "check", "logout"}  OBVIOUS
    <3>4. sess \in Sessions \cup {None} /\ (kind = "login" \/ sess # None)  BY <2>2
    <3>5. QED  BY <1>1, <2>1, <2>2, <3>1, <3>2, <3>3, <3>4, SentCall
  <2>4. Recent' /\ tab' \in [Tabs -> Tab]  BY <2>1, <2>2, SameTabs
  <2>5. QED  BY <1>1, <1>3, <2>1, <2>3, <2>4, TypedNext DEF server, TypeOK
<1>4. CASE Verify(t)
  <2>1. UNCHANGED <<server, ops>> /\ None \in Sessions \cup {None}  BY <1>4 DEF Verify
  <2>2. CASE stored = None  BY <1>2, <1>4, <2>1, <2>2 DEF Verify
  <2>3. CASE stored # None
    <3>1. PICK kind \in {"check", "refresh"} : NextVerify(t, Send(kind, stored, FALSE)) /\ UNCHANGED stored
      BY <1>4, <2>3 DEF Verify
    <3>2. stored \in Sessions  BY <1>1, <2>3 DEF TypeOK
    <3>3. QED  BY <1>3, <2>1, <3>1, <3>2
  <2>4. QED  BY <2>2, <2>3
<1>5. CASE VerifyRefreshed(t)
  <2>1. call[c].kind = "refresh" /\ call[c].at \in {"ok", "failed"} /\ UNCHANGED <<server, ops>>
    BY <1>5 DEF VerifyRefreshed, Is
  <2>2. CASE call[c].at = "failed"  BY <1>2, <1>5, <2>1, <2>2 DEF VerifyRefreshed
  <2>3. CASE call[c].at = "ok"
    <3>1. stored' = call[c].sess /\ NextVerify(t, Send("check", call[c].sess, call[c].last))
      BY <1>5, <2>3 DEF VerifyRefreshed
    <3>2. call[c].sess \in Sessions /\ call[c].last \in BOOLEAN /\ age[call[c].sess] = 0
      BY <1>1, <2>1, <2>3 DEF JustBrought, Call
    <3>3. QED  BY <1>3, <2>1, <3>1, <3>2
  <2>4. QED  BY <2>1, <2>2, <2>3
<1>6. CASE Verified(t)
  <2>1. UNCHANGED <<server, ops>>  BY <1>6 DEF Verified
  <2>2. call[c].sess \in Sessions \cup {None} /\ None \in Sessions \cup {None}  BY <1>1 DEF Call
  <2>3. CASE EndVerify(t, call[c].sess) \/ EndVerify(t, None)  BY <1>2, <2>1, <2>2, <2>3
  <2>4. CASE stored # None /\ NextVerify(t, Send("refresh", stored, TRUE)) /\ UNCHANGED stored
    <3>1. stored \in Sessions  BY <1>1, <2>4 DEF TypeOK
    <3>2. QED  BY <1>3, <2>1, <2>4, <3>1
  <2>5. QED  BY <1>6, <2>3, <2>4 DEF Verified
<1>7. QED  BY <1>4, <1>5, <1>6

LEMMA UserOrderly ==
    ASSUME Orderly, NEW t \in Tabs, SignIn(t) \/ SignedIn(t) \/ Logout(t) \/ LoggedOut(t)
    PROVE  Orderly'
<1> DEFINE c == <<t, "user">>
<1>1. /\ c \in Slots /\ TypeOK
      /\ Fits(c, call[c]) /\ JustBrought(call[c], age, issued) /\ call[c] \in Call
      /\ \A u \in Tabs : c # <<u, "shared">> /\ c # <<u, "verify">>
  BY SlotsOfTabs DEF Orderly, Calls, Fits
<1>2. CASE SignIn(t)
  <2>1. /\ call' = [call EXCEPT ![c] = Send("login", None, FALSE)] /\ excused' \in BOOLEAN
        /\ UNCHANGED <<server, stored, tab>> /\ ops' \in Nat
    BY <1>1, <1>2 DEF SignIn, Excuse, Person, TypeOK
  <2>2. UNCHANGED <<age, issued>>  BY <2>1 DEF server
  <2>3. Calls' /\ call' \in [Slots -> Call]  BY <1>1, <2>1, <2>2, SentCall
  <2>4. Recent' /\ tab' \in [Tabs -> Tab]  BY <2>1, <2>2, SameTabs
  <2>5. QED  BY <1>1, <2>1, <2>3, <2>4, TypedNext DEF server, TypeOK
<1>3. CASE SignedIn(t)
  <2>1. /\ call[c].kind = "login" /\ call' = [call EXCEPT ![c] = NoCall] /\ UNCHANGED <<server, ops>>
    BY <1>3 DEF SignedIn, Is
  <2>2. UNCHANGED <<age, issued>>  BY <2>1 DEF server
  <2>3. Calls' /\ call' \in [Slots -> Call]  BY <1>1, <2>1, <2>2, EndedCall
  <2>4. CASE call[c].at = "failed"
    <3>1. UNCHANGED <<stored, tab, excused>>  BY <1>3, <2>4 DEF SignedIn
    <3>2. Recent' /\ tab' \in [Tabs -> Tab]  BY <2>2, <3>1, SameTabs
    <3>3. QED  BY <1>1, <2>1, <2>3, <3>1, <3>2, TypedNext DEF server, TypeOK
  <2>5. CASE call[c].at # "failed"
    <3>1. /\ stored' = call[c].sess
          /\ tab' = [tab EXCEPT ![t].store = "checked", ![t].at = "pages"]
          /\ excused' = (excused /\ ~(active /\ ~Crosses(c) /\ token = stored'))
      BY <1>3, <2>5 DEF SignedIn
    <3>2. Recent' /\ tab' \in [Tabs -> Tab]  BY <2>2, <3>1, StoringTab
    <3>3. stored' \in Sessions \cup {None} /\ excused' \in BOOLEAN  BY <1>1, <3>1 DEF Call
    <3>4. QED  BY <1>1, <2>1, <2>3, <3>2, <3>3, TypedNext DEF server, TypeOK
  <2>6. QED  BY <2>4, <2>5
<1>4. CASE Logout(t)
  <2>1. UNCHANGED <<server, stored>> /\ ops' \in Nat  BY <1>1, <1>4 DEF Logout, Person, TypeOK
  <2>2. UNCHANGED <<age, issued>>  BY <2>1 DEF server
  <2>3. CASE stored = None
    <3>1. tab' = [tab EXCEPT ![t].at = "home"] /\ UNCHANGED <<call, excused>>  BY <1>4, <2>3 DEF Logout
    <3>2. Recent' /\ tab' \in [Tabs -> Tab]  BY <2>2, <3>1, RoutedTab
    <3>3. Calls' /\ call' \in [Slots -> Call]  BY <2>2, <3>1, SameCalls
    <3>4. QED  BY <1>1, <2>1, <3>1, <3>2, <3>3, TypedNext DEF server, TypeOK
  <2>4. CASE stored # None
    <3>1. /\ call' = [call EXCEPT ![c] = Send("logout", stored, FALSE)] /\ excused' \in BOOLEAN
          /\ UNCHANGED tab
      BY <1>4, <2>4 DEF Logout, Excuse
    <3>2. stored \in Sessions \cup {None}  BY <1>1 DEF TypeOK
    <3>3. Calls' /\ call' \in [Slots -> Call]  BY <1>1, <2>2, <2>4, <3>1, <3>2, SentCall
    <3>4. Recent' /\ tab' \in [Tabs -> Tab]  BY <2>2, <3>1, SameTabs
    <3>5. QED  BY <1>1, <2>1, <3>1, <3>3, <3>4, TypedNext DEF server, TypeOK
  <2>5. QED  BY <2>3, <2>4
<1>5. CASE LoggedOut(t)
  <2>1. /\ stored' = None /\ tab' = [tab EXCEPT ![t].at = "home"] /\ call' = [call EXCEPT ![c] = NoCall]
        /\ UNCHANGED <<server, ops, excused>>
    BY <1>5 DEF LoggedOut, Cleared
  <2>2. UNCHANGED <<age, issued>>  BY <2>1 DEF server
  <2>3. Recent' /\ tab' \in [Tabs -> Tab]  BY <2>1, <2>2, RoutedTab
  <2>4. Calls' /\ call' \in [Slots -> Call]  BY <1>1, <2>1, <2>2, EndedCall
  <2>5. QED  BY <1>1, <2>1, <2>3, <2>4, TypedNext DEF server, TypeOK
<1>6. QED  BY <1>2, <1>3, <1>4, <1>5

LEMMA RoutesOrderly ==
    ASSUME Orderly, NEW t \in Tabs, Guard(t) \/ Enter(t) \/ Go(t) \/ Reload(t) \/ Request(t)
    PROVE  Orderly'
<1>1. /\ TypeOK /\ tab[t] \in Tab /\ Repeated(tab[t].carried, age) /\ SlotsOf(t) \subseteq Slots
  BY SlotsOfTabs DEF Orderly, TypeOK, Recent
<1>2. CASE Guard(t) \/ Enter(t) \/ Go(t)
  <2>1. /\ \E at \in {"home", "login", "entering", "pages"} : tab' = [tab EXCEPT ![t].at = at]
        /\ UNCHANGED <<server, stored, call, excused>>
    BY <1>2 DEF Guard, Enter, Go
  <2>2. ops' \in Nat  BY <1>1, <1>2 DEF Guard, Enter, Go, Person, TypeOK
  <2>3. Recent' /\ tab' \in [Tabs -> Tab]  BY <2>1, RoutedTab DEF server
  <2>4. Calls' /\ call' \in [Slots -> Call]  BY <2>1, SameCalls DEF server
  <2>5. QED  BY <1>1, <2>1, <2>2, <2>3, <2>4, TypedNext DEF server, TypeOK
<1>3. CASE Reload(t)
  <2> DEFINE at == IF tab[t].at = "login" THEN "entering" ELSE tab[t].at
  <2>1. /\ tab' = [tab EXCEPT ![t] = Fresh(at, stored)] /\ Abandon(SlotsOf(t))
        /\ UNCHANGED <<server, stored>> /\ excused' \in BOOLEAN
    BY <1>3 DEF Reload, Excuse
  <2>2. at \in {"home", "login", "entering", "pages"}  BY <1>1 DEF Tab
  <2>3. ops' \in Nat  BY <1>1, <1>3 DEF Reload, Person, TypeOK
  <2>4. UNCHANGED <<age, issued>>  BY <2>1 DEF server
  <2> HIDE DEF at
  <2>5. Recent' /\ tab' \in [Tabs -> Tab]  BY <2>1, <2>2, <2>4, FreshTab, OneTab
  <2>6. Calls' /\ call' \in [Slots -> Call]  BY <1>1, <2>1, <2>4, CallsAfterGivingUp
  <2>7. QED  BY <1>1, <2>1, <2>3, <2>5, <2>6, TypedNext DEF server, TypeOK
<1>4. CASE Request(t)
  <2> DEFINE carried == tab[t].carried \cup {<<stored, FALSE>>}
  <2>1. tab' = [tab EXCEPT ![t].carried = carried] /\ UNCHANGED <<server, stored, call, excused>>
    BY <1>1, <1>4 DEF Request, TypeOK
  <2>2. ops' \in Nat  BY <1>1, <1>4 DEF Request, Person, TypeOK
  <2>3. carried \in SUBSET ((Sessions \cup {None}) \X BOOLEAN)
    <3>1. tab[t].carried \in SUBSET ((Sessions \cup {None}) \X BOOLEAN)  BY <1>1 DEF Tab
    <3>2. <<stored, FALSE>> \in (Sessions \cup {None}) \X BOOLEAN  BY <1>1 DEF TypeOK
    <3>3. QED  BY <3>1, <3>2
  <2>4. Repeated(carried, age)
    <3>1. ASSUME NEW r \in carried, r[2] PROVE r[1] # None /\ age[r[1]] = 0
      <4>1. CASE r \in tab[t].carried  BY <1>1, <3>1, <4>1 DEF Repeated
      <4>2. CASE r = <<stored, FALSE>>  BY <3>1, <4>2
      <4>3. QED  BY <4>1, <4>2
    <3>2. QED  BY <3>1 DEF Repeated
  <2> HIDE DEF carried
  <2>5. Recent' /\ tab' \in [Tabs -> Tab]  BY <2>1, <2>3, <2>4, CarryingTab DEF server
  <2>6. Calls' /\ call' \in [Slots -> Call]  BY <2>1, SameCalls DEF server
  <2>7. QED  BY <1>1, <2>1, <2>2, <2>5, <2>6, TypedNext DEF server, TypeOK
<1>5. QED  BY <1>2, <1>3, <1>4

LEMMA AccountOrderly ==
    ASSUME Orderly, SetActive \/ SignInElsewhere
    PROVE  Orderly'
<1>1. TypeOK  BY DEF Orderly
<1>2. CASE SetActive
  <2>1. UNCHANGED <<token, issued, age, stored, tab, call>>  BY <1>2 DEF SetActive
  <2>2. active' \in BOOLEAN /\ excused' \in BOOLEAN  BY <1>2 DEF SetActive, Excuse
  <2>3. ops' \in Nat  BY <1>1, <1>2 DEF SetActive, Person, TypeOK
  <2>4. Calls' /\ call' \in [Slots -> Call] /\ Recent' /\ tab' \in [Tabs -> Tab]
    BY <2>1, SameCalls, SameTabs
  <2>5. QED  BY <1>1, <2>1, <2>2, <2>3, <2>4 DEF Orderly, TypeOK
<1>3. CASE SignInElsewhere
  <2>1. PICK n \in Minted \cap Sessions : issued' = n /\ token' = n  BY <1>3 DEF SignInElsewhere
  <2>2. UNCHANGED <<active, age, stored, tab, call>> /\ excused' \in BOOLEAN
    BY <1>3 DEF SignInElsewhere, Excuse
  <2>3. ops' \in Nat  BY <1>1, <1>3 DEF SignInElsewhere, Person, TypeOK
  <2>4. call' = [d \in Slots |-> call'[d]] /\ \A d \in Slots : call'[d] = call[d]
    BY <1>1, <2>2 DEF TypeOK
  <2>5. /\ Calls' /\ call' \in [Slots -> Call] /\ Recent' /\ tab' \in [Tabs -> Tab]
        /\ issued' \in 0..MaxTokens
    BY <2>1, <2>2, <2>4, IssuedOrderly
  <2>6. QED  BY <1>1, <2>1, <2>2, <2>3, <2>5 DEF Orderly, TypeOK
<1>4. QED  BY <1>2, <1>3

LEMMA NextOrderly == Orderly /\ [Next]_vars => Orderly'
<1> SUFFICES ASSUME Orderly, [Next]_vars PROVE Orderly'  OBVIOUS
<1>1. CASE SetActive \/ SignInElsewhere  BY <1>1, AccountOrderly
<1>2. ASSUME NEW t \in Tabs, Request(t) \/ Go(t) \/ Reload(t) \/ Router(t) PROVE Orderly'
  BY <1>2, RoutesOrderly DEF Router
<1>3. ASSUME NEW t \in Tabs, SignIn(t) \/ Logout(t) PROVE Orderly'  BY <1>3, UserOrderly
<1>4. ASSUME NEW c \in Slots, Serve(c) \/ Lose(c) PROVE Orderly'  BY <1>4, ServerOrderly
<1>5. CASE LateEnds  BY <1>5, LateEndsOrderly
<1>6. ASSUME NEW n \in Sessions, Expire(n) PROVE Orderly'  BY <1>6, ExpireOrderly
<1>7. ASSUME NEW t \in Tabs, Browser(t) PROVE Orderly'
  BY <1>7, RequestsOrderly, VerifyingOrderly, UserOrderly DEF Browser
<1>8. CASE UNCHANGED vars
  <2>1. UNCHANGED <<token, active, issued, age, stored, tab, call, ops, excused>>  BY <1>8 DEF vars
  <2>2. Calls' /\ call' \in [Slots -> Call] /\ Recent' /\ tab' \in [Tabs -> Tab]
    BY <2>1, SameCalls, SameTabs
  <2>3. QED  BY <2>1, <2>2 DEF Orderly, TypeOK
<1>9. QED  BY <1>1, <1>2, <1>3, <1>4, <1>5, <1>6, <1>7, <1>8 DEF Next, People, Rest

\* The state of the session of an account is always one that the code can be
\* in: what a call in progress may be, and that a session that was just brought
\* has not run out.
THEOREM AlwaysOrderly == Spec => []Orderly
<1>1. Init => Orderly  BY InitOrderly
<1>2. Orderly /\ [Next]_vars => Orderly'  BY NextOrderly
<1>3. QED  BY <1>1, <1>2, PTL DEF Spec

\* Tokens, sessions, tabs and calls keep their types.
THEOREM SessionTypeCorrect == Spec => []TypeOK
<1>1. Orderly => TypeOK  BY DEF Orderly
<1>2. QED  BY <1>1, AlwaysOrderly, PTL


-----------------------------------------------------------------------------
(* The two sides *)

\* How far the call x has brought the session of the browser, kept, away from
\* that of the server, held.
CallInStep(x, kept, held) ==
    /\ x.kind = "login" => IF x.at = "ok" THEN held = x.sess ELSE kept = held
    /\ x.kind = "refresh" => /\ x.at \in {"sent", "passed", "ok"} /\ kept # None
                             /\ held = x.sess
                             /\ x.at # "ok" => kept = held
    /\ x.kind = "check" => /\ x.at \in {"sent", "ok", "unauthorized"} /\ kept = x.sess /\ held = x.sess
                           /\ x.at = "unauthorized" => ~x.last
    /\ x.kind = "logout" => /\ x.at \in {"sent", "ok"} /\ kept = x.sess
                            /\ IF x.at = "ok" THEN held = None ELSE held = kept

Alone(c) == \A d \in Slots : d # c => ~Busy(d)
Good(sess) == sess # None => age[sess] < 2

\* Between two sides that nothing came between there is at most one call in
\* progress, and it has brought them apart as far as it has been carried out.
InTouch == ~excused =>
    /\ active /\ ~Busy(Late) /\ Good(stored)
    /\ \A c \in Slots : Busy(c) => Alone(c) /\ CallInStep(call[c], stored, token)
    /\ Quiet => stored = token

\* The step that SessionKept is about.
Kept == stored # None /\ stored' = None /\ ~excused'
          => \E t \in Tabs : Is(<<t, "user">>, "logout", {"ok"})

\* A step that leaves the calls in progress alone.
LEMMA StaysInTouch ==
    ASSUME InTouch, UNCHANGED <<token, stored>>, ~excused' => ~excused /\ active',
           ~excused' /\ stored # None => age'[stored] < 2,
           \A d \in Slots : ~excused' =>
              IF Busy(d) THEN call'[d] = call[d] ELSE call'[d].kind = "none"
    PROVE  InTouch' /\ Kept
<1>1. Kept  BY DEF Kept
<1> SUFFICES ASSUME ~excused' PROVE InTouch'  BY <1>1 DEF InTouch
<1>2. \A d \in Slots : /\ Busy(d)' <=> Busy(d)
                       /\ Busy(d) => call'[d] = call[d]
  BY DEF Busy
<1>3. active' /\ ~Busy(Late)' /\ Good(stored)'  BY <1>2, SlotsOfTabs DEF InTouch, Good
<1>4. ASSUME NEW c \in Slots, Busy(c)'
      PROVE  Alone(c)' /\ CallInStep(call'[c], stored', token')
  <2>1. Busy(c) /\ call'[c] = call[c] /\ Alone(c) /\ CallInStep(call[c], stored, token)
    BY <1>2, <1>4 DEF InTouch
  <2>2. CallInStep(call'[c], stored', token')  BY <2>1
  <2>3. Alone(c)'  BY <1>2, <2>1 DEF Alone
  <2>4. QED  BY <2>2, <2>3
<1>5. Quiet' => stored' = token'  BY <1>2 DEF Quiet, InTouch
<1>6. QED  BY <1>3, <1>4, <1>5 DEF InTouch, CallInStep

\* A step of the only call in progress.
LEMMA AloneInTouch ==
    ASSUME TypeOK, NEW c \in Slots, c # Late, NEW x, call' = [call EXCEPT ![c] = x],
           ~excused' => /\ Alone(c) /\ active'
                        /\ stored' # None => age'[stored'] < 2
                        /\ x.kind = "none" => stored' = token'
                        /\ x.kind # "none" => CallInStep(x, stored', token')
    PROVE  InTouch'
<1> SUFFICES ASSUME ~excused' PROVE InTouch'  BY DEF InTouch
<1>1. call'[c] = x /\ \A d \in Slots : d # c => call'[d] = call[d]  BY DEF TypeOK
<1>2. \A d \in Slots : d # c => ~(Busy(d)')  BY <1>1 DEF Alone, Busy
<1>3. active' /\ ~Busy(Late)' /\ Good(stored)'  BY <1>2, SlotsOfTabs DEF Good
<1>4. ASSUME NEW d \in Slots, Busy(d)'
      PROVE  Alone(d)' /\ CallInStep(call'[d], stored', token')
  <2>1. d = c /\ x.kind # "none"  BY <1>1, <1>2, <1>4 DEF Busy
  <2>2. Alone(c)'  BY <1>2 DEF Alone
  <2>3. QED  BY <1>1, <2>1, <2>2
<1>5. Quiet' => stored' = token'  BY <1>1 DEF Quiet, Busy
<1>6. QED  BY <1>3, <1>4, <1>5 DEF InTouch, CallInStep

\* The call of c, while the sides are in touch.
LEMMA TouchingCall ==
    ASSUME InTouch, ~excused, NEW c \in Slots, Busy(c)
    PROVE  /\ c # Late /\ Alone(c) /\ active
           /\ CallInStep(call[c], stored, token) /\ (stored # None => age[stored] < 2)
BY DEF InTouch, Good

\* Nothing is in progress, but for a call that is about to be sent.
LEMMA UncrossedCall ==
    ASSUME InTouch, ~excused, NEW c \in Slots, ~Busy(c), ~Crosses(c)
    PROVE  Alone(c) /\ active /\ stored = token /\ (stored # None => age[stored] < 2)
BY DEF InTouch, Good, Crosses, Alone, Quiet

LEMMA InitInTouch == Init => InTouch
BY SlotsOfTabs DEF Init, InTouch, Busy, NoCall, Good, Quiet


LEMMA ServerInTouch ==
    ASSUME Orderly, InTouch, NEW c \in Slots, Serve(c) \/ Lose(c)
    PROVE  InTouch' /\ Kept
<1>1. TypeOK /\ Fits(c, call[c]) /\ JustBrought(call[c], age, issued) /\ call[c] \in Call
  BY DEF Orderly, Calls, Fits
<1>2. UNCHANGED stored  BY DEF Serve, Lose, Check, Save, SsoUnsaved, LogsOut, Looks
<1>3. Kept  BY <1>2 DEF Kept
<1>4. CASE excused'  BY <1>3, <1>4 DEF InTouch
<1>5. ~excused' => ~excused
  <2>1. CASE Check(c) \/ Save(c) \/ Looks(c)  BY <2>1 DEF Check, Save, Looks
  <2>2. CASE SsoUnsaved(c) \/ LogsOut(c) \/ Lose(c)  BY <2>2 DEF SsoUnsaved, LogsOut, Lose, Excuse
  <2>3. QED  BY <2>1, <2>2 DEF Serve
<1>6. CASE ~excused' /\ ~excused
  <2>1. Busy(c)
    BY <1>6 DEF Serve, Lose, Check, Save, SsoUnsaved, LogsOut, Looks, Excuse, Is, Busy
  <2>2. /\ c # Late /\ Alone(c) /\ active
        /\ CallInStep(call[c], stored, token) /\ (stored # None => age[stored] < 2)
    BY <1>6, <2>1, TouchingCall
  <2>3. CASE Check(c)
    <3> DEFINE at == IF IF call[c].kind = "refresh" THEN RefreshPasses(call[c].sess) ELSE active
                     THEN "passed" ELSE "failed"
               x == [call[c] EXCEPT !.at = at]
    <3>1. /\ call[c].at = "sent" /\ call[c].kind \in {"login", "refresh"}
          /\ call' = [call EXCEPT ![c] = x] /\ UNCHANGED <<token, active, age, stored>>
      BY <2>3 DEF Check, server
    <3>2. at = "passed"
      BY <2>2, <3>1 DEF CallInStep, RefreshPasses
    <3>3. x.kind = call[c].kind /\ x.sess = call[c].sess /\ x.at = "passed"  BY <1>1, <3>2 DEF Call
    <3> HIDE DEF x
    <3>4. CallInStep(x, stored, token)  BY <2>2, <3>1, <3>3 DEF CallInStep
    <3>5. x.kind # "none"  BY <3>1, <3>3
    <3>6. InTouch'  BY <1>1, <2>2, <3>1, <3>4, <3>5, AloneInTouch
    <3>7. QED  BY <1>3, <3>6
  <2>4. CASE Save(c)
    <3>1. PICK n \in Minted \cap Sessions : /\ issued' = n /\ token' = n
                                            /\ call' = [call EXCEPT ![c].at = "ok", ![c].sess = n]
      BY <2>4 DEF Save, Saved
    <3> DEFINE x == [call[c] EXCEPT !.at = "ok", !.sess = n]
    <3>2. call[c].at = "passed" /\ UNCHANGED <<active, age, stored>>  BY <2>4 DEF Save
    <3>3. call[c].kind \in {"login", "refresh"}  BY <1>1, <3>2 DEF Fits
    <3>4. x.kind = call[c].kind /\ x.sess = n /\ x.at = "ok"  BY <1>1 DEF Call
    <3>5. call' = [call EXCEPT ![c] = x]  BY <3>1
    <3> HIDE DEF x
    <3>6. CallInStep(x, stored, n)  BY <2>2, <3>3, <3>4 DEF CallInStep
    <3>7. x.kind # "none"  BY <3>3, <3>4
    <3>8. CallInStep(x, stored', token')  BY <3>1, <3>2, <3>6
    <3>9. InTouch'  BY <1>1, <2>2, <3>2, <3>5, <3>7, <3>8, AloneInTouch
    <3>10. QED  BY <1>3, <3>9
  <2>5. CASE SsoUnsaved(c)  BY <1>6, <2>5 DEF SsoUnsaved, Excuse
  <2>6. CASE LogsOut(c)
    <3> DEFINE x == [call[c] EXCEPT !.at = "ok"]
    <3>1. /\ call[c].kind = "logout" /\ call' = [call EXCEPT ![c] = x] /\ token' = None
          /\ UNCHANGED <<active, age, stored>>
      BY <1>6, <2>6 DEF LogsOut, Is, Excuse
    <3>2. x.kind = "logout" /\ x.sess = call[c].sess /\ x.at = "ok"  BY <1>1, <3>1 DEF Call
    <3> HIDE DEF x
    <3>3. CallInStep(x, stored, None)  BY <2>2, <3>1, <3>2 DEF CallInStep
    <3>4. CallInStep(x, stored', token')  BY <3>1, <3>3
    <3>5. x.kind # "none"  BY <3>2
    <3>6. InTouch'  BY <1>1, <2>2, <3>1, <3>4, <3>5, AloneInTouch
    <3>7. QED  BY <1>3, <3>6
  <2>7. CASE Looks(c)
    <3> DEFINE at == IF age[call[c].sess] > 0 THEN "unauthorized" ELSE IF active THEN "ok" ELSE "inactive"
               x == [call[c] EXCEPT !.at = at]
    <3>1. /\ call[c].kind = "check" /\ call' = [call EXCEPT ![c] = x]
          /\ UNCHANGED <<token, active, age, stored>>
      BY <2>7 DEF Looks, Is, server
    <3>2. at \in {"ok", "unauthorized"} /\ (at = "unauthorized" => ~call[c].last)
      BY <1>1, <2>2, <3>1 DEF JustBrought
    <3>3. x.kind = "check" /\ x.sess = call[c].sess /\ x.at = at /\ x.last = call[c].last
      BY <1>1, <3>1 DEF Call
    <3> HIDE DEF x
    <3>4. CallInStep(x, stored, token)  BY <2>2, <3>1, <3>2, <3>3 DEF CallInStep
    <3>5. x.kind # "none"  BY <3>3
    <3>6. InTouch'  BY <1>1, <2>2, <3>1, <3>4, <3>5, AloneInTouch
    <3>7. QED  BY <1>3, <3>6
  <2>8. CASE Lose(c)  BY <1>6, <2>8 DEF Lose, Excuse
  <2>9. QED  BY <2>3, <2>4, <2>5, <2>6, <2>7, <2>8 DEF Serve
<1>7. QED  BY <1>3, <1>4, <1>5, <1>6 DEF InTouch

LEMMA ClockInTouch ==
    ASSUME Orderly, InTouch, LateEnds \/ (\E n \in Sessions : Expire(n))
    PROVE  InTouch' /\ Kept
<1>1. CASE LateEnds
  <2>1. ~excused' => ~excused /\ ~Busy(Late)  BY <1>1 DEF LateEnds, InTouch
  <2>2. excused'  BY <1>1, <2>1 DEF LateEnds
  <2>3. QED  BY <2>2 DEF InTouch, Kept
<1>2. ASSUME NEW n \in Sessions, Expire(n) PROVE InTouch' /\ Kept
  <2>1. /\ age' = [age EXCEPT ![n] = @ + 1] /\ UNCHANGED <<token, active, stored, call>>
        /\ excused' = (excused \/ (age'[n] = 2 /\ n \in {token, stored}))
    BY <1>2 DEF Expire, Excuse
  <2>2. age \in [Sessions -> 0..2] /\ stored \in Sessions \cup {None}  BY DEF Orderly, TypeOK
  <2>3. ASSUME ~excused', stored # None PROVE age'[stored] < 2
    <3>1. age[stored] < 2  BY <2>1, <2>3 DEF InTouch, Good
    <3>2. CASE stored = n
      <4>1. age'[n] = age[n] + 1 /\ age'[n] # 2  BY <2>1, <2>2, <2>3, <3>2
      <4>2. age[n] \in 0..2  BY <2>2
      <4>3. QED  BY <3>1, <3>2, <4>1, <4>2
    <3>3. CASE stored # n  BY <2>1, <2>2, <2>3, <3>1, <3>3
    <3>4. QED  BY <3>2, <3>3
  <2>4. ~excused' => ~excused /\ active'  BY <2>1 DEF InTouch
  <2>5. \A d \in Slots : ~excused' => IF Busy(d) THEN call'[d] = call[d] ELSE call'[d].kind = "none"
    BY <2>1 DEF Busy
  <2>6. QED  BY <2>1, <2>3, <2>4, <2>5, StaysInTouch
<1>3. QED  BY <1>1, <1>2

\* A step of the browser that neither sends nor ends a call, nor writes the storage.
LEMMA RestInTouch ==
    ASSUME InTouch, UNCHANGED <<token, active, age, stored, call, excused>>
    PROVE  InTouch' /\ Kept
BY StaysInTouch DEF InTouch, Good, Busy

\* What the browser gives up without an excuse is nothing.
LEMMA NothingGivenUp ==
    ASSUME Orderly, InTouch, NEW t \in Tabs, Abandon(SlotsOf(t)), UNCHANGED <<token, active, age, stored>>,
           Excuse(\E c \in SlotsOf(t) : Busy(c))
    PROVE  InTouch' /\ Kept
<1>1. TypeOK /\ SlotsOf(t) \subseteq Slots /\ Late \notin SlotsOf(t)  BY SlotsOfTabs DEF Orderly
<1>2. ~excused' => ~excused /\ \A c \in SlotsOf(t) : ~Busy(c)  BY DEF Excuse
<1>3. /\ \A d \in Slots : d # Late => call'[d] = IF d \in SlotsOf(t) THEN NoCall ELSE call[d]
      /\ call'[Late] = call[Late] \/ \E c \in SlotsOf(t) : Busy(c)
  BY <1>1, GivenUp
<1>4. \A d \in Slots : ~excused' => IF Busy(d) THEN call'[d] = call[d] ELSE call'[d].kind = "none"
  BY <1>1, <1>2, <1>3, NoCallFits DEF Busy
<1>5. ~excused' => ~excused /\ active' /\ (stored # None => age'[stored] < 2)
  BY <1>2 DEF InTouch, Good
<1>6. QED  BY <1>4, <1>5, StaysInTouch

\* The call of c is sent while nothing else is in progress.
LEMMA SendsInTouch ==
    ASSUME Orderly, InTouch, NEW c \in Slots, c # Late, ~Busy(c),
           NEW kind \in {"login", "refresh", "check", "logout"}, NEW sess, NEW last \in BOOLEAN,
           kind = "login" \/ sess = stored, kind = "refresh" => stored # None,
           call' = [call EXCEPT ![c] = Send(kind, sess, last)], Excuse(Crosses(c)),
           UNCHANGED <<token, active, age, stored>>
    PROVE  InTouch' /\ Kept
<1> DEFINE x == Send(kind, sess, last)
<1>1. ~excused' => ~excused /\ ~Crosses(c)  BY DEF Excuse
<1>2. ~excused' => Alone(c) /\ active /\ stored = token /\ (stored # None => age[stored] < 2)
  BY <1>1, UncrossedCall
<1>3. x.kind = kind /\ x.at = "sent" /\ x.sess = sess  BY DEF Send
<1>4. call' = [call EXCEPT ![c] = x] /\ TypeOK  BY DEF Orderly
<1> HIDE DEF x
<1>5. ~excused' => CallInStep(x, stored, token)  BY <1>2, <1>3 DEF CallInStep
<1>6. x.kind # "none"  BY <1>3
<1>7. ~excused' => CallInStep(x, stored', token')  BY <1>5
<1>8. InTouch'  BY <1>2, <1>4, <1>6, <1>7, AloneInTouch
<1>9. QED  BY <1>8 DEF Kept


LEMMA RequestsInTouch ==
    ASSUME Orderly, InTouch, NEW t \in Tabs,
           Answered(t) \/ Rejected(t) \/ RejectedForGood(t) \/ Renewed(t) \/ NotRenewed(t)
    PROVE  InTouch' /\ Kept
<1> DEFINE c == <<t, "shared">>
<1>1. /\ c \in Slots /\ c # Late /\ TypeOK
      /\ Fits(c, call[c]) /\ JustBrought(call[c], age, issued) /\ call[c] \in Call
  BY SlotsOfTabs DEF Orderly, Calls, Fits
<1>2. CASE Answered(t)  BY <1>2, RestInTouch DEF Answered, server
<1>3. CASE Rejected(t)
  <2>1. /\ (stored # None \/ Busy(c)) /\ UNCHANGED <<token, active, age, stored>>
        /\ IF Busy(c) THEN UNCHANGED <<call, excused>>
           ELSE call' = [call EXCEPT ![c] = Send("refresh", stored, FALSE)] /\ Excuse(Crosses(c))
    BY <1>3 DEF Rejected, Renews, server
  <2>2. CASE Busy(c)  BY <1>3, <2>2, RestInTouch DEF Rejected, server
  <2>3. CASE ~Busy(c)
    <3>1. stored # None /\ UNCHANGED <<token, active, age, stored>>
      BY <1>3, <2>3 DEF Rejected, server
    <3>2. call' = [call EXCEPT ![c] = Send("refresh", stored, FALSE)] /\ Excuse(Crosses(c))
      BY <2>1, <2>3
    <3>3. QED  BY <1>1, <2>3, <3>1, <3>2, SendsInTouch
  <2>4. QED  BY <2>2, <2>3
<1>4. CASE RejectedForGood(t)
  <2>1. PICK r \in tab[t].carried :
          /\ ~Accepted(r)
          /\ r[2] \/ stored = None
          /\ stored' = None /\ UNCHANGED <<token, active, age>>
    BY <1>4 DEF RejectedForGood, server
  <2>2. stored = None
    <3>1. Repeated(tab[t].carried, age)  BY DEF Orderly, Recent
    <3>2. QED  BY <2>1, <3>1 DEF Repeated, Accepted
  <2>3. UNCHANGED stored  BY <2>1, <2>2
  <2>4. CASE tab[t].at \in {"login", "entering"}
    <3>1. UNCHANGED <<call, excused>>  BY <1>4, <2>4 DEF RejectedForGood
    <3>2. QED  BY <2>1, <2>3, <3>1, RestInTouch
  <2>5. CASE tab[t].at \notin {"login", "entering"}
    <3>1. Abandon(SlotsOf(t)) /\ Excuse(\E d \in SlotsOf(t) : Busy(d))
      BY <1>4, <2>5 DEF RejectedForGood
    <3>2. QED  BY <2>1, <2>3, <3>1, NothingGivenUp
  <2>6. QED  BY <2>4, <2>5
<1>5. CASE Renewed(t)
  <2>1. /\ call[c].kind = "refresh" /\ call[c].at = "ok" /\ stored' = call[c].sess
        /\ call' = [call EXCEPT ![c] = NoCall] /\ UNCHANGED <<token, active, age, excused>>
    BY <1>5 DEF Renewed, Is, server
  <2>2. call[c].sess # None /\ age[call[c].sess] = 0  BY <1>1, <2>1 DEF JustBrought
  <2>3. ~excused' => Alone(c) /\ active /\ token = call[c].sess
    BY <1>1, <2>1, TouchingCall DEF Busy, CallInStep
  <2>4. ~excused' => /\ Alone(c) /\ active' /\ stored' = token'
                     /\ stored' # None => age'[stored'] < 2
    BY <2>1, <2>2, <2>3
  <2>5. InTouch'  BY <1>1, <2>1, <2>4, NoCallFits, AloneInTouch
  <2>6. QED  BY <2>1, <2>2, <2>5 DEF Kept
<1>6. CASE NotRenewed(t)
  <2>1. call[c].kind = "refresh" /\ call[c].at = "failed" /\ UNCHANGED excused
    BY <1>6 DEF NotRenewed, Is
  <2>2. excused  BY <1>1, <2>1, TouchingCall DEF Busy, CallInStep
  <2>3. QED  BY <2>1, <2>2 DEF InTouch, Kept
<1>7. QED  BY <1>2, <1>3, <1>4, <1>5, <1>6

LEMMA VerifyingInTouch ==
    ASSUME Orderly, InTouch, NEW t \in Tabs, Verify(t) \/ VerifyRefreshed(t) \/ Verified(t)
    PROVE  InTouch' /\ Kept
<1> DEFINE c == <<t, "verify">>
<1>1. /\ c \in Slots /\ c # Late /\ TypeOK
      /\ Fits(c, call[c]) /\ JustBrought(call[c], age, issued) /\ call[c] \in Call
  BY SlotsOfTabs DEF Orderly, Calls, Fits
<1>2. UNCHANGED <<token, active, age>>  BY DEF Verify, VerifyRefreshed, Verified, server
<1>3. CASE Verify(t)
  <2>1. ~Busy(c)  BY <1>3 DEF Verify
  <2>2. CASE stored = None
    <3>1. stored' = None /\ call' = [call EXCEPT ![c] = NoCall] /\ UNCHANGED excused
      BY <1>3, <2>2 DEF Verify, EndVerify
    <3>2. \A d \in Slots : ~excused' => IF Busy(d) THEN call'[d] = call[d] ELSE call'[d].kind = "none"
      BY <1>1, <2>1, <3>1, OneCall, NoCallFits DEF Busy
    <3>3. ~excused' => ~excused /\ active' /\ (stored # None => age'[stored] < 2)
      BY <1>2, <3>1 DEF InTouch, Good
    <3>4. QED  BY <1>2, <2>2, <3>1, <3>2, <3>3, StaysInTouch
  <2>3. CASE stored # None
    <3>1. PICK kind \in {"check", "refresh"} : NextVerify(t, Send(kind, stored, FALSE)) /\ UNCHANGED stored
      BY <1>3, <2>3 DEF Verify
    <3>2. call' = [call EXCEPT ![c] = Send(kind, stored, FALSE)] /\ Excuse(Crosses(c))
      BY <3>1 DEF NextVerify
    <3>3. QED  BY <1>1, <1>2, <2>1, <2>3, <3>1, <3>2, SendsInTouch
  <2>4. QED  BY <2>2, <2>3
<1>4. CASE VerifyRefreshed(t)
  <2>1. call[c].kind = "refresh" /\ call[c].at \in {"ok", "failed"}  BY <1>4 DEF VerifyRefreshed, Is
  <2>2. ~excused => /\ Alone(c) /\ active /\ token = call[c].sess /\ call[c].at = "ok"
    BY <1>1, <2>1, TouchingCall DEF Busy, CallInStep
  <2>3. CASE call[c].at = "failed"
    <3>1. UNCHANGED excused  BY <1>4, <2>3 DEF VerifyRefreshed, EndVerify
    <3>2. QED  BY <2>2, <2>3, <3>1 DEF InTouch, Kept
  <2>4. CASE call[c].at = "ok"
    <3> DEFINE x == Send("check", call[c].sess, call[c].last)
    <3>1. stored' = call[c].sess /\ call' = [call EXCEPT ![c] = x] /\ Excuse(Crosses(c))
      BY <1>4, <2>4 DEF VerifyRefreshed, NextVerify
    <3>2. call[c].sess # None /\ age[call[c].sess] = 0  BY <1>1, <2>1, <2>4 DEF JustBrought
    <3>3. ~excused' => ~excused  BY <3>1 DEF Excuse
    <3>4. x.kind = "check" /\ x.at = "sent" /\ x.sess = call[c].sess  BY DEF Send
    <3> HIDE DEF x
    <3>5. CallInStep(x, call[c].sess, call[c].sess)  BY <3>4 DEF CallInStep
    <3>6. ~excused' => /\ Alone(c) /\ active'
                       /\ stored' # None => age'[stored'] < 2
                       /\ CallInStep(x, stored', token')
      BY <1>2, <2>2, <3>1, <3>2, <3>3, <3>5
    <3>7. x.kind # "none"  BY <3>4
    <3>8. InTouch'  BY <1>1, <3>1, <3>6, <3>7, AloneInTouch
    <3>9. QED  BY <3>1, <3>2, <3>8 DEF Kept
  <2>5. QED  BY <2>1, <2>3, <2>4
<1>5. CASE Verified(t)
  <2>1. call[c].kind = "check"  BY <1>5 DEF Verified, Is
  <2>2. call[c].sess # None  BY <1>1, <2>1 DEF Fits
  <2>3. ~excused => /\ Alone(c) /\ active /\ token = call[c].sess /\ stored = call[c].sess
                    /\ call[c].at \in {"sent", "ok", "unauthorized"}
                    /\ call[c].at = "unauthorized" => ~call[c].last
                    /\ stored # None => age[stored] < 2
    BY <1>1, <2>1, TouchingCall DEF Busy, CallInStep
  <2>4. CASE call[c].at = "ok"
    <3>1. stored' = call[c].sess /\ call' = [call EXCEPT ![c] = NoCall] /\ UNCHANGED excused
      BY <1>5, <2>4 DEF Verified, EndVerify
    <3>2. ~excused' => /\ Alone(c) /\ active' /\ stored' = token'
                       /\ stored' # None => age'[stored'] < 2
      BY <1>2, <2>3, <3>1
    <3>3. InTouch'  BY <1>1, <3>1, <3>2, NoCallFits, AloneInTouch
    <3>4. QED  BY <2>2, <3>1, <3>3 DEF Kept
  <2>5. CASE call[c].at = "unauthorized" /\ ~call[c].last /\ stored # None
    <3> DEFINE x == Send("refresh", stored, TRUE)
    <3>1. UNCHANGED stored /\ call' = [call EXCEPT ![c] = x] /\ Excuse(Crosses(c))
      BY <1>5, <2>5 DEF Verified, NextVerify
    <3>2. ~excused' => ~excused  BY <3>1 DEF Excuse
    <3>3. x.kind = "refresh" /\ x.at = "sent" /\ x.sess = stored  BY DEF Send
    <3> HIDE DEF x
    <3>4. CallInStep(x, stored, stored)  BY <2>5, <3>3 DEF CallInStep
    <3>5. ~excused' => /\ Alone(c) /\ active'
                       /\ stored' # None => age'[stored'] < 2
                       /\ CallInStep(x, stored', token')
      BY <1>2, <2>3, <3>1, <3>2, <3>4
    <3>6. x.kind # "none"  BY <3>3
    <3>7. InTouch'  BY <1>1, <3>1, <3>5, <3>6, AloneInTouch
    <3>8. QED  BY <3>1, <3>7 DEF Kept
  <2>6. CASE call[c].at # "ok" /\ ~(call[c].at = "unauthorized" /\ ~call[c].last /\ stored # None)
    <3>1. UNCHANGED excused /\ call[c].at # "sent"
      BY <1>5, <2>6 DEF Verified, EndVerify, Is
    <3>2. excused  BY <2>2, <2>3, <2>6, <3>1
    <3>3. QED  BY <3>1, <3>2 DEF InTouch, Kept
  <2>7. QED  BY <2>4, <2>5, <2>6
<1>6. QED  BY <1>3, <1>4, <1>5


LEMMA UserInTouch ==
    ASSUME Orderly, InTouch, NEW t \in Tabs, SignIn(t) \/ SignedIn(t) \/ Logout(t) \/ LoggedOut(t)
    PROVE  InTouch' /\ Kept
<1> DEFINE c == <<t, "user">>
<1>1. /\ c \in Slots /\ c # Late /\ TypeOK
      /\ Fits(c, call[c]) /\ JustBrought(call[c], age, issued) /\ call[c] \in Call
  BY SlotsOfTabs DEF Orderly, Calls, Fits
<1>2. UNCHANGED <<token, active, age>>  BY DEF SignIn, SignedIn, Logout, LoggedOut, server
<1>3. CASE SignIn(t)
  <2>1. /\ ~Busy(c) /\ UNCHANGED stored /\ Excuse(Crosses(c))
        /\ call' = [call EXCEPT ![c] = Send("login", None, FALSE)]
    BY <1>3 DEF SignIn
  <2>2. QED  BY <1>1, <1>2, <2>1, SendsInTouch
<1>4. CASE SignedIn(t)
  <2>1. /\ call[c].kind = "login" /\ call[c].at \in {"ok", "failed"}
        /\ call' = [call EXCEPT ![c] = NoCall]
    BY <1>4 DEF SignedIn, Is
  <2>2. ~excused => /\ Alone(c) /\ active /\ (stored # None => age[stored] < 2)
                    /\ IF call[c].at = "ok" THEN token = call[c].sess ELSE stored = token
    BY <1>1, <2>1, TouchingCall DEF Busy, CallInStep
  <2>3. CASE call[c].at = "failed"
    <3>1. UNCHANGED <<stored, excused>>  BY <1>4, <2>3 DEF SignedIn
    <3>2. ~excused' => /\ Alone(c) /\ active' /\ stored' = token'
                       /\ stored' # None => age'[stored'] < 2
      BY <1>2, <2>2, <2>3, <3>1
    <3>3. InTouch'  BY <1>1, <2>1, <3>2, NoCallFits, AloneInTouch
    <3>4. QED  BY <3>1, <3>3 DEF Kept
  <2>4. CASE call[c].at = "ok"
    <3>1. /\ stored' = call[c].sess
          /\ excused' = (excused /\ ~(active /\ ~Crosses(c) /\ token = stored'))
      BY <1>4, <2>4 DEF SignedIn
    <3>2. call[c].sess # None /\ age[call[c].sess] = 0  BY <1>1, <2>1, <2>4 DEF JustBrought
    <3>3. ~excused' => Alone(c) /\ active /\ token = stored'
      <4>1. ~Crosses(c) => Alone(c)  BY DEF Crosses, Alone
      <4>2. QED  BY <2>2, <2>4, <3>1, <4>1
    <3>4. ~excused' => /\ Alone(c) /\ active' /\ stored' = token'
                       /\ stored' # None => age'[stored'] < 2
      BY <1>2, <3>1, <3>2, <3>3
    <3>5. InTouch'  BY <1>1, <2>1, <3>4, NoCallFits, AloneInTouch
    <3>6. QED  BY <3>1, <3>2, <3>5 DEF Kept
  <2>5. QED  BY <2>1, <2>3, <2>4
<1>5. CASE Logout(t)
  <2>1. ~Busy(c) /\ UNCHANGED stored  BY <1>5 DEF Logout
  <2>2. CASE stored = None
    <3>1. UNCHANGED <<call, excused>>  BY <1>5, <2>2 DEF Logout
    <3>2. QED  BY <1>2, <2>1, <3>1, RestInTouch
  <2>3. CASE stored # None
    <3>1. call' = [call EXCEPT ![c] = Send("logout", stored, FALSE)] /\ Excuse(Crosses(c))
      BY <1>5, <2>3 DEF Logout
    <3>2. QED  BY <1>1, <1>2, <2>1, <3>1, SendsInTouch
  <2>4. QED  BY <2>2, <2>3
<1>6. CASE LoggedOut(t)
  <2>1. /\ call[c].kind = "logout" /\ call[c].at \in {"ok", "unauthorized", "failed"}
        /\ stored' = None /\ call' = [call EXCEPT ![c] = NoCall] /\ UNCHANGED excused
    BY <1>6 DEF LoggedOut, Is, Cleared
  <2>2. ~excused => Alone(c) /\ active /\ call[c].at = "ok" /\ token = None
    BY <1>1, <2>1, TouchingCall DEF Busy, CallInStep
  <2>3. ~excused' => /\ Alone(c) /\ active' /\ stored' = token'
                     /\ stored' # None => age'[stored'] < 2
    BY <1>2, <2>1, <2>2
  <2>4. InTouch'  BY <1>1, <2>1, <2>3, NoCallFits, AloneInTouch
  <2>5. Kept  BY <2>1, <2>2 DEF Kept, Is
  <2>6. QED  BY <2>4, <2>5
<1>7. QED  BY <1>3, <1>4, <1>5, <1>6

LEMMA RoutesInTouch ==
    ASSUME Orderly, InTouch, NEW t \in Tabs, Guard(t) \/ Enter(t) \/ Go(t) \/ Reload(t) \/ Request(t)
    PROVE  InTouch' /\ Kept
<1>1. CASE Guard(t) \/ Enter(t) \/ Go(t) \/ Request(t)
  BY <1>1, RestInTouch DEF Guard, Enter, Go, Request, server
<1>2. CASE Reload(t)
  BY <1>2, NothingGivenUp DEF Reload, server
<1>3. QED  BY <1>1, <1>2

LEMMA NextInTouch == Orderly /\ InTouch /\ [Next]_vars => InTouch' /\ Kept
<1> SUFFICES ASSUME Orderly, InTouch, [Next]_vars PROVE InTouch' /\ Kept  OBVIOUS
<1>1. CASE SetActive \/ SignInElsewhere
  <2>1. excused'  BY <1>1 DEF SetActive, SignInElsewhere, Excuse
  <2>2. QED  BY <2>1 DEF InTouch, Kept
<1>2. ASSUME NEW t \in Tabs, Request(t) \/ Go(t) \/ Reload(t) \/ Router(t) PROVE InTouch' /\ Kept
  BY <1>2, RoutesInTouch DEF Router
<1>3. ASSUME NEW t \in Tabs, SignIn(t) \/ Logout(t) PROVE InTouch' /\ Kept  BY <1>3, UserInTouch
<1>4. ASSUME NEW c \in Slots, Serve(c) \/ Lose(c) PROVE InTouch' /\ Kept  BY <1>4, ServerInTouch
<1>5. CASE LateEnds \/ \E n \in Sessions : Expire(n)  BY <1>5, ClockInTouch
<1>6. ASSUME NEW t \in Tabs, Browser(t) PROVE InTouch' /\ Kept
  BY <1>6, RequestsInTouch, VerifyingInTouch, UserInTouch DEF Browser
<1>7. CASE UNCHANGED vars  BY <1>7, RestInTouch DEF vars
<1>8. QED  BY <1>1, <1>2, <1>3, <1>4, <1>5, <1>6, <1>7 DEF Next, People, Rest

\* Unless something came between the two sides, a browser at rest stores the
\* session whose refresh token the server keeps, and none when it keeps none
\* (auth.service.ts refreshToken, authService.ts verifySessionOnServer, logout).
THEOREM SidesAlwaysAgree == Spec => []SidesAgree
<1>1. Init => Orderly /\ InTouch  BY InitOrderly, InitInTouch
<1>2. Orderly /\ InTouch /\ [Next]_vars => Orderly' /\ InTouch'  BY NextOrderly, NextInTouch
<1>3. InTouch => SidesAgree  BY DEF InTouch, SidesAgree
<1>4. QED  BY <1>1, <1>2, <1>3, PTL DEF Spec

\* A browser loses its session only to a logout of its user or to something
\* that came between the two sides, however many tabs refresh, verify and
\* repeat rejected requests (apiClient.ts, authService.ts).
THEOREM SessionAlwaysKept == Spec => SessionKept
<1>1. Init => Orderly /\ InTouch  BY InitOrderly, InitInTouch
<1>2. Orderly /\ InTouch /\ [Next]_vars => Orderly' /\ InTouch'  BY NextOrderly, NextInTouch
<1>3. Orderly /\ InTouch /\ [Next]_vars
        => [stored # None /\ stored' = None /\ ~excused'
              => \E t \in Tabs : Is(<<t, "user">>, "logout", {"ok"})]_vars
  BY NextInTouch DEF Kept
<1>4. QED  BY <1>1, <1>2, <1>3, PTL DEF Spec, SessionKept

=============================================================================

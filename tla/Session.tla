------------------------------ MODULE Session ------------------------------
(***************************************************************************)
(* The session of one account: the refresh token that the server keeps     *)
(* (backend/src/auth, backend/src/user) and the session that the tabs of   *)
(* one browser share in its storage (frontend/src/services, store, utils   *)
(* and the router).                                                        *)
(*                                                                         *)
(* A session is a number: the access and the refresh token that were       *)
(* issued together.  Every tab has three calls of its own that may be in   *)
(* progress together: the refresh that its page requests share, its        *)
(* verification after a load, and what its user asks for.  A call that the *)
(* browser gave up may still be carried out: it then is the late call.     *)
(***************************************************************************)
EXTENDS Naturals

CONSTANTS
    Tabs,        \* tabs of the browser
    Late,        \* the call that the browser no longer waits for
    MaxTokens,   \* BOUND: sessions issued in a behaviour
    MaxOps       \* BOUND: what users and administrators do in a behaviour

ASSUME SessionAssumption ==
    /\ MaxTokens \in Nat
    /\ MaxOps \in Nat
    /\ Late \notin Tabs \X {"shared", "verify", "user"}

None == 0
Sessions == 1 .. MaxTokens
Slots == (Tabs \X {"shared", "verify", "user"}) \cup {Late}
Call == [kind: {"none", "login", "refresh", "check", "logout"},
         at: {"sent", "passed", "ok", "inactive", "unauthorized", "failed"},
         sess: Sessions \cup {None}, last: BOOLEAN]
NoCall == [kind |-> "none", at |-> "sent", sess |-> None, last |-> FALSE]

VARIABLES
    token,     \* refreshToken of the row of users
    active,    \* isActive of the row of users
    issued,    \* sessions issued so far
    age,       \* 1: the access token has expired, 2: the refresh token too
    stored,    \* the session in the storage of the browser
    tab,       \* per tab: the route, the auth store, its page requests
    call,      \* per slot: the call in progress
    ops,       \* actions of people so far
    excused    \* history: see Excuse

vars == <<token, active, issued, age, stored, tab, call, ops, excused>>
server == <<token, active, issued, age>>

Tab == [at: {"home", "login", "entering", "pages"},
        store: {"none", "unchecked", "checked"},
        carried: SUBSET ((Sessions \cup {None}) \X BOOLEAN),
        waiting: BOOLEAN]

TypeOK ==
    /\ token \in Sessions \cup {None}
    /\ active \in BOOLEAN
    /\ issued \in 0 .. MaxTokens
    /\ age \in [Sessions -> 0 .. 2]
    /\ stored \in Sessions \cup {None}
    /\ tab \in [Tabs -> Tab]
    /\ call \in [Slots -> Call]
    /\ ops \in Nat
    /\ excused \in BOOLEAN

Init ==
    /\ token = None
    /\ active = TRUE
    /\ issued = 0
    /\ age = [n \in Sessions |-> 0]
    /\ stored = None
    /\ tab = [t \in Tabs |-> [at |-> "login", store |-> "none", carried |-> {}, waiting |-> FALSE]]
    /\ call = [c \in Slots |-> NoCall]
    /\ ops = 0
    /\ excused = FALSE

-----------------------------------------------------------------------------
Busy(c) == call[c].kind # "none"
Quiet == \A c \in Slots : ~Busy(c)
Is(c, kind, at) == call[c].kind = kind /\ call[c].at \in at
Person == ops < MaxOps /\ ops' = ops + 1

\* The two sides may come apart for a reason outside of them: calls that cross
\* each other, a call that is lost, fails or is given up, an account that is
\* closed, a session that ran out, a sign-in elsewhere.  The next quiet sign-in
\* starts afresh.
Excuse(reason) == excused' = (excused \/ reason)

\* The slot c sends a call.  Another one in progress crosses it.
Send(kind, sess, last) == [kind |-> kind, at |-> "sent", sess |-> sess, last |-> last]
Crosses(c) == \E d \in Slots \ {c} : Busy(d)

\* The browser gives up the calls cs; the server may carry one of them out later.
Abandon(cs) ==
    \E l \in {call[Late]} \cup {call[c] : c \in {c \in cs :
                 call[Late] = NoCall /\ Busy(c) /\ call[c].at \in {"sent", "passed"}}} :
        call' = [c \in Slots |-> IF c = Late THEN l ELSE IF c \in cs THEN NoCall ELSE call[c]]

SlotsOf(t) == {<<t, s>> : s \in {"shared", "verify", "user"}}
Fresh(at, sess) == [at |-> at, store |-> IF sess = None THEN "none" ELSE "unchecked",
                    carried |-> {}, waiting |-> FALSE]

-----------------------------------------------------------------------------
(* The server *)

\* genRefreshToken signs who and the second when: a token issued in the same
\* second is the same token.
Minted == {issued + 1} \cup {n \in {issued} : n # None /\ age[n] = 0}

\* login, ssoLogin and refreshToken compare before they write.
RefreshPasses(sess) == age[sess] < 2 /\ token = sess /\ active
Check(c) ==
    /\ call[c].at = "sent"
    /\ call[c].kind \in {"login", "refresh"}
    /\ call' = [call EXCEPT ![c].at =
          IF IF call[c].kind = "refresh" THEN RefreshPasses(call[c].sess) ELSE active
          THEN "passed" ELSE "failed"]
    /\ UNCHANGED <<server, stored, tab, ops, excused>>

\* They answer with the tokens that they have stored.
SaveForgets(n) == IF token = None THEN n ELSE token
Saved(n) == n
Save(c) ==
    /\ Busy(c) /\ call[c].at = "passed"
    /\ \E n \in Minted \cap Sessions :
         /\ issued' = n
         /\ token' = Saved(n)
         /\ call' = [call EXCEPT ![c].at = "ok", ![c].sess = n]
    /\ UNCHANGED <<active, age, stored, tab, ops, excused>>

\* A sign-in is by password or by a provider (SSO).  ssoLogin does not look
\* whether updateUser could store the token.
SsoUnsaved(c) ==
    /\ Is(c, "login", {"passed"})
    /\ \E n \in Minted \cap Sessions :
         /\ issued' = n
         /\ call' = [call EXCEPT ![c].at = "ok", ![c].sess = n]
    /\ Excuse(TRUE)
    /\ UNCHANGED <<token, active, age, stored, tab, ops>>

LogsOut(c) ==
    /\ Is(c, "logout", {"sent"})
    /\ IF age[call[c].sess] = 0
       THEN call' = [call EXCEPT ![c].at = "ok"] /\ token' = None /\ Excuse(FALSE)
       ELSE call' = [call EXCEPT ![c].at = "unauthorized"] /\ token' = token /\ Excuse(TRUE)
    /\ UNCHANGED <<active, issued, age, stored, tab, ops>>

\* getUserByUserID also answers for an account that is closed.
Looks(c) ==
    /\ Is(c, "check", {"sent"})
    /\ call' = [call EXCEPT ![c].at =
          IF age[call[c].sess] > 0 THEN "unauthorized" ELSE IF active THEN "ok" ELSE "inactive"]
    /\ UNCHANGED <<server, stored, tab, ops, excused>>

\* An error of the server, a lost message or the timeout of the client.
Lose(c) ==
    /\ c # Late /\ Busy(c) /\ call[c].at # "failed"
    /\ \E l \in {call[Late]} \cup {x \in {call[c]} :
                   call[Late] = NoCall /\ x.at \in {"sent", "passed"}} :
         call' = [call EXCEPT ![c].at = "failed", ![Late] = l]
    /\ Excuse(TRUE)
    /\ UNCHANGED <<server, stored, tab, ops>>

LateEnds ==
    /\ Busy(Late)
    /\ call' = [call EXCEPT ![Late] = NoCall]
    /\ UNCHANGED <<server, stored, tab, ops, excused>>

\* A session that a call has just brought: calls last 15 seconds, tokens at
\* least 15 minutes.
JustIssued(n) ==
    \/ \E c \in Slots :
         /\ Busy(c) /\ call[c].sess = n
         /\ IF call[c].kind = "check" THEN call[c].last ELSE call[c].at = "ok"
    \/ \E t \in Tabs : <<n, TRUE>> \in tab[t].carried

\* Tokens run out in the order in which they were issued.
Expire(n) ==
    /\ n <= issued /\ age[n] < 2
    /\ ~JustIssued(n)
    /\ \A m \in 1 .. (n - 1) : age[m] > age[n]
    /\ age' = [age EXCEPT ![n] = @ + 1]
    /\ Excuse(age'[n] = 2 /\ n \in {token, stored})
    /\ UNCHANGED <<token, active, issued, stored, tab, call, ops>>

\* deactivateUser (and deleteUser), activateUser, the employee form.
SetActive ==
    /\ Person
    /\ active' = ~active
    /\ Excuse(TRUE)
    /\ UNCHANGED <<token, issued, age, stored, tab, call>>

\* A sign-in on another device: the account has one refresh token.
SignInElsewhere ==
    /\ Person /\ active
    /\ \E n \in Minted \cap Sessions : issued' = n /\ token' = n
    /\ Excuse(TRUE)
    /\ UNCHANGED <<active, age, stored, tab, call>>

-----------------------------------------------------------------------------
(* Page requests: the interceptor of apiClient *)

Request(t) ==
    /\ Person
    /\ tab[t].at = "pages" /\ tab[t].store = "checked"
    /\ tab' = [tab EXCEPT ![t].carried = @ \cup {<<stored, FALSE>>}]
    /\ UNCHANGED <<server, stored, call, excused>>

Accepted(r) == r[1] # None /\ age[r[1]] = 0
Answered(t) ==
    /\ \E r \in tab[t].carried :
         Accepted(r) /\ tab' = [tab EXCEPT ![t].carried = @ \ {r}]
    /\ UNCHANGED <<server, stored, call, ops, excused>>

\* The promise of the refresh is dropped once it has settled.
StillWaiting(t) == [tab EXCEPT ![t].waiting = TRUE]
NotWaiting(t) == [tab EXCEPT ![t].waiting = FALSE]

\* clearAuthSession and, away from the login page, a load of the login page.
SignedOut(t) ==
    /\ stored' = None
    /\ IF tab[t].at \in {"login", "entering"}
       THEN /\ tab' = NotWaiting(t)
            /\ Abandon({<<t, "shared">>})
       ELSE /\ tab' = [tab EXCEPT ![t] = Fresh("entering", None)]
            /\ Abandon(SlotsOf(t))

\* The first rejected request starts the refresh, the others join it.  It
\* refreshes the session in the storage, not the one that was rejected.
RenewsRejected(r) == r[1]
Renews(r) == stored
Rejected(t) == \E r \in tab[t].carried :
    /\ ~Accepted(r) /\ ~r[2]
    /\ stored # None \/ Busy(<<t, "shared">>)
    /\ tab' = [tab EXCEPT ![t].carried = @ \ {r}, ![t].waiting = TRUE]
    /\ IF Busy(<<t, "shared">>) THEN UNCHANGED <<call, excused>>
       ELSE /\ call' = [call EXCEPT ![<<t, "shared">>] = Send("refresh", Renews(r), FALSE)]
            /\ Excuse(Crosses(<<t, "shared">>))
    /\ UNCHANGED <<server, stored, ops>>

\* A request that was repeated in vain, or without a session to refresh.
RejectedForGood(t) == \E r \in tab[t].carried :
    /\ ~Accepted(r)
    /\ r[2] \/ stored = None
    /\ r[2] \/ ~Busy(<<t, "shared">>)
    /\ stored' = None
    /\ IF tab[t].at \in {"login", "entering"}
       THEN /\ tab' = [tab EXCEPT ![t].carried = @ \ {r}]
            /\ UNCHANGED <<call, excused>>
       ELSE /\ tab' = [tab EXCEPT ![t] = Fresh("entering", None)]
            /\ Abandon(SlotsOf(t))
            /\ Excuse(\E c \in SlotsOf(t) : Busy(c))
    /\ UNCHANGED <<server, ops>>

\* updateAuthSession, and the requests that waited are repeated.
Renewed(t) ==
    /\ Is(<<t, "shared">>, "refresh", {"ok"})
    /\ stored' = call[<<t, "shared">>].sess
    /\ tab' = [NotWaiting(t) EXCEPT ![t].carried = @ \cup {<<stored', TRUE>>}]
    /\ call' = [call EXCEPT ![<<t, "shared">>] = NoCall]
    /\ UNCHANGED <<server, ops, excused>>

NotRenewed(t) ==
    /\ Is(<<t, "shared">>, "refresh", {"failed"})
    /\ SignedOut(t)
    /\ UNCHANGED <<server, ops, excused>>

-----------------------------------------------------------------------------
(* Verification: ProtectedRoute, verifySession of the store, verifyAuthSession *)

VerdictForgotten(sess) == IF sess = None THEN "unchecked" ELSE "checked"
Verdict(sess) == IF sess = None THEN "none" ELSE "checked"
EndVerify(t, sess) ==
    /\ stored' = sess
    /\ tab' = [tab EXCEPT ![t].store = Verdict(sess)]
    /\ call' = [call EXCEPT ![<<t, "verify">>] = NoCall]
    /\ UNCHANGED excused
NextVerify(t, next) ==
    /\ call' = [call EXCEPT ![<<t, "verify">>] = next]
    /\ Excuse(Crosses(<<t, "verify">>))
    /\ UNCHANGED tab

\* The client refreshes first when the access token is about to expire.
Verify(t) ==
    /\ tab[t].at = "pages" /\ tab[t].store = "unchecked" /\ ~Busy(<<t, "verify">>)
    /\ IF stored = None THEN EndVerify(t, None)
       ELSE \E kind \in {"check", "refresh"} :
              /\ kind = "check" => age[stored] = 0
              /\ NextVerify(t, Send(kind, stored, FALSE))
              /\ UNCHANGED stored
    /\ UNCHANGED <<server, ops>>

\* The refresh of the verification has been answered.
VerifyRefreshed(t) == LET c == <<t, "verify">> IN
    /\ Is(c, "refresh", {"ok", "failed"})
    /\ IF call[c].at = "failed" THEN EndVerify(t, None)
       ELSE stored' = call[c].sess /\ NextVerify(t, Send("check", call[c].sess, call[c].last))
    /\ UNCHANGED <<server, ops>>

\* The account has been looked up.  The session that is stored is the one that
\* the look-up started with.  A first 401 is followed by one refresh.
Verified(t) == LET c == <<t, "verify">> IN
    /\ Is(c, "check", {"ok", "inactive", "unauthorized", "failed"})
    /\ IF call[c].at = "ok" THEN EndVerify(t, call[c].sess)
       ELSE IF call[c].at = "unauthorized" /\ ~call[c].last /\ stored # None
       THEN NextVerify(t, Send("refresh", stored, TRUE)) /\ UNCHANGED stored
       ELSE EndVerify(t, None)
    /\ UNCHANGED <<server, ops>>

-----------------------------------------------------------------------------
(* The user of the browser, and the router *)

SignIn(t) ==
    /\ Person
    /\ tab[t].at = "login" /\ ~Busy(<<t, "user">>)
    /\ call' = [call EXCEPT ![<<t, "user">>] = Send("login", None, FALSE)]
    /\ Excuse(Crosses(<<t, "user">>))
    /\ UNCHANGED <<server, stored, tab>>

SignedIn(t) == LET c == <<t, "user">> IN
    /\ Is(c, "login", {"ok", "failed"})
    /\ call' = [call EXCEPT ![c] = NoCall]
    /\ IF call[c].at = "failed" THEN UNCHANGED <<stored, tab, excused>>
       ELSE /\ stored' = call[c].sess
            /\ tab' = [tab EXCEPT ![t].store = "checked", ![t].at = "pages"]
            /\ excused' = (excused /\ ~(active /\ ~Crosses(c) /\ token = stored'))
    /\ UNCHANGED <<server, ops>>

\* logout of authService: the storage is cleared, the store is not.
Logout(t) ==
    /\ Person
    /\ tab[t].at = "pages" /\ tab[t].store = "checked" /\ ~Busy(<<t, "user">>)
    /\ IF stored = None
       THEN tab' = [tab EXCEPT ![t].at = "home"] /\ UNCHANGED <<call, excused>>
       ELSE /\ call' = [call EXCEPT ![<<t, "user">>] = Send("logout", stored, FALSE)]
            /\ Excuse(Crosses(<<t, "user">>))
            /\ UNCHANGED tab
    /\ UNCHANGED <<server, stored>>

ClearedByReload(sess) == sess
Cleared(sess) == None
LoggedOut(t) == LET c == <<t, "user">> IN
    /\ Is(c, "logout", {"ok", "unauthorized", "failed"})
    /\ stored' = Cleared(stored)
    /\ tab' = [tab EXCEPT ![t].at = "home"]
    /\ call' = [call EXCEPT ![c] = NoCall]
    /\ UNCHANGED <<server, ops, excused>>

\* A link, or the back button.
Go(t) ==
    /\ Person
    /\ tab[t].at # "entering"
    /\ \E place \in {"home", "entering", "pages"} : tab' = [tab EXCEPT ![t].at = place]
    /\ UNCHANGED <<server, stored, call, excused>>

\* The page is loaded again: its calls are gone, its store is read from storage.
Reload(t) ==
    /\ Person
    /\ tab' = [tab EXCEPT ![t] = Fresh(IF tab[t].at = "login" THEN "entering" ELSE tab[t].at, stored)]
    /\ Abandon(SlotsOf(t))
    /\ Excuse(\E c \in SlotsOf(t) : Busy(c))
    /\ UNCHANGED <<server, stored>>

\* ProtectedRoute sends a tab without a session in its store to the login page.
Guard(t) ==
    /\ tab[t].at = "pages" /\ tab[t].store = "none"
    /\ tab' = [tab EXCEPT ![t].at = "entering"]
    /\ UNCHANGED <<server, stored, call, ops, excused>>

\* LoginPage sends a browser with a session in its storage to the pages.
Enter(t) ==
    /\ tab[t].at = "entering"
    /\ tab' = [tab EXCEPT ![t].at = IF stored = None THEN "login" ELSE "pages"]
    /\ UNCHANGED <<server, stored, call, ops, excused>>

\* Nothing is in progress and nobody does anything.
Rest == Quiet /\ UNCHANGED vars

-----------------------------------------------------------------------------
Serve(c) == Check(c) \/ Save(c) \/ SsoUnsaved(c) \/ LogsOut(c) \/ Looks(c)

Router(t) == Guard(t) \/ Enter(t)
Browser(t) ==
    \/ Answered(t) \/ Rejected(t) \/ RejectedForGood(t) \/ Renewed(t) \/ NotRenewed(t)
    \/ Verify(t) \/ VerifyRefreshed(t) \/ Verified(t)
    \/ SignedIn(t) \/ LoggedOut(t)

People ==
    \/ SetActive \/ SignInElsewhere
    \/ \E t \in Tabs : Request(t) \/ SignIn(t) \/ Logout(t) \/ Go(t) \/ Reload(t)

Next ==
    \/ People
    \/ \E c \in Slots : Serve(c) \/ Lose(c)
    \/ LateEnds
    \/ \E n \in Sessions : Expire(n)
    \/ \E t \in Tabs : Browser(t) \/ Router(t)
    \/ Rest

\* Calls settle, if only because the client gives them up after 15 seconds, and
\* the event loop of a tab runs what has been settled.
Fairness ==
    /\ WF_vars(\E c \in Slots : Serve(c) \/ Lose(c))
    /\ \A t \in Tabs : WF_vars(Browser(t) \/ Router(t))

Spec == Init /\ [][Next]_vars /\ Fairness

-----------------------------------------------------------------------------
(* Properties *)

\* Unless something came between the two sides, a browser at rest stores the
\* session whose refresh token the server keeps, and none when it keeps none:
\* whatever was refreshed, verified or logged out before (auth.service.ts
\* refreshToken, authService.ts refreshToken, verifySessionOnServer, logout).
SidesAgree == Quiet /\ ~excused => stored = token

\* A browser does not lose its session unless its user logs out or something
\* came between the two sides: that the page requests of a tab share one refresh
\* (apiClient.ts) and that a rotated token is stored is what this rests on.
SessionKept ==
    [][stored # None /\ stored' = None /\ ~excused'
         => \E t \in Tabs : Is(<<t, "user">>, "logout", {"ok"})]_vars

\* A tab never stays at "checking the session" (ProtectedRoute.tsx), whatever
\* fails, expires or is lost.
VerificationSettles ==
    \A t \in Tabs : tab[t].at = "pages" /\ tab[t].store = "unchecked"
                      ~> tab[t].at # "pages" \/ tab[t].store # "unchecked"

\* A page request that waits for a refresh is repeated or ends at the login page.
RequestsSettle == \A t \in Tabs : tab[t].waiting ~> ~tab[t].waiting

\* Nothing that a page waits for hangs: neither its verification nor a request.
NothingHangs == VerificationSettles /\ RequestsSettle

\* A tab that opens a page comes to rest at the login page or at a page it shows.
RouteSettles ==
    \A t \in Tabs : tab[t].at = "entering"
                      ~> tab[t].at # "entering" /\ ~(tab[t].at = "pages" /\ tab[t].store = "none")
=============================================================================

----------------------------- MODULE WebSession -----------------------------
(***************************************************************************)
(* A browser signed in to the app: its tabs share one cookie jar, each tab   *)
(* keeps an access token in memory, sends API calls with it, and on a 401    *)
(* trades the refresh cookie for a new one and tries again.                  *)
(*                                                                          *)
(* The server's sessions are the SessionChain that RefreshTokens implements. *)
(* HTTP exchanges overlap in any order; a request carries the cookie of the  *)
(* moment it is sent, and a response sets the jar when it arrives.           *)
(***************************************************************************)
EXTENDS Naturals, FiniteSets

CONSTANTS Tab,       \* tabs of the browser
          Call,      \* bound: API calls in flight
          Auth,      \* bound: exchanges with /api/auth in flight
          MaxToken,  \* bound: refresh tokens ever issued
          MaxFaults  \* bound: lost exchanges, reloads, deactivations

None == 0
Gone == "gone"    \* the page that asked is no longer there

ASSUME SlotsAssumption == Call \cap Auth = {} /\ None \notin Auth
ASSUME TabsAssumption == Gone \notin Tab

VARIABLES
  live, spent,  \* the server's sessions, see SessionChain
  enabled,      \* the account is active
  cookie,       \* the refresh token in the jar, or None
  tab,          \* tab[t]: the auth store, and the refresh in flight
  req,          \* exchanges in flight
  forked,       \* history: tokens sent by two pages at once, or rotated unheard
  tripped,      \* history: tokens whose reuse has ended a living session
  overlap,      \* history: exchanges about the jar have overlapped
  out,          \* history: tabs that were signed out undisturbed
  faults

chain == <<live, spent>>
history == <<forked, tripped, overlap, out>>
vars == <<live, spent, enabled, cookie, tab, req, history, faults>>

\* Refresh tokens in the order they are issued.
Token == 1..MaxToken
Server == INSTANCE SessionChain

Issued == UNION {live[f] \cup spent[f] : f \in Token}
NewToken == Cardinality(Issued) + 1
CanIssue == NewToken \in Token
FamilyOf(k) == CHOOSE f \in Token : k \in live[f] \cup spent[f]

Req == Call \cup Auth
Free == [op |-> "none", tab |-> Gone]
Exchange(op, t, k) == [op |-> op, tab |-> t, phase |-> "up", sent |-> k,
                       reply |-> "none", new |-> None, on |-> None, retried |-> FALSE, sends |-> 1]

Up(q, op) == req[q].op = op /\ req[q].phase = "up"
Down(q, op) == req[q].op = op /\ req[q].phase = "down"

\* Exchanges of pages that still wait for the answer.
Heard == {q \in Auth : req[q] # Free /\ req[q].tab # Gone}

Fault == faults < MaxFaults /\ faults' = faults + 1

SetSession(t) == [tab EXCEPT ![t].status = "authenticated"]
ClearSession(t) == [tab EXCEPT ![t].status = "anonymous"]

-----------------------------------------------------------------------------
(* The server *)

\* The answer goes down, unless nobody is there to hear it.
Answer(q, reply, new) ==
  /\ req' = [req EXCEPT ![q] = IF @.tab = Gone THEN Free
                               ELSE [@ EXCEPT !.phase = "down", !.reply = reply, !.new = new]]
  /\ forked' = IF req[q].tab = Gone /\ reply = "ok" THEN forked \cup {req[q].sent} ELSE forked

ServerOnly == UNCHANGED <<enabled, cookie, tab, overlap, out, faults>>

\* rotateRefreshToken of the presented token.  At the bound on tokens it fails; any
\* token may have expired by the time it is presented.
Rotate(q, k, f) ==
  \/ /\ k \in live[f] /\ enabled /\ CanIssue
     /\ Server!Advance(f, k, NewToken)
     /\ Answer(q, "ok", NewToken)
     /\ UNCHANGED tripped
  \/ /\ k \in live[f] /\ enabled /\ ~ CanIssue
     /\ Answer(q, "error", None)
     /\ UNCHANGED <<chain, tripped>>
  \/ /\ k \in live[f] /\ ~ enabled
     /\ Server!End(f, k)
     /\ Answer(q, "refused", None)
     /\ UNCHANGED tripped
  \/ /\ k \in spent[f]
     /\ \/ /\ \E new \in live[f] : Server!End(f, new)
           /\ tripped' = tripped \cup {k}
        \/ /\ live[f] = {}
           /\ UNCHANGED <<chain, tripped>>
     /\ Answer(q, "refused", None)
  \/ /\ k \in live[f] \cup spent[f]
     /\ Answer(q, "refused", None)
     /\ UNCHANGED <<chain, tripped>>

ServeRefresh(q) ==
  /\ Up(q, "refresh")
  /\ LET k == req[q].sent
     IN \/ k # None /\ Rotate(q, k, FamilyOf(k))
        \/ k = None /\ Answer(q, "refused", None) /\ UNCHANGED <<chain, tripped>>
  /\ ServerOnly

ServeLogin(q) ==
  /\ Up(q, "login")
  /\ \/ enabled /\ CanIssue /\ Server!Open(NewToken) /\ Answer(q, "ok", NewToken)
     \/ ~ enabled /\ Answer(q, "refused", None) /\ UNCHANGED chain
     \/ enabled /\ ~ CanIssue /\ Answer(q, "error", None) /\ UNCHANGED chain
  /\ UNCHANGED tripped
  /\ ServerOnly

\* A refresh at the server is about to replace the live token of f.
Rotating(f) == \E p \in Auth : Up(p, "refresh") /\ req[p].sent \in live[f]

\* revokeRefreshTokenFamily of the presented token, if there is one.  Its UPDATE may
\* find its candidate rotated, and end nothing: see LogoutEndsSession.
ServeLogout(q) ==
  /\ Up(q, "logout")
  /\ LET k == req[q].sent
     IN \/ /\ k # None
           /\ \E new \in live[FamilyOf(k)] : Server!End(FamilyOf(k), new)
        \/ /\ k # None => live[FamilyOf(k)] = {} \/ Rotating(FamilyOf(k))
           /\ UNCHANGED chain
  /\ Answer(q, "ok", None)
  /\ UNCHANGED tripped
  /\ ServerOnly

\* authenticate.  Any access token may have expired by the time it is verified.
ServeCall(q) ==
  /\ Up(q, "api")
  /\ Answer(q, "refused", None) \/ (enabled /\ Answer(q, "ok", None))
  /\ UNCHANGED <<chain, tripped>>
  /\ ServerOnly

Deactivate ==
  /\ enabled
  /\ enabled' = FALSE
  /\ Fault
  /\ UNCHANGED <<chain, cookie, tab, req, history>>

-----------------------------------------------------------------------------
(* A tab sends *)

\* MUTANT: every caller of refreshAccessToken sends a refresh of its own.
JoinNothing(t) == None

\* The refresh a caller of refreshAccessToken shares, if there is one.
InFlight(t) == tab[t].flight

\* Sending e to /api/auth with the jar's token, among the requests `others`.
Sends(q, e, others) ==
  /\ req[q] = Free
  /\ req' = [others EXCEPT ![q] = e]
  /\ overlap' = (overlap \/ Heard # {})

\* The token is presented by two pages at the same time.
Twice(e, others) ==
  {e.sent} \cap {others[p].sent : p \in {r \in Auth : /\ others[r].op = "refresh"
                                                      /\ others[r].tab # e.tab}}

\* The app is opened or reloaded: useRestoreSession sends a refresh.  What the
\* old page asked for goes on without it; an answer on its way down is dropped.
Load(t, q) ==
  LET e == Exchange("refresh", t, cookie)
      left == [p \in Req |-> IF req[p].tab # t THEN req[p]
                             ELSE IF req[p].phase = "up" THEN [req[p] EXCEPT !.tab = Gone]
                             ELSE Free]
      unheard == {p \in Auth : req[p].tab = t /\ Down(p, "refresh") /\ req[p].reply = "ok"}
  IN /\ \/ tab[t].status = "closed" /\ UNCHANGED faults
        \/ tab[t].status # "closed" /\ Fault
     /\ Sends(q, e, left)
     /\ forked' = forked \cup {req[p].sent : p \in unheard} \cup Twice(e, left)
     /\ tab' = [tab EXCEPT ![t] = [status |-> "checking", flight |-> q]]
     /\ out' = out \ {t}
     /\ UNCHANGED <<chain, enabled, cookie, tripped>>

SendCall(t, q) ==
  /\ tab[t].status = "authenticated"
  /\ req[q] = Free
  /\ req' = [req EXCEPT ![q] = Exchange("api", t, None)]
  /\ UNCHANGED <<chain, enabled, cookie, tab, history, faults>>

\* The button of the form is disabled while it is submitted.
Submitting(t) == \E p \in Auth : req[p].op = "login" /\ req[p].tab = t

\* Bound: users leave a slot to the refresh of a 401.
Room == Cardinality({q \in Auth : req[q] = Free}) > 1

SignIn(t, q) ==
  /\ tab[t].status = "anonymous" /\ ~ Submitting(t) /\ Room
  /\ Sends(q, Exchange("login", t, None), req)
  /\ out' = {}
  /\ UNCHANGED <<chain, enabled, cookie, tab, forked, tripped, faults>>

\* MUTANT: the sign-out button only forgets the session in memory.
SignOutLocally(t, q) ==
  /\ tab[t].status = "authenticated"
  /\ tab' = ClearSession(t)
  /\ out' = IF Heard = {} THEN out \cup {t} ELSE out
  /\ UNCHANGED <<chain, enabled, cookie, req, forked, overlap, tripped, faults>>

SignOut(t, q) ==
  /\ tab[t].status = "authenticated" /\ Room
  /\ Sends(q, Exchange("logout", t, cookie), req)
  /\ UNCHANGED <<chain, enabled, cookie, tab, forked, out, tripped, faults>>

-----------------------------------------------------------------------------
(* A tab hears *)

\* MUTANT: the second attempt does not carry _retry.
AgainUnmarked(e) == [Exchange("api", e.tab, None) EXCEPT !.sends = e.sends + 1]

\* The call is sent a second time; `sends` is history.
Again(e) == [Exchange("api", e.tab, None) EXCEPT !.retried = TRUE, !.sends = e.sends + 1]

\* MUTANT: the waiting calls are only resumed by a refresh that succeeds.
ResumedIfOk(q, k) ==
  [p \in Req |-> IF p = q THEN Free
                 ELSE IF k # None /\ req[p].op = "api" /\ req[p].phase = "waiting" /\ req[p].on = q
                 THEN Again(req[p])
                 ELSE req[p]]

\* The calls that wait for refresh q go out again, or fail.
Resumed(q, k) ==
  [p \in Req |-> IF p = q THEN Free
                 ELSE IF req[p].op = "api" /\ req[p].phase = "waiting" /\ req[p].on = q
                 THEN IF k = None THEN Free
                      ELSE Again(req[p])
                 ELSE req[p]]

\* The answer of a refresh: the session of the tab is what it says.
HearRefresh(q) ==
  /\ Down(q, "refresh")
  /\ LET t == req[q].tab
     IN \/ /\ req[q].reply = "ok"
           /\ cookie' = req[q].new
           /\ tab' = [SetSession(t) EXCEPT ![t].flight = None]
        \/ /\ req[q].reply # "ok"
           /\ cookie' = IF req[q].reply = "refused" /\ req[q].sent # None THEN None ELSE cookie
           /\ tab' = [ClearSession(t) EXCEPT ![t].flight = None]
  /\ req' = Resumed(q, req[q].new)
  /\ UNCHANGED <<chain, enabled, history, faults>>

HearLogin(q) ==
  /\ Down(q, "login")
  /\ LET t == req[q].tab
     IN IF req[q].reply = "ok"
        THEN /\ cookie' = req[q].new
             /\ tab' = SetSession(t)
        ELSE UNCHANGED <<cookie, tab>>
  /\ overlap' = (overlap /\ ~ (Heard = {q} /\ req[q].reply = "ok"))
  /\ req' = [req EXCEPT ![q] = Free]
  /\ UNCHANGED <<chain, enabled, forked, tripped, out, faults>>

\* MUTANT: the cookie is cleared with other attributes than it was set with.
HearLogoutKeepCookie(q) ==
  /\ Down(q, "logout")
  /\ tab' = ClearSession(req[q].tab)
  /\ out' = IF req[q].reply = "ok" /\ Heard = {q} THEN out \cup {req[q].tab} ELSE out
  /\ req' = [req EXCEPT ![q] = Free]
  /\ UNCHANGED <<chain, enabled, cookie, forked, tripped, overlap, faults>>

\* The session is forgotten locally even if the call failed.
HearLogout(q) ==
  /\ Down(q, "logout")
  /\ cookie' = IF req[q].reply = "ok" THEN None ELSE cookie
  /\ tab' = ClearSession(req[q].tab)
  /\ out' = IF req[q].reply = "ok" /\ Heard = {q} THEN out \cup {req[q].tab} ELSE out
  /\ req' = [req EXCEPT ![q] = Free]
  /\ UNCHANGED <<chain, enabled, forked, tripped, overlap, faults>>

\* The response interceptor.  A 401 waits for a refresh and is sent once more.
HearCall(q, p) ==
  /\ Down(q, "api")
  /\ LET t == req[q].tab
         on == InFlight(t)
         wait == [req EXCEPT ![q].phase = "waiting"]
     IN \/ /\ req[q].reply # "refused" \/ req[q].retried
           /\ req' = [req EXCEPT ![q] = Free]
           /\ UNCHANGED <<tab, forked, overlap>>
        \/ /\ req[q].reply = "refused" /\ ~ req[q].retried /\ on # None
           /\ req' = [wait EXCEPT ![q].on = on]
           /\ UNCHANGED <<tab, forked, overlap>>
        \/ /\ req[q].reply = "refused" /\ ~ req[q].retried /\ on = None
           /\ Sends(p, Exchange("refresh", t, cookie), [wait EXCEPT ![q].on = p])
           /\ forked' = forked \cup Twice(Exchange("refresh", t, cookie), req)
           /\ tab' = [tab EXCEPT ![t].flight = p]
  /\ UNCHANGED <<chain, enabled, cookie, tripped, out, faults>>

\* A request or its answer is lost, or the server fails before it has committed.
Lose(q) ==
  /\ req[q] # Free /\ req[q].tab # Gone /\ req[q].phase # "waiting" /\ req[q].reply # "error"
  /\ req' = [req EXCEPT ![q].phase = "down", ![q].reply = "error", ![q].new = None]
  /\ forked' = IF Down(q, "refresh") /\ req[q].reply = "ok" THEN forked \cup {req[q].sent}
               ELSE forked
  /\ overlap' = (overlap \/ q \in Auth)
  /\ Fault
  /\ UNCHANGED <<chain, enabled, cookie, tab, tripped, out>>

-----------------------------------------------------------------------------
Init ==
  /\ Server!Init
  /\ enabled = TRUE
  /\ cookie = None
  /\ tab = [t \in Tab |-> [status |-> "closed", flight |-> None]]
  /\ req = [q \in Req |-> Free]
  /\ forked = {} /\ tripped = {} /\ overlap = FALSE /\ out = {}
  /\ faults = 0

Serve(q) == ServeRefresh(q) \/ ServeLogin(q) \/ ServeLogout(q) \/ ServeCall(q)

Hear(q) == HearRefresh(q) \/ HearLogin(q) \/ HearLogout(q) \/ \E p \in Auth : HearCall(q, p)

Next ==
  \/ \E q \in Req : Serve(q) \/ Hear(q) \/ Lose(q)
  \/ \E t \in Tab : \/ \E q \in Auth : Load(t, q) \/ SignIn(t, q) \/ SignOut(t, q)
                    \/ \E q \in Call : SendCall(t, q)
  \/ Deactivate

Spec == Init /\ [][Next]_vars

-----------------------------------------------------------------------------
(* Properties *)

\* Types.  No call is sent more than twice, whatever it is answered.
TypeOK ==
  /\ live \in [Token -> SUBSET Token] /\ spent \in [Token -> SUBSET Token]
  /\ enabled \in BOOLEAN
  /\ cookie \in Token \cup {None}
  /\ tab \in [Tab -> [status : {"closed", "checking", "authenticated", "anonymous"},
                      flight : Auth \cup {None}]]
  /\ \A q \in Req : req[q] # Free =>
       /\ req[q].op \in IF q \in Call THEN {"api"} ELSE {"refresh", "login", "logout"}
       /\ req[q].tab \in Tab \cup {Gone}
       /\ req[q].phase \in {"up", "down", "waiting"}
       /\ req[q].sent \in Token \cup {None}
       /\ req[q].sends \in 1..2

\* However many calls of a tab meet a 401 at once, reuse detection only ends a
\* session for a token that two pages presented at the same time, or whose
\* successor never reached the browser.
ReuseNeedsCause == tripped \subseteq forked

\* When no exchange is under way, the jar never holds a used-up token: unless
\* exchanges have overlapped, or one was lost, since the last login on its own.
JarIsCurrent == (Heard = {} /\ ~ overlap) => cookie = None \/ cookie \in live[FamilyOf(cookie)]

\* A tab that was signed out while nothing else was under way does not sign
\* itself in again, whatever its earlier calls are answered, until a login.
StaysOut == \A t \in out : tab[t].status = "anonymous"

\* Whoever waits, waits for a refresh of the same tab that is still to be
\* answered: no failing refresh leaves a call or the spinner of a reload behind.
WaitsForRefresh ==
  /\ \A q \in Call : (req[q] # Free /\ req[q].phase = "waiting") => tab[req[q].tab].flight = req[q].on
  /\ \A t \in Tab : tab[t].status = "checking" => tab[t].flight # None
  /\ \A t \in Tab : tab[t].flight # None => LET q == tab[t].flight
                                            IN req[q].op = "refresh" /\ req[q].tab = t
=============================================================================

--------------------------- MODULE WebSessionProofs ---------------------------
(***************************************************************************)
(* Proofs about WebSession, for any number of tabs, calls, exchanges, tokens *)
(* and faults.                                                              *)
(***************************************************************************)
EXTENDS WebSession, TLAPS

-----------------------------------------------------------------------------
(* The invariant *)

Ops(q) == IF q \in Call THEN {"api"} ELSE {"refresh", "login", "logout"}

Sending == [op : {"api", "refresh", "login", "logout"}, tab : Tab \cup {Gone},
            phase : {"up", "down", "waiting"}, sent : Token \cup {None},
            reply : {"none", "ok", "refused", "error"}, new : Token \cup {None},
            on : Auth \cup {None}, retried : BOOLEAN, sends : 1..2]

ChainTypes == live \in [Token -> SUBSET Token] /\ spent \in [Token -> SUBSET Token]

TabTypes == tab \in [Tab -> [status : {"closed", "checking", "authenticated", "anonymous"},
                             flight : Auth \cup {None}]]

ReqTypes == /\ req \in [Req -> {Free} \cup Sending]
            /\ \A q \in Req : req[q] # Free => req[q].op \in Ops(q)

Types == /\ ChainTypes /\ TabTypes /\ ReqTypes
         /\ enabled \in BOOLEAN /\ cookie \in Token \cup {None} /\ out \subseteq Tab

Busy(q) == req[q] # Free
Family(f) == live[f] \cup spent[f]

\* Every token belongs to one session at most, which has one working token at most.
Chains ==
  /\ \A f \in Token : \A x, y \in live[f] : x = y
  /\ \A f \in Token : live[f] \cap spent[f] = {}
  /\ \A f, g \in Token : \A k \in Family(f) : k \in Family(g) => f = g

Issue(k) == \E f \in Token : k \in Family(f)

\* What the browser knows was issued.
Issuing ==
  /\ cookie # None => Issue(cookie)
  /\ \A q \in Auth : Busy(q) => /\ req[q].sent # None => Issue(req[q].sent)
                                /\ req[q].new # None => Issue(req[q].new)

\* How an exchange goes, and how a call.
AuthShapes == \A q \in Auth : Busy(q) =>
  /\ req[q].tab = Gone => req[q].phase = "up"
  /\ req[q].phase # "waiting"
  /\ req[q].phase = "up" <=> req[q].reply = "none"
  /\ req[q].new # None <=> (req[q].reply = "ok" /\ req[q].op \in {"refresh", "login"})
  /\ req[q].op = "login" => req[q].sent = None

CallShapes == \A q \in Call : Busy(q) =>
  /\ req[q].tab = Gone => req[q].phase = "up"
  /\ req[q].phase = "up" <=> req[q].reply = "none"
  /\ req[q].sent = None /\ req[q].new = None
  /\ req[q].sends = 2 => req[q].retried
  /\ req[q].phase = "waiting" => /\ ~ req[q].retried /\ req[q].on # None
                                 /\ tab[req[q].tab].flight = req[q].on

\* A tab has the refresh it knows of, and no other.
Flights ==
  /\ \A q \in Auth : (req[q].op = "refresh" /\ req[q].tab # Gone) => tab[req[q].tab].flight = q
  /\ \A t \in Tab : /\ tab[t].status = "checking" => tab[t].flight # None
                    /\ tab[t].flight # None => /\ req[tab[t].flight].op = "refresh"
                                               /\ req[tab[t].flight].tab = t

\* The token works, or its session is over.
Fine(k) == \E f \in Token : k \in live[f] \/ (k \in spent[f] /\ live[f] = {})

\* The session has had no other token.
Solo(k) == \E f \in Token : live[f] = {k} /\ spent[f] = {}

\* A token that is on its way to the browser has not been presented.
News == \A q \in Auth : (Busy(q) /\ req[q].new # None) =>
  /\ Fine(req[q].new)
  /\ cookie # req[q].new
  /\ \A p \in Auth : Busy(p) => /\ req[p].sent # req[q].new
                                /\ p # q => req[p].new # req[q].new
  /\ req[q].op = "login" => Solo(req[q].new)

Rotated(k) == \E q \in Auth : Down(q, "refresh") /\ req[q].sent = k /\ req[q].reply = "ok"

\* Who presents a used-up token of a living session has a cause.
Twins == \A p, q \in Auth :
  (p # q /\ Up(p, "refresh") /\ Up(q, "refresh") /\ req[p].sent = req[q].sent /\ req[p].sent # None)
    => req[p].sent \in forked

Causes ==
  /\ tripped \subseteq forked
  /\ \A q \in Auth : (Up(q, "refresh") /\ req[q].sent # None)
                       => Fine(req[q].sent) \/ req[q].sent \in forked
  /\ cookie # None => Fine(cookie) \/ cookie \in forked \/ Rotated(cookie)

\* Signed out: there is nothing to sign in with.
Outside == out # {} =>
  /\ cookie = None
  /\ \A t \in out : tab[t].status = "anonymous"
  /\ \A q \in Heard : /\ req[q].op # "login" /\ req[q].new = None
                      /\ Up(q, "refresh") => req[q].sent = None

Alive(k) == \E f \in Token : k \in live[f]
Kin(j, k) == \E f \in Token : j \in Family(f) /\ k \in Family(f)
JarWorks == cookie = None \/ Alive(cookie)

\* One exchange about the jar at a time, and none of a page that is gone matters.
AloneOK(q) ==
  /\ req[q].phase = "up" => JarWorks /\ (req[q].op # "login" => req[q].sent = cookie)
  /\ req[q].op = "login" => JarWorks
  /\ req[q].new # None => Alive(req[q].new)
  /\ req[q].reply = "refused" => (req[q].sent = None => JarWorks)
  /\ req[q].reply = "error" => JarWorks
  /\ Down(q, "logout") => req[q].reply = "ok"

GoneOK(q) == /\ ~ Kin(req[q].sent, cookie)
             /\ \A p \in Heard : ~ Kin(req[q].sent, req[p].new)

Jar == ~ overlap =>
  /\ \A p, q \in Heard : p = q
  /\ \A q \in Auth : (Busy(q) /\ req[q].tab = Gone) => GoneOK(q)
  /\ Heard = {} => JarWorks
  /\ \A q \in Heard : AloneOK(q)

IInv == /\ Types /\ Chains /\ Issuing /\ AuthShapes /\ CallShapes /\ Flights
        /\ News /\ Twins /\ Causes /\ Outside /\ Jar

-----------------------------------------------------------------------------
(* The sessions *)

\* No session has the token None, and a token's session is FamilyOf it.
LEMMA Families ==
  ASSUME ChainTypes, Chains
  PROVE  /\ None \notin Token
         /\ \A k : Issue(k) => k \in Token
         /\ \A j : ~ Kin(j, None) /\ ~ Kin(None, j)
         /\ \A k : Issue(k) => FamilyOf(k) \in Token /\ k \in Family(FamilyOf(k))
         /\ \A f \in Token : \A k \in Family(f) : FamilyOf(k) = f
         /\ \A k : Server!Known(k) <=> Issue(k)
<1>1. None \notin Token
  BY DEF None, Token
<1>2. \A f \in Token : Family(f) \subseteq Token
  BY DEF ChainTypes, Family
<1>3. \A k : Issue(k) => FamilyOf(k) \in Token /\ k \in Family(FamilyOf(k))
  BY DEF Issue, FamilyOf, Family
<1>4. \A f \in Token : \A k \in Family(f) : FamilyOf(k) = f
  BY <1>3 DEF Issue, Chains
<1>5. \A k : Issue(k) => k \in Token
  BY <1>2 DEF Issue
<1>6. \A j : ~ Kin(j, None) /\ ~ Kin(None, j)
  BY <1>1, <1>2 DEF Kin
<1>7. \A k : Server!Known(k) <=> Issue(k)
  BY DEF Server!Known, Issue, Family
<1> QED
  BY <1>1, <1>3, <1>4, <1>5, <1>6, <1>7

\* What an answer does to the sessions: the token that was presented may stop working,
\* and a new one may start.
Effect(old, new) ==
  /\ ChainTypes' /\ Chains'
  /\ \A k : Issue(k) => Issue(k)'
  /\ \A k : Fine(k) => Fine(k)' \/ (k = old /\ new # None)
  /\ \A j, k : Kin(j, k)' => Kin(j, k) \/ (new # None /\ (j = new \/ k = new))
  /\ \A k : Alive(k) => Alive(k)' \/ Kin(k, old)
  /\ \A k : (Solo(k) /\ k # old) => Solo(k)'
  /\ new # None => /\ new \in Token /\ ~ Issue(new) /\ Issue(new)' /\ Alive(new)'
                   /\ \A j : (Kin(j, new)' /\ j # new) => Kin(j, old)

\* No session changes.
LEMMA EffectNone ==
  ASSUME ChainTypes, Chains, UNCHANGED chain, NEW old
  PROVE  Effect(old, None)
<1>1. live' = live /\ spent' = spent
  BY DEF chain
<1> QED
  BY <1>1 DEF Effect, ChainTypes, Chains, Family, Issue, Fine, Kin, Alive, Solo

\* A session begins.
LEMMA EffectOpen ==
  ASSUME ChainTypes, Chains, NEW n \in Token, Server!Open(n)
  PROVE  Effect(None, n) /\ Solo(n)'
<1>1. ~ Issue(n) /\ None \notin Token
  BY Families DEF Server!Open
<1>2. live[n] = {} /\ spent[n] = {} /\ live' = [live EXCEPT ![n] = {n}] /\ spent' = spent
  BY DEF Server!Open
<1>3. /\ ChainTypes' /\ live'[n] = {n} /\ spent'[n] = {}
      /\ \A f \in Token \ {n} : live'[f] = live[f] /\ spent'[f] = spent[f]
  BY <1>2 DEF ChainTypes
<1>4. \A f \in Token : Family(f)' = IF f = n THEN {n} ELSE Family(f)
  BY <1>3 DEF Family
<1>5. Family(n) = {} /\ \A f \in Token : n \notin Family(f)
  BY <1>1, <1>2 DEF Family, Issue
<1>6. Chains'
  <2>1. \A f \in Token : \A x, y \in live'[f] : x = y
    BY <1>3 DEF Chains
  <2>2. \A f \in Token : live'[f] \cap spent'[f] = {}
    BY <1>3 DEF Chains
  <2>3. \A f, g \in Token : \A k \in Family(f)' : k \in Family(g)' => f = g
    BY <1>4, <1>5 DEF Chains
  <2> QED
    BY <2>1, <2>2, <2>3 DEF Chains
<1>7. \A k : Issue(k) => Issue(k)'
  BY <1>4, <1>5 DEF Issue
<1>8. \A k : Fine(k) => Fine(k)'
  BY <1>2, <1>3 DEF Fine
<1>9. \A j, k : Kin(j, k)' => Kin(j, k) \/ (j = n /\ k = n)
  BY <1>4 DEF Kin
<1>10. \A k : Alive(k) => Alive(k)'
  BY <1>2, <1>3 DEF Alive
<1>11. \A k : Solo(k) => Solo(k)'
  BY <1>2, <1>3 DEF Solo
<1>12. Issue(n)' /\ Alive(n)' /\ Solo(n)'
  BY <1>3, <1>4 DEF Issue, Alive, Solo
<1>13. \A j : (Kin(j, n)' /\ j # n) => FALSE
  BY <1>4, <1>5 DEF Kin
<1> QED
  BY <1>1, <1>3, <1>6, <1>7, <1>8, <1>9, <1>10, <1>11, <1>12, <1>13 DEF Effect

\* A session goes on with a new token.
LEMMA EffectAdvance ==
  ASSUME ChainTypes, Chains, NEW f \in Token, NEW k \in live[f], NEW n \in Token,
         Server!Advance(f, k, n)
  PROVE  Effect(k, n)
<1>1. ~ Issue(n) /\ None \notin Token
  BY Families DEF Server!Advance
<1>2. /\ live[f] = {k} /\ live' = [live EXCEPT ![f] = {n}]
      /\ spent' = [spent EXCEPT ![f] = @ \cup {k}]
  BY DEF Server!Advance
<1>3. k \in Token
  BY DEF ChainTypes
<1>4. /\ ChainTypes' /\ live'[f] = {n} /\ spent'[f] = spent[f] \cup {k}
      /\ \A g \in Token \ {f} : live'[g] = live[g] /\ spent'[g] = spent[g]
  BY <1>2, <1>3 DEF ChainTypes
<1>5. \A g \in Token : Family(g)' = IF g = f THEN Family(f) \cup {n} ELSE Family(g)
  BY <1>2, <1>4 DEF Family
<1>6. /\ k \in Family(f) /\ \A g \in Token : n \notin Family(g)
      /\ \A g \in Token \ {f} : k \notin Family(g)
  BY <1>1, <1>2 DEF Family, Issue, Chains
<1>7. Chains'
  <2>1. \A g \in Token : \A x, y \in live'[g] : x = y
    BY <1>4 DEF Chains
  <2>2. \A g \in Token : live'[g] \cap spent'[g] = {}
    BY <1>4, <1>6 DEF Chains, Family
  <2>3. \A g, h \in Token : \A j \in Family(g)' : j \in Family(h)' => g = h
    BY <1>5, <1>6 DEF Chains
  <2> QED
    BY <2>1, <2>2, <2>3 DEF Chains
<1>8. \A j : Issue(j) => Issue(j)'
  BY <1>5 DEF Issue
<1>9. \A j : Fine(j) => Fine(j)' \/ j = k
  BY <1>2, <1>4 DEF Fine
<1>10. \A i, j : Kin(i, j)' => Kin(i, j) \/ i = n \/ j = n
  BY <1>5 DEF Kin
<1>11. \A j : Alive(j) => Alive(j)' \/ Kin(j, k)
  BY <1>2, <1>4, <1>6 DEF Alive, Kin
<1>12. \A j : (Solo(j) /\ j # k) => Solo(j)'
  BY <1>2, <1>4 DEF Solo
<1>13. Issue(n)' /\ Alive(n)'
  BY <1>4, <1>5 DEF Issue, Alive
<1>14. \A j : (Kin(j, n)' /\ j # n) => Kin(j, k)
  BY <1>5, <1>6 DEF Kin
<1> QED
  BY <1>1, <1>4, <1>7, <1>8, <1>9, <1>10, <1>11, <1>12, <1>13, <1>14 DEF Effect

\* A session ends, when a token of it is presented.
LEMMA EffectEnd ==
  ASSUME ChainTypes, Chains, NEW f \in Token, NEW k \in Family(f), NEW x \in live[f],
         Server!End(f, x)
  PROVE  Effect(k, None)
<1>1. /\ live[f] = {x} /\ live' = [live EXCEPT ![f] = {}]
      /\ spent' = [spent EXCEPT ![f] = @ \cup {x}]
  BY DEF Server!End
<1>2. x \in Token
  BY DEF ChainTypes
<1>3. /\ ChainTypes' /\ live'[f] = {} /\ spent'[f] = spent[f] \cup {x}
      /\ \A g \in Token \ {f} : live'[g] = live[g] /\ spent'[g] = spent[g]
  BY <1>1, <1>2 DEF ChainTypes
<1>4. \A g \in Token : Family(g)' = Family(g)
  BY <1>1, <1>3 DEF Family
<1>5. Chains'
  <2>1. \A g \in Token : \A y, z \in live'[g] : y = z
    BY <1>3 DEF Chains
  <2>2. \A g \in Token : live'[g] \cap spent'[g] = {}
    BY <1>3 DEF Chains
  <2> QED
    BY <2>1, <2>2, <1>4 DEF Chains
<1>6. (\A j : Issue(j) => Issue(j)') /\ \A i, j : Kin(i, j)' => Kin(i, j)
  BY <1>4 DEF Issue, Kin
<1>7. \A j : Fine(j) => Fine(j)'
  <2> SUFFICES ASSUME NEW j, NEW g \in Token, j \in live[g] \/ (j \in spent[g] /\ live[g] = {})
               PROVE  j \in live'[g] \/ (j \in spent'[g] /\ live'[g] = {})
    BY DEF Fine
  <2> QED
    BY <1>1, <1>3
<1>8. \A j : Alive(j) => Alive(j)' \/ Kin(j, k)
  <2> SUFFICES ASSUME NEW j, NEW g \in Token, j \in live[g], ~ Kin(j, k)
               PROVE  j \in live'[g]
    BY DEF Alive
  <2>1. g # f
    BY DEF Kin, Family
  <2> QED
    BY <2>1, <1>3
<1>9. \A j : (Solo(j) /\ j # k) => Solo(j)'
  <2> SUFFICES ASSUME NEW j, j # k, NEW g \in Token, live[g] = {j} /\ spent[g] = {}
               PROVE  live'[g] = {j} /\ spent'[g] = {}
    BY DEF Solo
  <2>1. g # f
    BY DEF Family
  <2> QED
    BY <2>1, <1>3
<1> QED
  BY <1>3, <1>5, <1>6, <1>7, <1>8, <1>9 DEF Effect

-----------------------------------------------------------------------------
(* The exchanges *)

\* What is in a slot.
LEMMA Slots ==
  ASSUME Types
  PROVE  /\ Free.op = "none" /\ Free.tab = Gone
         /\ \A q \in Auth : q \in Req /\ q \notin Call /\ q # None
         /\ \A q \in Call : q \in Req /\ q \notin Auth
         /\ \A q \in Req : Busy(q) => req[q] \in Sending /\ req[q].op # "none" /\ req[q] # Free
         /\ \A q \in Req : ~ Busy(q) => req[q].op = "none" /\ req[q].tab = Gone
         /\ \A q \in Auth : Busy(q) => req[q].op \in {"refresh", "login", "logout"}
         /\ \A q \in Call : Busy(q) => req[q].op = "api"
         /\ \A q \in Auth : q \in Heard <=> (Busy(q) /\ req[q].tab # Gone)
         /\ Heard \subseteq Auth
<1>1. Free.op = "none" /\ Free.tab = Gone
  BY DEF Free
<1>2. /\ \A q \in Auth : q \in Req /\ q \notin Call /\ q # None
      /\ \A q \in Call : q \in Req /\ q \notin Auth
  BY SlotsAssumption DEF Req
<1>3. \A q \in Req : Busy(q) => req[q] \in Sending /\ req[q].op \in Ops(q)
  BY DEF Types, ReqTypes, Busy
<1>4. \A q \in Req : Busy(q) => req[q].op # "none" /\ req[q] # Free
  BY <1>3 DEF Ops, Busy
<1>5. \A q \in Req : ~ Busy(q) => req[q].op = "none" /\ req[q].tab = Gone
  BY <1>1 DEF Busy
<1>6. \A q \in Auth : q \in Heard <=> (Busy(q) /\ req[q].tab # Gone)
  BY DEF Heard, Busy
<1>7. (\A q \in Auth : Busy(q) => req[q].op \in {"refresh", "login", "logout"})
      /\ \A q \in Call : Busy(q) => req[q].op = "api"
  BY <1>2, <1>3 DEF Ops
<1> QED
  BY <1>1, <1>2, <1>3, <1>4, <1>5, <1>6, <1>7 DEF Heard

\* What is sent up or answered.
LEMMA Sent ==
  ASSUME Types, NEW q \in Req, Busy(q)
  PROVE  /\ req[q].op \in {"api", "refresh", "login", "logout"} /\ req[q].tab \in Tab \cup {Gone}
         /\ req[q].phase \in {"up", "down", "waiting"} /\ req[q].sent \in Token \cup {None}
         /\ req[q].reply \in {"none", "ok", "refused", "error"}
         /\ req[q].new \in Token \cup {None} /\ req[q].on \in Auth \cup {None}
         /\ req[q].retried \in BOOLEAN /\ req[q].sends \in 1..2
<1>1. req[q] \in Sending
  BY Slots
<1> QED
  BY <1>1 DEF Sending

-----------------------------------------------------------------------------
(* The server *)

\* The server answers, with one effect on the sessions.
LEMMA AnswerStep ==
  ASSUME IInv, NEW q \in Req, NEW op, Up(q, op), op # "none",
         NEW reply \in {"ok", "refused", "error"}, NEW new \in Token \cup {None},
         Answer(q, reply, new), UNCHANGED <<enabled, cookie, tab, overlap, out>>,
         Effect(req[q].sent, new),
         new # None <=> (reply = "ok" /\ op \in {"refresh", "login"}),
         (op = "login" /\ new # None) => Solo(new)',
         (op = "refresh" /\ new # None) => req[q].sent # None,
         op = "logout" => reply = "ok",
         reply = "error" => UNCHANGED chain,
         tripped' \subseteq forked
  PROVE  IInv'
<1> USE DEF IInv
<1> DEFINE r == [req[q] EXCEPT !.phase = "down", !.reply = reply, !.new = new]
           old == req[q].sent
<1>1. Types /\ ReqTypes
  BY DEF Types
<1>2. /\ Busy(q) /\ req[q] \in Sending /\ req[q].op = op /\ req[q].phase = "up"
      /\ op \in {"api", "refresh", "login", "logout"} /\ old \in Token \cup {None}
  <2>1. Busy(q)
    BY <1>1, Slots DEF Up
  <2> QED
    BY <2>1, <1>1, Slots, Sent DEF Up
<1>3. /\ r \in Sending /\ r.op = op /\ r.tab = req[q].tab /\ r.phase = "down" /\ r.sent = old
      /\ r.reply = reply /\ r.new = new /\ r.on = req[q].on /\ r.retried = req[q].retried
      /\ r.sends = req[q].sends /\ r # Free
  <2>1. r \in Sending /\ r.op = op
    BY <1>2 DEF Sending
  <2>2. r # Free
    BY <2>1, <1>2 DEF Free
  <2> QED
    BY <2>1, <2>2, <1>2 DEF Sending
<1>4. req' = [req EXCEPT ![q] = IF req[q].tab = Gone THEN Free ELSE r]
  BY DEF Answer
<1> HIDE DEF r
<1>5. /\ req' \in [Req -> {Free} \cup Sending]
      /\ \A p \in Req \ {q} : req'[p] = req[p]
      /\ req[q].tab = Gone => req'[q] = Free
      /\ req[q].tab # Gone => req'[q] = r
  BY <1>1, <1>3, <1>4 DEF ReqTypes
<1>6. forked \subseteq forked' /\ ((req[q].tab = Gone /\ reply = "ok") => old \in forked')
  BY DEF Answer
<1>7. ReqTypes'
  <2>1. \A p \in Req : req'[p] # Free => req'[p].op \in Ops(p)
    BY <1>1, <1>2, <1>3, <1>5 DEF ReqTypes, Busy
  <2> QED
    BY <2>1, <1>5 DEF ReqTypes, Ops
<1>8. Types' /\ Chains'
  BY <1>1, <1>7 DEF Types, TabTypes, Effect
<1>9. None \notin Token /\ (new # None => new \in Token /\ ~ Issue(new))
  BY Families DEF Types, Effect
<1>10. \A p \in Req : Busy(p)' =>
         /\ Busy(p) /\ req'[p].op = req[p].op /\ req'[p].tab = req[p].tab
         /\ req'[p].sent = req[p].sent /\ req'[p].sends = req[p].sends
         /\ req'[p].retried = req[p].retried /\ req'[p].on = req[p].on
         /\ p # q => req'[p] = req[p]
         /\ p = q => (req'[p] = r /\ req[p].tab # Gone)
  BY <1>2, <1>3, <1>5 DEF Busy
<1>11. q \in Call => op = "api" /\ old = None /\ new = None
  BY <1>1, <1>2, Slots DEF CallShapes
<1>12. op = "login" => old = None
  <2>1. op = "login" => q \in Auth
    BY <1>11, <1>2 DEF Req
  <2> QED
    BY <2>1, <1>2 DEF AuthShapes
<1>13. (new # None /\ old # None) => op = "refresh" /\ q \in Auth
  BY <1>11, <1>12, <1>2 DEF Req
<1>14. Issuing'
  <2>1. cookie' # None => Issue(cookie)'
    BY DEF Issuing, Effect
  <2>2. ASSUME NEW p \in Auth, Busy(p)'
        PROVE  /\ req'[p].sent # None => Issue(req[p].sent)'
               /\ req'[p].new # None => Issue(req[p].new)'
    <3>1. p \in Req
      BY DEF Req
    <3>2. \A k : (k = req'[p].sent /\ k # None) => Issue(k)'
      BY <2>2, <3>1, <1>10 DEF Issuing, Effect
    <3>3. \A k : (k = req'[p].new /\ k # None) => Issue(k)'
      <4>1. CASE p = q
        BY <2>2, <3>1, <4>1, <1>3, <1>10 DEF Effect
      <4>2. CASE p # q
        BY <2>2, <3>1, <4>2, <1>10 DEF Issuing, Effect
      <4> QED
        BY <4>1, <4>2
    <3> QED
      BY <3>2, <3>3 DEF Issue
  <2> QED
    BY <2>1, <2>2 DEF Issuing
<1>15. AuthShapes'
  <2> SUFFICES ASSUME NEW p \in Auth, Busy(p)'
               PROVE  /\ req'[p].tab = Gone => req'[p].phase = "up"
                      /\ req'[p].phase # "waiting"
                      /\ req'[p].phase = "up" <=> req'[p].reply = "none"
                      /\ req'[p].new # None <=> (req'[p].reply = "ok" /\ req'[p].op \in {"refresh", "login"})
                      /\ req'[p].op = "login" => req'[p].sent = None
    BY DEF AuthShapes
  <2>1. p \in Req
    BY DEF Req
  <2>2. CASE p = q
    BY <2>1, <2>2, <1>3, <1>10, <1>12
  <2>3. CASE p # q
    BY <2>1, <2>3, <1>10 DEF AuthShapes
  <2> QED
    BY <2>2, <2>3
<1>16. CallShapes'
  <2> SUFFICES ASSUME NEW p \in Call, Busy(p)'
               PROVE  /\ req'[p].tab = Gone => req'[p].phase = "up"
                      /\ req'[p].phase = "up" <=> req'[p].reply = "none"
                      /\ req'[p].sent = None /\ req'[p].new = None
                      /\ req'[p].sends = 2 => req'[p].retried
                      /\ req'[p].phase = "waiting" =>
                           /\ ~ req'[p].retried /\ req'[p].on # None
                           /\ tab'[req'[p].tab].flight = req'[p].on
    BY DEF CallShapes
  <2>1. p \in Req
    BY DEF Req
  <2>2. CASE p = q
    BY <2>1, <2>2, <1>3, <1>10, <1>11 DEF CallShapes
  <2>3. CASE p # q
    BY <2>1, <2>3, <1>10 DEF CallShapes
  <2> QED
    BY <2>2, <2>3
<1>17. Flights'
  <2>1. \A p \in Auth : (req'[p].op = "refresh" /\ req'[p].tab # Gone) => tab'[req'[p].tab].flight = p
    <3> SUFFICES ASSUME NEW p \in Auth, req'[p].op = "refresh", req'[p].tab # Gone
                 PROVE  tab'[req'[p].tab].flight = p
      OBVIOUS
    <3>1. p \in Req /\ Busy(p)'
      BY <1>8, Slots DEF Req, Busy, Free
    <3> QED
      BY <3>1, <1>10 DEF Flights
  <2>2. ASSUME NEW t \in Tab, tab[t].flight # None
        PROVE  req'[tab[t].flight].op = "refresh" /\ req'[tab[t].flight].tab = t
    <3>1. tab[t].flight \in Auth /\ req[tab[t].flight].op = "refresh" /\ req[tab[t].flight].tab = t
      BY <1>1, <2>2 DEF Types, TabTypes, Flights
    <3>2. t # Gone
      BY TabsAssumption
    <3>3. CASE tab[t].flight = q
      BY <3>1, <3>2, <3>3, <1>2, <1>3, <1>5
    <3>4. CASE tab[t].flight # q
      BY <3>1, <3>4, <1>5 DEF Req
    <3> QED
      BY <3>3, <3>4
  <2> QED
    BY <2>1, <2>2 DEF Flights
<1>18. News'
  <2> SUFFICES ASSUME NEW p \in Auth, Busy(p)', req'[p].new # None
               PROVE  /\ Fine(req[p].new)' /\ cookie # req'[p].new
                      /\ \A s \in Auth : Busy(s)' => /\ req'[s].sent # req'[p].new
                                                     /\ s # p => req'[s].new # req'[p].new
                      /\ req'[p].op = "login" => Solo(req[p].new)'
    BY DEF News
  <2>1. p \in Req /\ \A s \in Auth : s \in Req
    BY DEF Req
  <2>2. CASE p = q
    <3>1. req'[p].new = new /\ new # None
      BY <2>1, <2>2, <1>3, <1>10
    <3>2. Fine(new)'
      BY <3>1 DEF Effect, Alive, Fine
    <3>3. cookie # new
      BY <3>1, <1>9 DEF Issuing
    <3>4. \A s \in Auth : Busy(s)' => req'[s].sent # new /\ (s # p => req'[s].new # new)
      BY <2>1, <2>2, <3>1, <1>9, <1>10 DEF Issuing
    <3>5. req'[p].op = "login" => Solo(new)'
      BY <2>1, <2>2, <3>1, <1>3, <1>10
    <3> QED
      BY <3>1, <3>2, <3>3, <3>4, <3>5 DEF Fine, Solo
  <2>3. CASE p # q
    <3>1. req'[p] = req[p] /\ Busy(p)
      BY <2>1, <2>3, <1>10
    <3>2. /\ Fine(req[p].new) /\ cookie # req[p].new
          /\ \A s \in Auth : Busy(s) => /\ req[s].sent # req[p].new
                                        /\ s # p => req[s].new # req[p].new
          /\ req[p].op = "login" => Solo(req[p].new)
      BY <3>1 DEF News
    <3>3. req[p].new # old
      <4>1. q \in Auth => req[p].new # old
        BY <3>2, <1>2
      <4> QED
        BY <4>1, <3>1, <1>11 DEF Req
    <3>4. \A k : k = req[p].new => Fine(k)' /\ (req[p].op = "login" => Solo(k)')
      BY <3>1, <3>2, <3>3 DEF Effect
    <3>5. new # req[p].new
      BY <3>1, <1>9 DEF Issuing
    <3>6. \A s \in Auth : Busy(s)' => /\ req'[s].sent # req[p].new
                                      /\ s # p => req'[s].new # req[p].new
      BY <2>1, <3>2, <3>5, <1>3, <1>10
    <3> QED
      BY <3>1, <3>2, <3>4, <3>6 DEF Fine, Solo
  <2> QED
    BY <2>2, <2>3
<1>19. ASSUME NEW p \in Auth, Up(p, "refresh")'
       PROVE  p # q /\ req'[p] = req[p] /\ Up(p, "refresh")
  <2>1. p \in Req /\ Busy(p)'
    BY <1>8, <1>19, Slots DEF Req, Up, Busy, Free
  <2> QED
    BY <2>1, <1>3, <1>10, <1>19 DEF Up
<1>20. Twins'
  BY <1>6, <1>19 DEF Twins
<1>21. Causes'
  <2>1. tripped' \subseteq forked'
    BY <1>6
  <2>2. ASSUME NEW p \in Auth, Up(p, "refresh")', req'[p].sent # None
        PROVE  Fine(req[p].sent)' \/ req'[p].sent \in forked'
    <3>1. p # q /\ req'[p] = req[p] /\ Up(p, "refresh")
      BY <1>19, <2>2
    <3>2. Fine(req[p].sent) \/ req[p].sent \in forked
      BY <2>2, <3>1 DEF Causes
    <3>3. (req[p].sent = old /\ new # None) => req[p].sent \in forked
      BY <2>2, <3>1, <1>2, <1>13 DEF Twins, Up
    <3>4. \A k : k = req[p].sent => Fine(k)' \/ k \in forked'
      BY <3>2, <3>3, <1>6 DEF Effect
    <3> QED
      BY <3>1, <3>4 DEF Fine
  <2>3. ASSUME cookie # None
        PROVE  Fine(cookie)' \/ cookie \in forked' \/ Rotated(cookie)'
    <3>1. CASE Fine(cookie) /\ ~ (cookie = old /\ new # None)
      BY <3>1 DEF Effect
    <3>2. CASE cookie = old /\ new # None
      <4>1. op = "refresh" /\ q \in Auth /\ reply = "ok"
        BY <2>3, <3>2, <1>13
      <4>2. CASE req[q].tab = Gone
        BY <3>2, <4>1, <4>2, <1>6
      <4>3. CASE req[q].tab # Gone
        <5>1. req'[q] = r
          BY <4>3, <1>5
        <5> QED
          BY <3>2, <4>1, <5>1, <1>3 DEF Rotated, Down
      <4> QED
        BY <4>2, <4>3
    <3>3. CASE cookie \in forked
      BY <3>3, <1>6
    <3>4. CASE Rotated(cookie)
      <4>1. PICK p \in Auth : Down(p, "refresh") /\ req[p].sent = cookie /\ req[p].reply = "ok"
        BY <3>4 DEF Rotated
      <4>2. p # q /\ p \in Req
        BY <4>1, <1>2 DEF Down, Req
      <4> QED
        BY <4>1, <4>2, <1>5 DEF Rotated, Down
    <3> QED
      BY <2>3, <3>1, <3>2, <3>3, <3>4 DEF Causes
  <2> QED
    BY <2>1, <2>2, <2>3 DEF Causes
<1>22. \A p \in Heard' : p \in Heard /\ p \in Auth /\ p \in Req /\ Busy(p)'
  BY <1>10 DEF Heard, Busy, Req
<1>23. Outside'
  <2> SUFFICES ASSUME out # {}
               PROVE  /\ cookie = None
                      /\ \A t \in out : tab[t].status = "anonymous"
                      /\ \A p \in Heard' : /\ req'[p].op # "login" /\ req'[p].new = None
                                           /\ Up(p, "refresh")' => req'[p].sent = None
    BY DEF Outside
  <2>1. \A p \in Heard : /\ req[p].op # "login" /\ req[p].new = None
                         /\ Up(p, "refresh") => req[p].sent = None
    BY DEF Outside
  <2>2. ASSUME NEW p \in Heard' PROVE req'[p].op # "login" /\ req'[p].new = None
    <3>1. CASE p = q
      BY <2>1, <2>2, <3>1, <1>2, <1>3, <1>10, <1>22 DEF Up
    <3>2. CASE p # q
      BY <2>1, <2>2, <3>2, <1>10, <1>22
    <3> QED
      BY <3>1, <3>2
  <2>3. \A p \in Heard' : Up(p, "refresh")' => req'[p].sent = None
    BY <2>1, <1>19, <1>22
  <2> QED
    BY <2>2, <2>3 DEF Outside
<1>24. ASSUME NEW j, NEW k, j # new \/ new = None, k # new \/ new = None, ~ Kin(j, k)
       PROVE  ~ Kin(j, k)'
  BY <1>24 DEF Effect
<1>25. ASSUME ~ overlap, q \notin Heard PROVE ~ Kin(cookie, old) /\ \A p \in Heard : ~ Kin(req[p].new, old)
  <2>1. \A j, k : Kin(j, k) => Kin(k, j)
    BY DEF Kin
  <2>2. \A j : ~ Kin(j, None)
    BY <1>1, Families DEF Types
  <2>3. CASE q \in Call
    BY <2>2, <2>3, <1>11
  <2>4. CASE q \in Auth
    <3>1. req[q].tab = Gone
      BY <2>4, <1>1, <1>2, <1>25, Slots
    <3>2. ~ Kin(old, cookie) /\ \A p \in Heard : ~ Kin(old, req[p].new)
      BY <2>4, <3>1, <1>2, <1>25 DEF Jar, GoneOK
    <3> QED
      BY <3>2, <2>1
  <2> QED
    BY <2>3, <2>4 DEF Req
<1>26. ASSUME ~ overlap, JarWorks, ~ Kin(cookie, old) PROVE JarWorks'
  BY <1>26 DEF JarWorks, Effect
<1>27. Jar'
  <2> SUFFICES ASSUME ~ overlap
               PROVE  /\ \A p, s \in Heard' : p = s
                      /\ \A p \in Auth : (Busy(p)' /\ req'[p].tab = Gone) => GoneOK(p)'
                      /\ Heard' = {} => JarWorks'
                      /\ \A p \in Heard' : AloneOK(p)'
    BY DEF Jar
  <2>1. /\ \A p, s \in Heard : p = s
        /\ \A p \in Auth : (Busy(p) /\ req[p].tab = Gone) => GoneOK(p)
        /\ Heard = {} => JarWorks
        /\ \A p \in Heard : AloneOK(p)
    BY DEF Jar
  <2>2. \A p, s \in Heard' : p = s
    BY <2>1, <1>22
  <2>3. ASSUME NEW p \in Auth, Busy(p)', req'[p].tab = Gone PROVE GoneOK(p)'
    <3>1. p \in Req /\ p # q /\ req'[p] = req[p] /\ Busy(p)
      BY <2>3, <1>3, <1>10 DEF Req
    <3>2. ~ Kin(req[p].sent, cookie) /\ \A s \in Heard : ~ Kin(req[p].sent, req[s].new)
      BY <2>1, <2>3, <3>1 DEF GoneOK
    <3>3. (req[p].sent # new /\ cookie # new) \/ new = None
      BY <2>3, <3>1, <1>9 DEF Issuing
    <3> PICK j : j = req[p].sent
      OBVIOUS
    <3>4. \A k : k = cookie => ~ Kin(j, k)'
      BY <3>2, <3>3, <1>24
    <3>5. ASSUME NEW s \in Heard', NEW k, k = req'[s].new PROVE ~ Kin(j, k)'
      <4>1. CASE s # q
        <5>1. s \in Heard /\ req'[s] = req[s] /\ Busy(s) /\ s \in Auth
          BY <3>5, <4>1, <1>10, <1>22
        <5>2. k # new \/ new = None
          BY <3>5, <5>1, <1>9 DEF Issuing
        <5> QED
          BY <3>2, <3>3, <3>5, <5>1, <5>2, <1>24
      <4>2. CASE s = q
        <5>1. q \in Heard /\ req'[q].new = new /\ q \in Auth
          BY <3>5, <4>2, <1>3, <1>10, <1>22
        <5>2. CASE new = None
          <6>1. None \notin Token /\ ChainTypes'
            BY <1>8, <1>9 DEF Types
          <6>2. ~ Kin(j, None)'
            BY <6>1 DEF Kin, ChainTypes, Family
          <6> QED
            BY <6>2, <3>5, <5>1, <5>2, <4>2
        <5>3. CASE new # None
          <6>1. ~ Kin(req[p].sent, old)
            <7>1. CASE old = None
              BY <7>1, <1>1, Families DEF Types
            <7>2. CASE old # None
              <8>1. op = "refresh" /\ AloneOK(q)
                BY <2>1, <5>1, <5>3, <7>2, <1>13
              <8>2. old = cookie
                BY <8>1, <1>2 DEF AloneOK
              <8> QED
                BY <8>2, <3>2
            <7> QED
              BY <7>1, <7>2
          <6>2. req[p].sent # new
            BY <3>3, <5>3
          <6>3. ~ Kin(j, new)'
            BY <6>1, <6>2, <5>3 DEF Effect
          <6> QED
            BY <6>3, <3>5, <5>1, <4>2
        <5> QED
          BY <5>2, <5>3
      <4> QED
        BY <4>1, <4>2
    <3> QED
      BY <3>1, <3>4, <3>5 DEF GoneOK, Kin
  <2>4. ASSUME Heard' = {} PROVE JarWorks'
    <3>1. q \notin Heard
      <4>1. q \in Heard => req'[q] = r /\ req[q].tab # Gone /\ q \in Auth
        BY <1>1, <1>5, Slots
      <4>2. q \in Heard => q \in Heard'
        BY <4>1, <1>3, <1>8, Slots DEF Heard
      <4> QED
        BY <4>2, <2>4
    <3>2. Heard = {}
      <4>1. \A p \in Heard : p # q => p \in Heard'
        BY <1>1, <1>5, Slots DEF Heard
      <4> QED
        BY <3>1, <4>1, <2>4
    <3> QED
      BY <2>1, <3>1, <3>2, <1>25, <1>26
  <2>5. ASSUME NEW p \in Heard' PROVE AloneOK(p)'
    <3>1. p \in Heard /\ p \in Auth /\ p \in Req /\ Busy(p)' /\ AloneOK(p)
      BY <2>1, <2>5, <1>22
    <3>2. CASE p # q
      <4>1. req'[p] = req[p] /\ q \notin Heard
        BY <2>1, <3>1, <3>2, <1>10
      <4>2. ~ Kin(cookie, old) /\ ~ Kin(req[p].new, old)
        BY <3>1, <4>1, <1>25
      <4>3. JarWorks => JarWorks'
        BY <4>2, <1>26
      <4>4. \A k : (k = req[p].new /\ Alive(k)) => Alive(k)'
        BY <4>2 DEF Effect
      <4> QED
        BY <3>1, <4>1, <4>3, <4>4 DEF AloneOK, Down, Alive
    <3>3. CASE p = q
      <4>1. req'[p] = r
        BY <3>1, <3>3, <1>10
      <4>2. JarWorks /\ (op # "login" => old = cookie)
        BY <3>1, <3>3, <1>2 DEF AloneOK
      <4>3. old = None => JarWorks'
        <5>1. ~ Kin(cookie, None)
          BY <1>1, Families DEF Types
        <5> QED
          BY <5>1, <4>2, <1>26
      <4>4. op = "login" => JarWorks'
        BY <4>3, <1>12
      <4>5. new # None => Alive(new)'
        BY DEF Effect
      <4>6. reply = "error" => JarWorks'
        BY <4>2 DEF chain, JarWorks, Alive
      <4> QED
        BY <4>1, <4>3, <4>4, <4>5, <4>6, <1>3 DEF AloneOK, Down, Alive
    <3> QED
      BY <3>2, <3>3
  <2> QED
    BY <2>2, <2>3, <2>4, <2>5
<1> QED
  BY <1>8, <1>14, <1>15, <1>16, <1>17, <1>18, <1>20, <1>21, <1>23, <1>27

\* What a slot in use says of the slot.
LEMMA OpSlots ==
  ASSUME Types, NEW q \in Req
  PROVE  /\ req[q].op = "api" => Busy(q) /\ q \in Call
         /\ req[q].op \in {"refresh", "login", "logout"} => Busy(q) /\ q \in Auth
<1>1. req[q].op # "none" => Busy(q)
  BY Slots
<1>2. q \in Call \/ q \in Auth
  BY DEF Req
<1> QED
  BY <1>1, <1>2, Slots

\* The token that a refresh or a logout presents belongs to one session.
LEMMA Presented ==
  ASSUME IInv, NEW q \in Auth, Busy(q), NEW k, k = req[q].sent, k # None
  PROVE  FamilyOf(k) \in Token /\ k \in Family(FamilyOf(k))
<1>1. Issue(k)
  BY DEF IInv, Issuing
<1> QED
  BY <1>1, Families DEF IInv, Types

\* rotateRefreshToken answers.
LEMMA ServeRefreshStep ==
  ASSUME IInv, NEW q \in Req, ServeRefresh(q)
  PROVE  IInv'
<1>1. /\ Types /\ Chains /\ ChainTypes /\ Causes /\ Issuing
      /\ Up(q, "refresh") /\ UNCHANGED <<enabled, cookie, tab, overlap, out>>
      /\ tripped \subseteq forked
  BY DEF IInv, Types, Causes, ServeRefresh, ServerOnly
<1>2. q \in Auth /\ Busy(q)
  BY <1>1, OpSlots DEF Up
<1>3. None \notin Token
  BY <1>1, Families
<1> PICK k : k = req[q].sent
  OBVIOUS
<1>4. CASE k = None
  <2>1. Answer(q, "refused", None) /\ UNCHANGED <<chain, tripped>>
    BY <1>3, <1>4 DEF ServeRefresh
  <2>2. Effect(req[q].sent, None)
    BY <1>1, <2>1, EffectNone
  <2> QED
    BY <1>1, <2>1, <2>2, AnswerStep
<1>5. CASE k # None
  <2> PICK f : f = FamilyOf(k)
    OBVIOUS
  <2>1. f \in Token /\ k \in Family(f)
    BY <1>2, <1>5, Presented
  <2>2. Rotate(q, k, f)
    BY <1>5 DEF ServeRefresh
  <2>3. CASE k \in live[f] /\ enabled /\ CanIssue /\ Server!Advance(f, k, NewToken)
             /\ Answer(q, "ok", NewToken) /\ UNCHANGED tripped
    <3> PICK n : n = NewToken
      OBVIOUS
    <3>1. n \in Token /\ n # None /\ Server!Advance(f, k, n) /\ Answer(q, "ok", n)
      BY <2>3, <1>3 DEF CanIssue
    <3>2. Effect(req[q].sent, n)
      BY <1>1, <2>1, <2>3, <3>1, EffectAdvance
    <3> QED
      BY <1>1, <1>5, <2>3, <3>1, <3>2, AnswerStep
  <2>4. CASE Answer(q, "error", None) /\ UNCHANGED <<chain, tripped>>
    <3>1. Effect(req[q].sent, None)
      BY <1>1, <2>4, EffectNone
    <3> QED
      BY <1>1, <2>4, <3>1, AnswerStep
  <2>5. CASE k \in live[f] /\ Server!End(f, k) /\ Answer(q, "refused", None) /\ UNCHANGED tripped
    <3>1. Effect(req[q].sent, None)
      BY <1>1, <2>1, <2>5, EffectEnd
    <3> QED
      BY <1>1, <2>5, <3>1, AnswerStep
  <2>6. CASE /\ k \in spent[f] /\ \E new \in live[f] : Server!End(f, new)
             /\ tripped' = tripped \cup {k} /\ Answer(q, "refused", None)
    <3>1. PICK x \in live[f] : Server!End(f, x)
      BY <2>6
    <3>2. Effect(req[q].sent, None)
      BY <1>1, <2>1, <3>1, EffectEnd
    <3>3. ~ Fine(k)
      <4>1. k \notin live[f] /\ live[f] # {}
        BY <1>1, <2>1, <2>6, <3>1 DEF Chains
      <4>2. \A g \in Token : k \in Family(g) => g = f
        BY <1>1, <2>1 DEF Chains
      <4> QED
        BY <4>1, <4>2 DEF Fine, Family
    <3>4. k \in forked
      BY <1>1, <1>2, <1>5, <3>3 DEF Causes
    <3>5. tripped' \subseteq forked
      BY <1>1, <2>6, <3>4
    <3> QED
      BY <1>1, <2>6, <3>2, <3>5, AnswerStep
  <2>7. CASE Answer(q, "refused", None) /\ UNCHANGED <<chain, tripped>>
    <3>1. Effect(req[q].sent, None)
      BY <1>1, <2>7, EffectNone
    <3> QED
      BY <1>1, <2>7, <3>1, AnswerStep
  <2> QED
    BY <2>2, <2>3, <2>4, <2>5, <2>6, <2>7 DEF Rotate
<1> QED
  BY <1>4, <1>5

\* A login begins a session.
LEMMA ServeLoginStep ==
  ASSUME IInv, NEW q \in Req, ServeLogin(q)
  PROVE  IInv'
<1>1. /\ Types /\ Chains /\ ChainTypes /\ AuthShapes
      /\ Up(q, "login") /\ UNCHANGED <<enabled, cookie, tab, overlap, out>>
      /\ tripped' \subseteq forked
  BY DEF IInv, Types, Causes, ServeLogin, ServerOnly
<1>2. q \in Auth /\ Busy(q)
  BY <1>1, OpSlots DEF Up
<1>3. req[q].sent = None
  BY <1>1, <1>2 DEF AuthShapes, Up
<1>4. CASE CanIssue /\ Server!Open(NewToken) /\ Answer(q, "ok", NewToken)
  <2> PICK n : n = NewToken
    OBVIOUS
  <2>1. n \in Token /\ n # None /\ Server!Open(n) /\ Answer(q, "ok", n)
    BY <1>1, <1>4, Families DEF CanIssue
  <2>2. Effect(None, n) /\ Solo(n)'
    BY <1>1, <2>1, EffectOpen
  <2> QED
    BY <1>1, <1>3, <2>1, <2>2, AnswerStep
<1>5. CASE Answer(q, "refused", None) /\ UNCHANGED chain
  <2>1. Effect(req[q].sent, None)
    BY <1>1, <1>5, EffectNone
  <2> QED
    BY <1>1, <1>5, <2>1, AnswerStep
<1>6. CASE Answer(q, "error", None) /\ UNCHANGED chain
  <2>1. Effect(req[q].sent, None)
    BY <1>1, <1>6, EffectNone
  <2> QED
    BY <1>1, <1>6, <2>1, AnswerStep
<1> QED
  BY <1>4, <1>5, <1>6 DEF ServeLogin

\* A logout ends the session of the token it presents.
LEMMA ServeLogoutStep ==
  ASSUME IInv, NEW q \in Req, ServeLogout(q)
  PROVE  IInv'
<1>1. /\ Types /\ Chains /\ ChainTypes
      /\ Up(q, "logout") /\ UNCHANGED <<enabled, cookie, tab, overlap, out>>
      /\ tripped' \subseteq forked /\ Answer(q, "ok", None)
  BY DEF IInv, Types, Causes, ServeLogout, ServerOnly
<1>2. q \in Auth /\ Busy(q)
  BY <1>1, OpSlots DEF Up
<1> PICK k : k = req[q].sent
  OBVIOUS
<1>3. Effect(k, None)
  <2>1. CASE UNCHANGED chain
    BY <1>1, <2>1, EffectNone
  <2>2. CASE k # None /\ \E new \in live[FamilyOf(k)] : Server!End(FamilyOf(k), new)
    <3> PICK f : f = FamilyOf(k)
      OBVIOUS
    <3>1. PICK x \in live[f] : Server!End(f, x)
      BY <2>2
    <3>2. f \in Token /\ k \in Family(f)
      BY <1>2, <2>2, Presented
    <3> QED
      BY <1>1, <3>1, <3>2, EffectEnd
  <2> QED
    BY <2>1, <2>2 DEF ServeLogout
<1> QED
  BY <1>1, <1>3, AnswerStep

\* The answer to an API call leaves the sessions alone.
LEMMA ServeCallStep ==
  ASSUME IInv, NEW q \in Req, ServeCall(q)
  PROVE  IInv'
<1>1. /\ Types /\ Chains /\ ChainTypes
      /\ Up(q, "api") /\ UNCHANGED <<enabled, cookie, tab, overlap, out>>
      /\ tripped' \subseteq forked /\ UNCHANGED chain
      /\ Answer(q, "refused", None) \/ Answer(q, "ok", None)
  BY DEF IInv, Types, Causes, ServeCall, ServerOnly
<1>2. Effect(req[q].sent, None)
  BY <1>1, EffectNone
<1>3. CASE Answer(q, "refused", None)
  BY <1>1, <1>2, <1>3, AnswerStep
<1>4. CASE Answer(q, "ok", None)
  BY <1>1, <1>2, <1>4, AnswerStep
<1> QED
  BY <1>1, <1>3, <1>4

-----------------------------------------------------------------------------
(* A tab sends *)

\* Nothing happens to what concerns the jar.
LEMMA OnlyCalls ==
  ASSUME IInv, UNCHANGED <<chain, cookie, tab, forked, tripped, out>>,
         enabled' \in BOOLEAN, ~ overlap' => ~ overlap,
         \A p \in Auth : req'[p] = req[p], ReqTypes', CallShapes'
  PROVE  IInv'
<1> USE DEF IInv
<1>1. live' = live /\ spent' = spent
  BY DEF chain
<1>2. Types' /\ Chains'
  BY <1>1 DEF Types, ChainTypes, TabTypes, Chains, Family
<1>3. \A p \in Auth : Busy(p)' <=> Busy(p)
  BY DEF Busy
<1>4. Issuing' /\ AuthShapes'
  BY <1>1, <1>3 DEF Issuing, Issue, Family, AuthShapes
<1>5. Flights'
  <2>1. \A t \in Tab : tab[t].flight # None => tab[t].flight \in Auth
    BY DEF Types, TabTypes
  <2> QED
    BY <2>1 DEF Flights
<1>6. News'
  BY <1>1, <1>3 DEF News, Fine, Solo
<1>7. Twins' /\ Causes'
  <2>1. \A p \in Auth : (Up(p, "refresh")' <=> Up(p, "refresh"))
                        /\ (Down(p, "refresh")' <=> Down(p, "refresh"))
    BY DEF Up, Down
  <2>2. Twins'
    BY <2>1 DEF Twins
  <2>3. Causes'
    BY <1>1, <2>1 DEF Causes, Fine, Rotated
  <2> QED
    BY <2>2, <2>3
<1>8. Heard' = Heard
  BY DEF Heard
<1>9. Outside'
  BY <1>8 DEF Outside, Up, Heard
<1>10. Jar'
  <2> SUFFICES ASSUME ~ overlap, Jar
               PROVE  /\ \A p, q \in Heard : p = q
                      /\ \A q \in Auth : (Busy(q)' /\ req'[q].tab = Gone) => GoneOK(q)'
                      /\ Heard = {} => JarWorks'
                      /\ \A q \in Heard : AloneOK(q)'
    BY <1>8 DEF Jar
  <2>1. \A q \in Auth : (Busy(q)' /\ req'[q].tab = Gone) => GoneOK(q)'
    BY <1>1, <1>3, <1>8 DEF Jar, GoneOK, Kin, Family, Heard
  <2>2. JarWorks' <=> JarWorks
    BY <1>1 DEF JarWorks, Alive
  <2>3. \A q \in Heard : AloneOK(q)'
    BY <1>1, <2>2 DEF Jar, AloneOK, Alive, Heard, Down
  <2> QED
    BY <2>1, <2>2, <2>3 DEF Jar
<1> QED
  BY <1>2, <1>4, <1>5, <1>6, <1>7, <1>9, <1>10

Answered(p) == Down(p, "refresh") /\ req[p].reply = "ok"

\* Page t sends a request q about the jar.  Its earlier requests may be left alone
\* by then, and only the tokens that get a cause are presented twice.
LEMMA SendStep ==
  ASSUME IInv, NEW t \in Tab, NEW q \in Auth, NEW op \in {"refresh", "login", "logout"},
         NEW k, k = IF op = "login" THEN None ELSE cookie,
         UNCHANGED <<chain, enabled, cookie, tripped>>, forked \subseteq forked',
         overlap' = (overlap \/ Heard # {}),
         req'[q] = Exchange(op, t, k), ~ Busy(q),
         \A p \in Auth \ {q} : \/ req'[p] = req[p]
                               \/ req[p].tab = t /\ req'[p] = Free
                               \/ /\ req[p].tab = t /\ req[p].phase = "up"
                                  /\ req'[p] = [req[p] EXCEPT !.tab = Gone],
         ReqTypes', TabTypes', CallShapes', Flights',
         out' \subseteq out, op = "login" => out' = {},
         \A s \in out' : tab'[s].status = "anonymous",
         \A p \in Auth : (op = "refresh" /\ (Up(p, "refresh") \/ Answered(p))
                          /\ req[p].sent = cookie /\ cookie # None) => cookie \in forked',
         \A p \in Auth : (Answered(p) /\ req'[p] # req[p]) => req[p].sent \in forked'
  PROVE  IInv'
<1> USE DEF IInv
<1>1. live' = live /\ spent' = spent /\ t # Gone
  BY TabsAssumption DEF chain
<1>2. Types' /\ Chains'
  BY <1>1 DEF Types, ChainTypes, Chains, Family
<1>3. /\ req'[q] # Free /\ req'[q].op = op /\ req'[q].tab = t
      /\ req'[q].phase = "up" /\ req'[q].sent = k /\ req'[q].reply = "none" /\ req'[q].new = None
  <2>1. req'[q].op = op
    BY DEF Exchange
  <2>2. req'[q] # Free
    BY <2>1 DEF Free
  <2> QED
    BY <2>1, <2>2 DEF Exchange
<1>4. ASSUME NEW p \in Auth \ {q}, Busy(p)'
      PROVE  /\ Busy(p) /\ req'[p].op = req[p].op /\ req'[p].phase = req[p].phase
             /\ req'[p].sent = req[p].sent /\ req'[p].reply = req[p].reply
             /\ req'[p].new = req[p].new
             /\ \/ req'[p] = req[p]
                \/ req[p].tab = t /\ req[p].phase = "up" /\ req'[p].tab = Gone
  <2>1. req'[p] # Free /\ p \in Req
    BY <1>4 DEF Busy, Req
  <2>2. CASE req'[p] = req[p]
    BY <2>1, <2>2 DEF Busy
  <2>3. CASE req[p].tab = t /\ req[p].phase = "up" /\ req'[p] = [req[p] EXCEPT !.tab = Gone]
    <3>1. Busy(p)
      BY <1>1, <2>1, <2>3, Slots DEF Types
    <3>2. req[p] \in Sending
      BY <2>1, <3>1, Slots
    <3> QED
      BY <2>3, <3>1, <3>2 DEF Sending
  <2> QED
    BY <2>1, <2>2, <2>3
<1>5. \A p \in Auth \ {q} : req'[p].op # "none" => Busy(p)'
  BY DEF Busy, Free
<1>6. Issuing'
  <2>1. \A p \in Auth : Busy(p)' => /\ req'[p].sent # None => Issue(req'[p].sent)
                                    /\ req'[p].new # None => Issue(req'[p].new)
    BY <1>3, <1>4 DEF Issuing
  <2> QED
    BY <2>1, <1>1 DEF Issuing, Issue, Family
<1>7. AuthShapes'
  <2> SUFFICES ASSUME NEW p \in Auth, Busy(p)'
               PROVE  /\ req'[p].tab = Gone => req'[p].phase = "up"
                      /\ req'[p].phase # "waiting"
                      /\ req'[p].phase = "up" <=> req'[p].reply = "none"
                      /\ req'[p].new # None <=> (req'[p].reply = "ok" /\ req'[p].op \in {"refresh", "login"})
                      /\ req'[p].op = "login" => req'[p].sent = None
    BY DEF AuthShapes
  <2>1. CASE p = q
    BY <2>1, <1>1, <1>3
  <2>2. CASE p # q
    BY <2>2, <1>4 DEF AuthShapes
  <2> QED
    BY <2>1, <2>2
<1>8. News'
  <2>1. ASSUME NEW p \in Auth, Busy(p)', req'[p].new # None
        PROVE  /\ Fine(req[p].new) /\ cookie # req[p].new /\ req'[p].new = req[p].new
               /\ \A s \in Auth : Busy(s)' => /\ req'[s].sent # req[p].new
                                              /\ s # p => req'[s].new # req[p].new
               /\ req'[p].op = "login" => Solo(req[p].new)
    <3>1. p # q
      BY <2>1, <1>3
    <3>2. req'[p].new = req[p].new /\ req'[p].op = req[p].op /\ Busy(p)
      BY <2>1, <3>1, <1>4
    <3>3. /\ Fine(req[p].new) /\ cookie # req[p].new
          /\ \A s \in Auth : Busy(s) => /\ req[s].sent # req[p].new
                                        /\ s # p => req[s].new # req[p].new
          /\ req[p].op = "login" => Solo(req[p].new)
      BY <2>1, <3>2 DEF News
    <3>4. \A s \in Auth : Busy(s)' => /\ req'[s].sent # req[p].new
                                      /\ s # p => req'[s].new # req[p].new
      BY <2>1, <3>2, <3>3, <1>3, <1>4
    <3> QED
      BY <3>2, <3>3, <3>4
  <2>2. ASSUME NEW p \in Auth, Busy(p)', req'[p].new # None
        PROVE  Fine(req[p].new)' /\ (req'[p].op = "login" => Solo(req[p].new)')
    BY <2>1, <2>2, <1>1 DEF Fine, Solo
  <2> QED
    BY <2>1, <2>2 DEF News
<1>9. ASSUME NEW p \in Auth, p # q, Up(p, "refresh")'
      PROVE  Up(p, "refresh") /\ req'[p].sent = req[p].sent
  BY <1>4, <1>5, <1>9 DEF Up
<1>10. Up(q, "refresh")' => op = "refresh" /\ req'[q].sent = cookie
  BY <1>3 DEF Up
<1>11. Twins'
  <2> SUFFICES ASSUME NEW p \in Auth, NEW s \in Auth, p # s, Up(p, "refresh")', Up(s, "refresh")',
                      req'[p].sent = req'[s].sent, req'[p].sent # None
               PROVE  req'[p].sent \in forked'
    BY DEF Twins
  <2>1. CASE p # q /\ s # q
    BY <2>1, <1>9 DEF Twins
  <2>2. CASE p = q
    BY <2>2, <1>9, <1>10
  <2>3. CASE s = q
    BY <2>3, <1>9, <1>10
  <2> QED
    BY <2>1, <2>2, <2>3
<1>12. Causes'
  <2>1. tripped' \subseteq forked'
    BY DEF Causes
  <2>2. ASSUME NEW p \in Auth, Up(p, "refresh")', req'[p].sent # None
        PROVE  Fine(req'[p].sent) \/ req'[p].sent \in forked'
    <3>1. CASE p # q
      BY <2>2, <3>1, <1>9 DEF Causes
    <3>2. CASE p = q
      BY <2>2, <3>2, <1>10 DEF Causes, Rotated, Answered
    <3> QED
      BY <3>1, <3>2
  <2>3. ASSUME cookie # None
        PROVE  Fine(cookie) \/ cookie \in forked' \/ Rotated(cookie)'
    <3>1. ASSUME NEW p \in Auth, Answered(p), req[p].sent = cookie
          PROVE  cookie \in forked' \/ Rotated(cookie)'
      <4>1. CASE req'[p] = req[p]
        BY <3>1, <4>1 DEF Rotated, Answered, Down
      <4>2. CASE req'[p] # req[p]
        BY <3>1, <4>2
      <4> QED
        BY <4>1, <4>2
    <3> QED
      BY <2>3, <3>1 DEF Causes, Rotated, Answered
  <2> QED
    BY <2>1, <2>2, <2>3, <1>1 DEF Causes, Fine
<1>13. ASSUME NEW p \in Heard', p # q PROVE p \in Heard /\ req'[p] = req[p]
  <2>1. p \in Auth /\ Busy(p)' /\ req'[p].tab # Gone
    BY <1>13 DEF Heard, Busy
  <2>2. req'[p] = req[p]
    BY <2>1, <1>4, <1>13
  <2> QED
    BY <2>1, <2>2 DEF Heard, Busy
<1>14. Outside'
  <2> SUFFICES ASSUME out' # {}
               PROVE  /\ cookie = None
                      /\ \A p \in Heard' : /\ req'[p].op # "login" /\ req'[p].new = None
                                           /\ Up(p, "refresh")' => req'[p].sent = None
    BY DEF Outside
  <2>1. /\ cookie = None /\ op # "login"
        /\ \A p \in Heard : /\ req[p].op # "login" /\ req[p].new = None
                            /\ Up(p, "refresh") => req[p].sent = None
    BY DEF Outside
  <2> SUFFICES ASSUME NEW p \in Heard'
               PROVE  /\ req'[p].op # "login" /\ req'[p].new = None
                      /\ Up(p, "refresh")' => req'[p].sent = None
    BY <2>1
  <2>2. CASE p = q
    BY <2>1, <2>2, <1>3
  <2>3. CASE p # q
    BY <2>1, <2>3, <1>13 DEF Up
  <2> QED
    BY <2>2, <2>3
<1>15. Jar'
  <2> SUFFICES ASSUME ~ overlap, Heard = {}
               PROVE  /\ \A p, s \in Heard' : p = s
                      /\ \A p \in Auth : (Busy(p)' /\ req'[p].tab = Gone) => GoneOK(p)'
                      /\ Heard' = {} => JarWorks'
                      /\ \A p \in Heard' : AloneOK(p)'
    BY DEF Jar
  <2>1. JarWorks'
    BY <1>1 DEF Jar, JarWorks, Alive
  <2>2. \A p \in Heard' : p = q
    BY <1>13
  <2>3. ASSUME NEW p \in Auth, Busy(p)', req'[p].tab = Gone PROVE GoneOK(p)'
    <3>1. p # q /\ Busy(p)
      BY <2>3, <1>1, <1>3, <1>4
    <3>2. req[p].tab = Gone
      BY <3>1 DEF Heard, Busy
    <3>3. ~ Kin(req[p].sent, cookie) /\ req'[p].sent = req[p].sent
      BY <2>3, <3>1, <3>2, <1>4 DEF Jar, GoneOK
    <3>4. \A j : ~ Kin(j, None)
      BY Families DEF Types
    <3>5. ~ Kin(req[p].sent, cookie)'
      BY <3>3, <1>1 DEF Kin, Family
    <3>6. \A s \in Heard' : ~ Kin(req[p].sent, req[s].new)'
      BY <3>4, <2>2, <1>1, <1>3 DEF Kin, Family
    <3> QED
      BY <3>5, <3>6 DEF GoneOK
  <2>4. AloneOK(q)'
    <3>1. op # "login" => req'[q].sent = cookie
      BY <1>3
    <3> QED
      BY <3>1, <2>1, <1>3 DEF AloneOK, Down
  <2> QED
    BY <2>1, <2>2, <2>3, <2>4
<1> QED
  BY <1>2, <1>6, <1>7, <1>8, <1>11, <1>12, <1>14, <1>15

-----------------------------------------------------------------------------
(* A tab hears *)

\* The answer of an exchange about the jar arrives, and the jar is what it says.
LEMMA HearStep ==
  ASSUME IInv, NEW q \in Auth, NEW op, Down(q, op), op \in {"refresh", "login", "logout"},
         UNCHANGED <<chain, enabled, forked, tripped>>,
         req'[q] = Free, \A p \in Auth \ {q} : req'[p] = req[p],
         ReqTypes', TabTypes', CallShapes', Flights',
         cookie' = IF req[q].new # None THEN req[q].new
                   ELSE IF \/ op = "refresh" /\ req[q].reply = "refused" /\ req[q].sent # None
                           \/ op = "logout" /\ req[q].reply = "ok"
                        THEN None ELSE cookie,
         ~ overlap' => ~ overlap \/ (Heard = {q} /\ op = "login" /\ req[q].reply = "ok"),
         out' \subseteq Tab, out' # {} => out # {} \/ (Heard = {q} /\ cookie' = None),
         \A s \in out' : tab'[s].status = "anonymous"
  PROVE  IInv'
<1> USE DEF IInv
<1>1. live' = live /\ spent' = spent
  BY DEF chain
<1>2. /\ Busy(q) /\ q \in Req /\ req[q].op = op /\ req[q].phase = "down" /\ req[q].tab # Gone
      /\ req[q].reply \in {"ok", "refused", "error"} /\ q \in Heard
      /\ req[q].new \in Token \cup {None}
      /\ req[q].new # None <=> (req[q].reply = "ok" /\ op \in {"refresh", "login"})
  <2>1. Busy(q) /\ q \in Req
    BY OpSlots DEF Down, Types, Req
  <2>2. req[q].tab # Gone /\ req[q].reply # "none"
        /\ (req[q].new # None <=> (req[q].reply = "ok" /\ op \in {"refresh", "login"}))
    BY <2>1 DEF AuthShapes, Down
  <2>3. req[q].reply \in {"none", "ok", "refused", "error"} /\ req[q].new \in Token \cup {None}
    BY <2>1, Sent DEF Types
  <2>4. q \in Heard
    BY <2>1, <2>2, Slots DEF Types
  <2> QED
    BY <2>1, <2>2, <2>3, <2>4 DEF Down
<1>3. \A p \in Auth : Busy(p)' <=> Busy(p) /\ p # q
  BY DEF Busy
<1>4. Types' /\ Chains'
  <2>1. cookie' \in Token \cup {None}
    BY <1>2 DEF Types
  <2> QED
    BY <2>1, <1>1 DEF Types, ChainTypes, Chains, Family
<1>5. Issuing'
  <2>1. cookie' # None => Issue(cookie')
    BY <1>2 DEF Issuing
  <2>2. \A p \in Auth : Busy(p)' => /\ req'[p].sent # None => Issue(req'[p].sent)
                                    /\ req'[p].new # None => Issue(req'[p].new)
    BY <1>3 DEF Issuing
  <2> QED
    BY <2>1, <2>2, <1>1 DEF Issuing, Issue, Family
<1>6. AuthShapes'
  BY <1>3 DEF AuthShapes
<1>7. News'
  <2> SUFFICES ASSUME NEW p \in Auth, Busy(p), p # q, req'[p].new # None
               PROVE  /\ Fine(req'[p].new) /\ cookie' # req'[p].new
                      /\ \A s \in Auth : Busy(s)' => /\ req'[s].sent # req'[p].new
                                                     /\ s # p => req'[s].new # req'[p].new
                      /\ req'[p].op = "login" => Solo(req'[p].new)
    BY <1>1, <1>3 DEF News, Fine, Solo
  <2>1. req'[p] = req[p] /\ req[p].new # None
    OBVIOUS
  <2>2. /\ Fine(req[p].new) /\ cookie # req[p].new
        /\ \A s \in Auth : Busy(s) => /\ req[s].sent # req[p].new
                                      /\ s # p => req[s].new # req[p].new
        /\ req[p].op = "login" => Solo(req[p].new)
    BY <2>1 DEF News
  <2>3. cookie' # req[p].new
    BY <1>2, <2>1, <2>2
  <2>4. \A s \in Auth : Busy(s)' => /\ req'[s].sent # req[p].new
                                    /\ s # p => req'[s].new # req[p].new
    BY <1>3, <2>2
  <2> QED
    BY <2>1, <2>2, <2>3, <2>4
<1>8. \A p \in Auth : Up(p, "refresh")' => p # q /\ req'[p] = req[p] /\ Up(p, "refresh")
  BY DEF Up, Free
<1>9. Twins'
  BY <1>8 DEF Twins
<1>10. Causes'
  <2>1. \A p \in Auth : (Up(p, "refresh")' /\ req'[p].sent # None)
                          => Fine(req'[p].sent) \/ req'[p].sent \in forked
    BY <1>8 DEF Causes
  <2>2. ASSUME cookie' # None PROVE Fine(cookie') \/ cookie' \in forked \/ Rotated(cookie)'
    <3>1. CASE req[q].new # None
      BY <3>1, <1>2 DEF News
    <3>2. CASE req[q].new = None
      <4>1. cookie' = cookie
        BY <2>2, <3>2
      <4>2. CASE Fine(cookie) \/ cookie \in forked
        BY <4>1, <4>2
      <4>3. CASE Rotated(cookie)
        <5>1. PICK p \in Auth : Down(p, "refresh") /\ req[p].sent = cookie /\ req[p].reply = "ok"
          BY <4>3 DEF Rotated
        <5>2. p # q
          BY <5>1, <3>2, <1>2 DEF Down
        <5> QED
          BY <5>1, <5>2, <4>1 DEF Rotated, Down
      <4> QED
        BY <2>2, <4>1, <4>2, <4>3 DEF Causes
    <3> QED
      BY <3>1, <3>2
  <2> QED
    BY <2>1, <2>2, <1>1 DEF Causes, Fine
<1>11. \A p \in Heard' : p \in Heard /\ p # q /\ req'[p] = req[p]
  BY <1>3 DEF Heard, Busy
<1>12. Outside'
  <2> SUFFICES ASSUME out' # {}
               PROVE  /\ cookie' = None
                      /\ \A p \in Heard' : /\ req'[p].op # "login" /\ req'[p].new = None
                                           /\ Up(p, "refresh")' => req'[p].sent = None
    BY DEF Outside
  <2>1. CASE out # {}
    <3>1. cookie = None /\ req[q].new = None
      BY <2>1, <1>2 DEF Outside
    <3>2. \A p \in Heard' : /\ req'[p].op # "login" /\ req'[p].new = None
                            /\ Up(p, "refresh")' => req'[p].sent = None
      BY <2>1, <1>11 DEF Outside, Up
    <3> QED
      BY <3>1, <3>2
  <2>2. CASE Heard = {q} /\ cookie' = None
    BY <2>2, <1>11
  <2> QED
    BY <2>1, <2>2
<1>13. \A j : ~ Kin(j, None)
  BY Families DEF Types
<1>14. ASSUME NEW c, c = cookie', ~ overlap'
       PROVE  /\ Heard = {q} /\ (c = None \/ Alive(c))
              /\ \A p \in Auth : (Busy(p) /\ req[p].tab = Gone) => ~ Kin(req[p].sent, c)
  <2>1. CASE ~ overlap
    <3>1. Heard = {q} /\ AloneOK(q)
      BY <2>1, <1>2 DEF Jar
    <3>2. c = None \/ Alive(c)
      BY <3>1, <1>2, <1>14 DEF AloneOK, JarWorks, Down
    <3>3. \A p \in Auth : (Busy(p) /\ req[p].tab = Gone)
                            => ~ Kin(req[p].sent, cookie) /\ ~ Kin(req[p].sent, req[q].new)
      BY <2>1, <1>2 DEF Jar, GoneOK
    <3> QED
      BY <3>1, <3>2, <3>3, <1>13, <1>14
  <2>2. CASE Heard = {q} /\ op = "login" /\ req[q].reply = "ok"
    <3>1. c = req[q].new /\ c # None /\ Solo(c)
      BY <2>2, <1>2, <1>14 DEF News
    <3>2. Alive(c)
      BY <3>1 DEF Solo, Alive
    <3>3. ASSUME NEW p \in Auth, Busy(p) PROVE ~ Kin(req[p].sent, c)
      <4>1. req[p].sent # c
        BY <3>1, <3>3, <1>2 DEF News
      <4>2. \A f \in Token : c \in Family(f) => Family(f) = {c}
        BY <3>1 DEF Solo, Chains, Family
      <4> QED
        BY <4>1, <4>2 DEF Kin
    <3> QED
      BY <2>2, <3>1, <3>2, <3>3
  <2> QED
    BY <2>1, <2>2, <1>14
<1>15. Jar'
  <2> SUFFICES ASSUME ~ overlap'
               PROVE  /\ \A p, s \in Heard' : p = s
                      /\ \A p \in Auth : (Busy(p)' /\ req'[p].tab = Gone) => GoneOK(p)'
                      /\ Heard' = {} => JarWorks'
                      /\ \A p \in Heard' : AloneOK(p)'
    BY DEF Jar
  <2> PICK c : c = cookie'
    OBVIOUS
  <2>1. /\ Heard = {q} /\ (c = None \/ Alive(c))
        /\ \A p \in Auth : (Busy(p) /\ req[p].tab = Gone) => ~ Kin(req[p].sent, c)
    BY <1>14
  <2>2. Heard' = {}
    BY <2>1, <1>11
  <2>3. JarWorks'
    BY <2>1, <1>1 DEF JarWorks, Alive
  <2>4. ASSUME NEW p \in Auth, Busy(p)', req'[p].tab = Gone PROVE GoneOK(p)'
    <3>1. p # q /\ Busy(p) /\ req'[p] = req[p]
      BY <2>4, <1>3
    <3>2. ~ Kin(req'[p].sent, c)
      BY <2>1, <2>4, <3>1
    <3> QED
      BY <3>2, <2>2, <1>1 DEF GoneOK, Kin, Family
  <2> QED
    BY <2>2, <2>3, <2>4
<1> QED
  BY <1>4, <1>5, <1>6, <1>7, <1>9, <1>10, <1>12, <1>15

\* An exchange about the jar is lost.
LEMMA LoseStep ==
  ASSUME IInv, NEW q \in Auth, Busy(q), req[q].tab # Gone,
         UNCHANGED <<chain, enabled, cookie, tab, tripped, out>>,
         req' = [req EXCEPT ![q].phase = "down", ![q].reply = "error", ![q].new = None],
         forked' = IF Answered(q) THEN forked \cup {req[q].sent} ELSE forked, overlap' = TRUE
  PROVE  IInv'
<1> USE DEF IInv
<1>1. live' = live /\ spent' = spent
  BY DEF chain
<1>2. q \in Req /\ req[q] \in Sending /\ q \notin Call
  BY Slots DEF Types
<1> DEFINE r == [req[q] EXCEPT !.phase = "down", !.reply = "error", !.new = None]
<1>3. /\ r \in Sending /\ r.op = req[q].op /\ r.tab = req[q].tab /\ r.sent = req[q].sent
      /\ r.phase = "down" /\ r.reply = "error" /\ r.new = None
  BY <1>2 DEF Sending
<1>4. r # Free
  <2>1. r.op # "none"
    BY <1>2, <1>3, Slots DEF Types
  <2> QED
    BY <2>1 DEF Free
<1>5. req' = [req EXCEPT ![q] = r]
  BY <1>2 DEF Types, ReqTypes
<1> HIDE DEF r
<1>6. /\ req' \in [Req -> {Free} \cup Sending] /\ req'[q] = r
      /\ \A p \in Req \ {q} : req'[p] = req[p]
  BY <1>2, <1>3, <1>5 DEF Types, ReqTypes
<1>7. \A p \in Req : Busy(p)' <=> Busy(p)
  BY <1>4, <1>6 DEF Busy
<1>8. \A p \in Req : /\ req'[p].op = req[p].op /\ req'[p].tab = req[p].tab
                     /\ req'[p].sent = req[p].sent
  BY <1>3, <1>6
<1>9. Types' /\ Chains'
  <2>1. ReqTypes'
    BY <1>6, <1>7, <1>8 DEF Types, ReqTypes, Busy, Ops
  <2> QED
    BY <2>1, <1>1 DEF Types, ChainTypes, TabTypes, Chains, Family
<1>10. Auth \subseteq Req
  BY DEF Req
<1>11. Issuing'
  <2>1. \A p \in Auth : Busy(p)' => /\ req'[p].sent # None => Issue(req'[p].sent)
                                    /\ req'[p].new # None => Issue(req'[p].new)
    BY <1>3, <1>6, <1>7, <1>8, <1>10 DEF Issuing
  <2> QED
    BY <2>1, <1>1 DEF Issuing, Issue, Family
<1>12. AuthShapes'
  BY <1>3, <1>6, <1>7, <1>10 DEF AuthShapes
<1>13. CallShapes'
  <2>1. \A p \in Call : p \in Req /\ p # q
    BY <1>2 DEF Req
  <2> QED
    BY <2>1, <1>6, <1>7 DEF CallShapes
<1>14. Flights'
  <2>1. \A s \in Tab : tab[s].flight # None => tab[s].flight \in Req
    BY <1>10 DEF Types, TabTypes
  <2> QED
    BY <2>1, <1>8, <1>10 DEF Flights
<1>15. News'
  <2> SUFFICES ASSUME NEW p \in Auth, Busy(p), req'[p].new # None
               PROVE  /\ Fine(req'[p].new) /\ cookie # req'[p].new
                      /\ \A s \in Auth : Busy(s) => /\ req'[s].sent # req'[p].new
                                                    /\ s # p => req'[s].new # req'[p].new
                      /\ req'[p].op = "login" => Solo(req'[p].new)
    BY <1>1, <1>7, <1>10 DEF News, Fine, Solo
  <2>1. p # q /\ req'[p] = req[p]
    BY <1>3, <1>6, <1>10
  <2> QED
    BY <2>1, <1>3, <1>6, <1>8, <1>10 DEF News
<1>16. \A p \in Auth : Up(p, "refresh")' => p # q /\ req'[p] = req[p] /\ Up(p, "refresh")
  BY <1>3, <1>6, <1>10 DEF Up
<1>17. forked \subseteq forked'
  OBVIOUS
<1>18. Twins'
  BY <1>16, <1>17 DEF Twins
<1>19. Causes'
  <2>1. \A p \in Auth : (Up(p, "refresh")' /\ req'[p].sent # None)
                          => Fine(req'[p].sent) \/ req'[p].sent \in forked'
    BY <1>16, <1>17 DEF Causes
  <2>2. ASSUME NEW p \in Auth, Answered(p), req[p].sent = cookie
        PROVE  cookie \in forked' \/ Rotated(cookie)'
    <3>1. CASE p = q
      BY <2>2, <3>1
    <3>2. CASE p # q
      BY <2>2, <3>2, <1>6, <1>10 DEF Rotated, Answered, Down
    <3> QED
      BY <3>1, <3>2
  <2>3. cookie # None => Fine(cookie) \/ cookie \in forked' \/ Rotated(cookie)'
    BY <2>2 DEF Causes, Rotated, Answered
  <2> QED
    BY <2>1, <2>3, <1>1 DEF Causes, Fine
<1>20. \A p \in Heard' : p \in Heard /\ (p # q => req'[p] = req[p])
  BY <1>3, <1>6, <1>7, <1>8, <1>10 DEF Heard, Busy
<1>21. Outside'
  BY <1>3, <1>6, <1>8, <1>10, <1>16, <1>20 DEF Outside, Heard
<1>22. Jar'
  BY DEF Jar
<1> QED
  BY <1>9, <1>11, <1>12, <1>13, <1>14, <1>15, <1>18, <1>19, <1>21, <1>22

-----------------------------------------------------------------------------
(* The steps of the pages *)

\* The calls of a page wait for what they waited for.
LEMMA CallsKept ==
  ASSUME Types, CallShapes, \A p \in Call : req'[p] = req[p],
         \A s \in Tab : tab'[s].flight = tab[s].flight
  PROVE  CallShapes'
<1> SUFFICES ASSUME NEW p \in Call, Busy(p)
             PROVE  req[p].phase = "waiting" => tab'[req[p].tab].flight = tab[req[p].tab].flight
  BY DEF CallShapes, Busy
<1>1. req[p].tab \in Tab \cup {Gone}
  BY Slots, Sent
<1>2. req[p].phase = "waiting" => req[p].tab # Gone
  BY DEF CallShapes
<1> QED
  BY <1>1, <1>2

\* A request that is sent has the type of a request.
LEMMA SlotTypes ==
  ASSUME Types, NEW q \in Req, NEW op \in Ops(q), NEW t \in Tab, NEW k \in Token \cup {None},
         req' = [req EXCEPT ![q] = Exchange(op, t, k)]
  PROVE  /\ ReqTypes' /\ req'[q] = Exchange(op, t, k)
         /\ \A p \in Req \ {q} : req'[p] = req[p]
<1>1. Exchange(op, t, k) \in Sending /\ Exchange(op, t, k).op = op
  <2>1. op \in {"api", "refresh", "login", "logout"}
    BY DEF Ops
  <2> QED
    BY <2>1 DEF Exchange, Sending
<1> QED
  BY <1>1 DEF Types, ReqTypes, Ops

\* The form is submitted, or the button pressed.
LEMMA SignStep ==
  ASSUME IInv, NEW t \in Tab, NEW q \in Auth, NEW op \in {"login", "logout"},
         NEW k, k = IF op = "login" THEN None ELSE cookie,
         Sends(q, Exchange(op, t, k), req),
         UNCHANGED <<chain, enabled, cookie, tab, forked, tripped>>,
         out' = IF op = "login" THEN {} ELSE out
  PROVE  IInv'
<1>1. Types /\ CallShapes /\ Flights /\ q \in Req /\ q \notin Call
  BY Slots DEF IInv
<1>2. k \in Token \cup {None} /\ op \in Ops(q)
  BY <1>1 DEF Types, Ops
<1>3. /\ req[q] = Free /\ req' = [req EXCEPT ![q] = Exchange(op, t, k)]
      /\ overlap' = (overlap \/ Heard # {})
  BY DEF Sends
<1>4. /\ ReqTypes' /\ req'[q] = Exchange(op, t, k)
      /\ \A p \in Req \ {q} : req'[p] = req[p]
  BY <1>1, <1>2, <1>3, SlotTypes
<1>5. CallShapes'
  <2>1. \A p \in Call : req'[p] = req[p]
    BY <1>1, <1>4 DEF Req
  <2> QED
    BY <1>1, <2>1, CallsKept
<1>6. Flights'
  <2>1. req'[q].op # "refresh" /\ req[q].op # "refresh"
    BY <1>3, <1>4 DEF Exchange, Free
  <2>2. \A s \in Tab : tab[s].flight # None => tab[s].flight \in Auth
    BY <1>1 DEF Types, TabTypes
  <2> QED
    BY <1>1, <1>4, <2>1, <2>2 DEF Flights, Req
<1>7. /\ ~ Busy(q) /\ TabTypes' /\ out' \subseteq out
      /\ \A p \in Auth \ {q} : req'[p] = req[p]
      /\ \A s \in out' : tab'[s].status = "anonymous"
  BY <1>1, <1>3, <1>4 DEF Busy, Types, TabTypes, Req, IInv, Outside
<1>8. \A p \in Auth : ~ (Answered(p) /\ req'[p] # req[p])
  BY <1>3, <1>7 DEF Answered, Down, Free
<1> QED
  BY <1>3, <1>4, <1>5, <1>6, <1>7, <1>8, SendStep

\* A call is sent.
LEMMA SendCallStep ==
  ASSUME IInv, NEW t \in Tab, NEW q \in Call, SendCall(t, q)
  PROVE  IInv'
<1>1. Types /\ CallShapes /\ q \in Req /\ q \notin Auth
  BY Slots DEF IInv
<1>2. /\ req' = [req EXCEPT ![q] = Exchange("api", t, None)]
      /\ UNCHANGED <<chain, enabled, cookie, tab, forked, tripped, overlap, out>>
  BY DEF SendCall, history
<1>3. /\ ReqTypes' /\ req'[q] = Exchange("api", t, None)
      /\ \A p \in Req \ {q} : req'[p] = req[p]
  BY <1>1, <1>2, SlotTypes DEF Ops
<1>4. CallShapes'
  <2>1. \A p \in Call \ {q} : req'[p] = req[p]
    BY <1>3 DEF Req
  <2>2. t # Gone
    BY TabsAssumption
  <2>3. /\ req'[q].tab # Gone /\ req'[q].phase = "up" /\ req'[q].reply = "none"
        /\ req'[q].sent = None /\ req'[q].new = None /\ req'[q].sends = 1
    BY <1>3, <2>2 DEF Exchange
  <2> QED
    BY <1>1, <1>2, <2>1, <2>3 DEF CallShapes, Busy
<1>5. /\ \A p \in Auth : req'[p] = req[p]
      /\ enabled' \in BOOLEAN
  BY <1>1, <1>2, <1>3 DEF Req, Types
<1> QED
  BY <1>2, <1>3, <1>4, <1>5, OnlyCalls

\* The account is deactivated.
LEMMA DeactivateStep ==
  ASSUME IInv, Deactivate
  PROVE  IInv'
<1>1. /\ UNCHANGED <<chain, cookie, tab, req, forked, tripped, overlap, out>> /\ enabled' = FALSE
      /\ Types /\ CallShapes
  BY DEF Deactivate, history, IInv
<1>2. ReqTypes' /\ CallShapes'
  BY <1>1 DEF Types, ReqTypes, Ops, CallShapes, Busy
<1> QED
  BY <1>1, <1>2, OnlyCalls

\* An exchange is lost.
LEMMA LoseAnyStep ==
  ASSUME IInv, NEW q \in Req, Lose(q)
  PROVE  IInv'
<1>1. /\ Types /\ CallShapes /\ Busy(q) /\ req[q].tab # Gone
      /\ req' = [req EXCEPT ![q].phase = "down", ![q].reply = "error", ![q].new = None]
      /\ forked' = IF Answered(q) THEN forked \cup {req[q].sent} ELSE forked
      /\ overlap' = (overlap \/ q \in Auth)
      /\ UNCHANGED <<chain, enabled, cookie, tab, tripped, out>>
  BY DEF IInv, Lose, Busy, Answered
<1>2. CASE q \in Auth
  <2>1. overlap' = TRUE
    BY <1>1, <1>2
  <2> QED
    BY <1>1, <1>2, <2>1, LoseStep
<1>3. CASE q \in Call
  <2>1. q \notin Auth /\ req[q].op = "api" /\ req[q] \in Sending
    BY <1>1, <1>3, Slots
  <2> DEFINE r == [req[q] EXCEPT !.phase = "down", !.reply = "error", !.new = None]
  <2>2. /\ r \in Sending /\ r.op = "api" /\ r.tab = req[q].tab /\ r.sent = req[q].sent
        /\ r.phase = "down" /\ r.reply = "error" /\ r.new = None
        /\ r.sends = req[q].sends /\ r.retried = req[q].retried
    BY <2>1 DEF Sending
  <2>3. req' = [req EXCEPT ![q] = r]
    BY <1>1 DEF Types, ReqTypes
  <2> HIDE DEF r
  <2>4. /\ req'[q] = r /\ \A p \in Req \ {q} : req'[p] = req[p]
        /\ ReqTypes'
    <3>1. /\ req' \in [Req -> {Free} \cup Sending] /\ req'[q] = r
          /\ \A p \in Req \ {q} : req'[p] = req[p]
      BY <1>1, <2>2, <2>3 DEF Types, ReqTypes
    <3>2. \A p \in Req : req'[p] # Free => req'[p].op \in Ops(p)
      <4>1. \A p \in Req \ {q} : req'[p] # Free => req'[p].op \in Ops(p)
        BY <1>1, <3>1 DEF Types, ReqTypes
      <4>2. req'[q].op \in Ops(q)
        BY <1>3, <2>2, <3>1 DEF Ops
      <4> QED
        BY <4>1, <4>2
    <3> QED
      BY <3>1, <3>2 DEF ReqTypes, Ops
  <2>5. CallShapes'
    <3>1. \A p \in Call \ {q} : req'[p] = req[p]
      BY <2>4 DEF Req
    <3>2. \A p \in Call \ {q} : Busy(p)' <=> Busy(p)
      BY <3>1 DEF Busy
    <3>3. req[q].sent = None /\ (req[q].sends = 2 => req[q].retried)
      BY <1>1, <1>3 DEF CallShapes
    <3>4. /\ req'[q].tab # Gone /\ req'[q].phase = "down" /\ req'[q].reply = "error"
          /\ req'[q].sent = None /\ req'[q].new = None /\ (req'[q].sends = 2 => req'[q].retried)
      BY <1>1, <2>2, <2>4, <3>3
    <3> SUFFICES ASSUME NEW p \in Call, Busy(p)'
                 PROVE  /\ req'[p].tab = Gone => req'[p].phase = "up"
                        /\ req'[p].phase = "up" <=> req'[p].reply = "none"
                        /\ req'[p].sent = None /\ req'[p].new = None
                        /\ req'[p].sends = 2 => req'[p].retried
                        /\ req'[p].phase = "waiting" =>
                             /\ ~ req'[p].retried /\ req'[p].on # None
                             /\ tab[req'[p].tab].flight = req'[p].on
      BY <1>1 DEF CallShapes
    <3>5. CASE p = q
      BY <3>4, <3>5
    <3>6. CASE p # q
      BY <1>1, <3>1, <3>2, <3>6 DEF CallShapes
    <3> QED
      BY <3>5, <3>6
  <2>6. /\ \A p \in Auth : req'[p] = req[p]
        /\ forked' = forked /\ enabled' \in BOOLEAN /\ (~ overlap' => ~ overlap)
    BY <1>1, <2>1, <2>4 DEF Req, Types, Answered, Down
  <2> QED
    BY <1>1, <2>4, <2>5, <2>6, OnlyCalls
<1> QED
  BY <1>2, <1>3 DEF Req

\* The answer of a login arrives.
LEMMA HearLoginStep ==
  ASSUME IInv, NEW q \in Req, HearLogin(q)
  PROVE  IInv'
<1>1. /\ Types /\ CallShapes /\ Flights /\ AuthShapes /\ Outside /\ Down(q, "login")
      /\ req' = [req EXCEPT ![q] = Free] /\ UNCHANGED <<chain, enabled, forked, tripped, out>>
      /\ overlap' = (overlap /\ ~ (Heard = {q} /\ req[q].reply = "ok"))
  BY DEF IInv, HearLogin
<1>2. q \in Auth /\ Busy(q) /\ q \notin Call /\ req[q].op = "login"
  BY <1>1, OpSlots, Slots DEF Down
<1>3. /\ req[q].tab \in Tab /\ q \in Heard
      /\ req[q].new # None <=> req[q].reply = "ok"
  <2>1. req[q].tab # Gone /\ (req[q].new # None <=> req[q].reply = "ok")
    BY <1>1, <1>2 DEF AuthShapes, Down
  <2> QED
    BY <1>1, <1>2, <2>1, Sent, Slots
<1>4. cookie' = IF req[q].new # None THEN req[q].new ELSE cookie
  BY <1>3 DEF HearLogin
<1>5. /\ TabTypes' /\ \A s \in Tab : tab'[s].flight = tab[s].flight
      /\ \A s \in Tab : tab'[s].status = "checking" => tab[s].status = "checking"
  BY <1>1, <1>3 DEF HearLogin, SetSession, Types, TabTypes
<1>6. /\ req'[q] = Free /\ \A p \in Req \ {q} : req'[p] = req[p]
      /\ ReqTypes'
  BY <1>1, <1>2 DEF Types, ReqTypes, Ops
<1>7. CallShapes'
  <2>1. \A p \in Call : req'[p] = req[p]
    BY <1>2, <1>6 DEF Req
  <2> QED
    BY <1>1, <1>5, <2>1, CallsKept
<1>8. Flights'
  <2>1. req'[q].op # "refresh" /\ req[q].op # "refresh"
    BY <1>2, <1>6 DEF Free
  <2>2. \A s \in Tab : tab[s].flight # None => tab[s].flight \in Auth
    BY <1>1 DEF Types, TabTypes
  <2>3. \A p \in Auth : req[p].op = "refresh" => req[p].tab \in Tab \cup {Gone}
    BY <1>1, Sent, OpSlots DEF Req
  <2> QED
    BY <1>1, <1>5, <1>6, <2>1, <2>2, <2>3 DEF Flights, Req
<1>9. out = {}
  BY <1>1, <1>2, <1>3 DEF Outside
<1>10. \A p \in Auth \ {q} : req'[p] = req[p]
  BY <1>6 DEF Req
<1>11. ~ overlap' => ~ overlap \/ (Heard = {q} /\ req[q].reply = "ok")
  BY <1>1
<1> QED
  BY <1>1, <1>2, <1>4, <1>5, <1>6, <1>7, <1>8, <1>9, <1>10, <1>11, HearStep

\* The answer of a logout arrives.
LEMMA HearLogoutStep ==
  ASSUME IInv, NEW q \in Req, HearLogout(q)
  PROVE  IInv'
<1>1. /\ Types /\ CallShapes /\ Flights /\ AuthShapes /\ Outside /\ Down(q, "logout")
      /\ req' = [req EXCEPT ![q] = Free] /\ UNCHANGED <<chain, enabled, forked, tripped, overlap>>
      /\ cookie' = IF req[q].reply = "ok" THEN None ELSE cookie
      /\ tab' = ClearSession(req[q].tab)
      /\ out' = IF req[q].reply = "ok" /\ Heard = {q} THEN out \cup {req[q].tab} ELSE out
  BY DEF IInv, HearLogout
<1>2. q \in Auth /\ Busy(q) /\ q \notin Call /\ req[q].op = "logout"
  BY <1>1, OpSlots, Slots DEF Down
<1>3. req[q].tab \in Tab /\ q \in Heard /\ req[q].new = None
  <2>1. req[q].tab # Gone /\ req[q].new = None
    BY <1>1, <1>2 DEF AuthShapes, Down
  <2> QED
    BY <1>1, <1>2, <2>1, Sent, Slots
<1>4. /\ TabTypes' /\ \A s \in Tab : tab'[s].flight = tab[s].flight
      /\ \A s \in Tab : tab'[s].status = "checking" => tab[s].status = "checking"
      /\ \A s \in Tab : tab'[s].status = IF s = req[q].tab THEN "anonymous" ELSE tab[s].status
  BY <1>1, <1>3 DEF ClearSession, Types, TabTypes
<1>5. /\ req'[q] = Free /\ \A p \in Req \ {q} : req'[p] = req[p]
      /\ ReqTypes'
  BY <1>1, <1>2 DEF Types, ReqTypes, Ops
<1>6. CallShapes'
  <2>1. \A p \in Call : req'[p] = req[p]
    BY <1>2, <1>5 DEF Req
  <2> QED
    BY <1>1, <1>4, <2>1, CallsKept
<1>7. Flights'
  <2>1. req'[q].op # "refresh" /\ req[q].op # "refresh"
    BY <1>2, <1>5 DEF Free
  <2>2. \A s \in Tab : tab[s].flight # None => tab[s].flight \in Auth
    BY <1>1 DEF Types, TabTypes
  <2>3. \A p \in Auth : req[p].op = "refresh" => req[p].tab \in Tab \cup {Gone}
    BY <1>1, Sent, OpSlots DEF Req
  <2> QED
    BY <1>1, <1>4, <1>5, <2>1, <2>2, <2>3 DEF Flights, Req
<1>8. /\ out' \subseteq Tab /\ (out' # {} => out # {} \/ (Heard = {q} /\ cookie' = None))
      /\ \A s \in out' : tab'[s].status = "anonymous"
  BY <1>1, <1>3, <1>4 DEF Types, Outside
<1>9. \A p \in Auth \ {q} : req'[p] = req[p]
  BY <1>5 DEF Req
<1> QED
  BY <1>1, <1>2, <1>3, <1>4, <1>5, <1>6, <1>7, <1>8, <1>9, HearStep

\* A call that waits for refresh q goes out again, or fails: nobody waits for q any more.
LEMMA ResumedCalls ==
  ASSUME IInv, NEW q \in Auth, Busy(q), NEW k, req' = Resumed(q, k)
  PROVE  /\ ReqTypes' /\ req'[q] = Free /\ \A p \in Auth \ {q} : req'[p] = req[p]
         /\ \A p \in Call : Busy(p)' =>
              \/ req'[p] = req[p] /\ Busy(p) /\ ~ (req[p].phase = "waiting" /\ req[p].on = q)
              \/ /\ req'[p].tab # Gone /\ req'[p].phase = "up" /\ req'[p].reply = "none"
                 /\ req'[p].sent = None /\ req'[p].new = None /\ req'[p].retried
<1>1. Types /\ CallShapes
  BY DEF IInv
<1>2. req' \in [Req -> {req'[p] : p \in Req}]
  BY DEF Resumed
<1>3. \A p \in Req : req'[p] = IF p = q THEN Free
                               ELSE IF req[p].op = "api" /\ req[p].phase = "waiting" /\ req[p].on = q
                               THEN IF k = None THEN Free ELSE Again(req[p])
                               ELSE req[p]
  BY DEF Resumed
<1>4. req'[q] = Free
  BY <1>3 DEF Req
<1>5. \A p \in Auth \ {q} : req'[p] = req[p]
  <2>1. \A p \in Auth : p \in Req /\ req[p].op # "api"
    BY <1>1, OpSlots, Slots DEF Req
  <2> QED
    BY <1>3, <2>1
<1>6. ASSUME NEW p \in Call, Busy(p)'
      PROVE  \/ req'[p] = req[p] /\ Busy(p) /\ ~ (req[p].phase = "waiting" /\ req[p].on = q)
             \/ /\ req'[p].tab # Gone /\ req'[p].phase = "up" /\ req'[p].reply = "none"
                /\ req'[p].sent = None /\ req'[p].new = None /\ req'[p].retried
                /\ req'[p] \in Sending /\ req'[p].op = "api"
  <2>1. p \in Req /\ p # q /\ req'[p] # Free
    BY <1>1, <1>6, Slots DEF Busy
  <2>2. CASE Busy(p) /\ req[p].phase = "waiting" /\ req[p].on = q
    <3>1. req[p].op = "api" /\ req[p] \in Sending
      BY <1>1, <2>1, <2>2, Slots
    <3>2. req'[p] = Again(req[p])
      BY <1>3, <2>1, <2>2, <3>1
    <3>3. req[p].tab # Gone /\ req[p].sends # 2
      BY <1>1, <2>2 DEF CallShapes
    <3>4. req[p].tab \in Tab /\ req[p].sends + 1 \in 1..2
      BY <3>1, <3>3 DEF Sending
    <3>5. Again(req[p]) \in Sending /\ Again(req[p]).op = "api" /\ Again(req[p]).tab = req[p].tab
      BY <3>4 DEF Again, Exchange, Sending
    <3>6. /\ Again(req[p]).phase = "up" /\ Again(req[p]).reply = "none" /\ Again(req[p]).retried
          /\ Again(req[p]).sent = None /\ Again(req[p]).new = None
      BY DEF Again, Exchange
    <3> QED
      BY <3>2, <3>3, <3>5, <3>6
  <2>3. CASE ~ (Busy(p) /\ req[p].phase = "waiting" /\ req[p].on = q)
    <3>1. CASE Busy(p)
      BY <1>3, <2>1, <2>3, <3>1
    <3>2. CASE ~ Busy(p)
      <4>1. req[p].op # "api"
        BY <1>1, <2>1, <3>2, OpSlots
      <4> QED
        BY <1>3, <2>1, <3>2, <4>1 DEF Busy
    <3> QED
      BY <3>1, <3>2
  <2> QED
    BY <2>2, <2>3
<1>7. ReqTypes'
  <2>1. ASSUME NEW p \in Req, Busy(p)' PROVE req'[p] \in Sending /\ req'[p].op \in Ops(p)
    <3>1. CASE p \in Auth
      <4>1. p # q
        BY <2>1, <1>4 DEF Busy
      <4> QED
        BY <2>1, <3>1, <4>1, <1>1, <1>5 DEF Types, ReqTypes, Busy
    <3>2. CASE p \in Call
      <4>1. CASE req'[p] = req[p]
        BY <2>1, <4>1, <1>1 DEF Types, ReqTypes, Busy
      <4>2. CASE req'[p] \in Sending /\ req'[p].op = "api"
        BY <3>2, <4>2 DEF Ops
      <4> QED
        BY <2>1, <3>2, <4>1, <4>2, <1>6
    <3> QED
      BY <3>1, <3>2 DEF Req
  <2>2. \A p \in Req : req'[p] \in {Free} \cup Sending
    BY <2>1 DEF Busy
  <2>3. req' \in [Req -> {Free} \cup Sending]
    BY <1>2, <2>2
  <2> QED
    BY <2>1, <2>3 DEF ReqTypes, Ops, Busy
<1> QED
  BY <1>4, <1>5, <1>6, <1>7

\* The answer of a refresh arrives.
LEMMA HearRefreshStep ==
  ASSUME IInv, NEW q \in Req, HearRefresh(q)
  PROVE  IInv'
<1>1. /\ Types /\ CallShapes /\ Flights /\ AuthShapes /\ Outside /\ Down(q, "refresh")
      /\ UNCHANGED <<chain, enabled, forked, tripped, overlap, out>>
      /\ req' = Resumed(q, req[q].new)
  BY DEF IInv, HearRefresh, history
<1>2. q \in Auth /\ Busy(q) /\ req[q].op = "refresh"
  BY <1>1, OpSlots DEF Down
<1> PICK t : t = req[q].tab
  OBVIOUS
<1>3. /\ t \in Tab /\ t # Gone /\ q \in Heard /\ tab[t].flight = q
      /\ req[q].new # None <=> req[q].reply = "ok"
  <2>1. t # Gone /\ (req[q].new # None <=> req[q].reply = "ok")
    BY <1>1, <1>2 DEF AuthShapes, Down
  <2>2. tab[t].flight = q
    BY <1>1, <1>2, <2>1 DEF Flights
  <2> QED
    BY <1>1, <1>2, <2>1, <2>2, Sent, Slots
<1>4. cookie' = IF req[q].new # None THEN req[q].new
                ELSE IF req[q].reply = "refused" /\ req[q].sent # None THEN None ELSE cookie
  BY <1>3 DEF HearRefresh
<1>5. /\ TabTypes' /\ tab'[t].flight = None
      /\ tab'[t].status = IF req[q].reply = "ok" THEN "authenticated" ELSE "anonymous"
      /\ \A s \in Tab \ {t} : tab'[s] = tab[s]
  <2>1. tab \in [Tab -> [status : {"closed", "checking", "authenticated", "anonymous"},
                         flight : Auth \cup {None}]]
    BY <1>1 DEF Types, TabTypes
  <2>2. CASE req[q].reply = "ok"
    <3>1. tab' = [[tab EXCEPT ![t].status = "authenticated"] EXCEPT ![t].flight = None]
      BY <2>2 DEF HearRefresh, SetSession
    <3> QED
      BY <2>1, <2>2, <3>1, <1>3 DEF TabTypes
  <2>3. CASE req[q].reply # "ok"
    <3>1. tab' = [[tab EXCEPT ![t].status = "anonymous"] EXCEPT ![t].flight = None]
      BY <2>3 DEF HearRefresh, ClearSession
    <3> QED
      BY <2>1, <2>3, <3>1, <1>3 DEF TabTypes
  <2> QED
    BY <2>2, <2>3
<1>6. /\ ReqTypes' /\ req'[q] = Free /\ \A p \in Auth \ {q} : req'[p] = req[p]
      /\ \A p \in Call : Busy(p)' =>
           \/ req'[p] = req[p] /\ Busy(p) /\ ~ (req[p].phase = "waiting" /\ req[p].on = q)
           \/ /\ req'[p].tab # Gone /\ req'[p].phase = "up" /\ req'[p].reply = "none"
              /\ req'[p].sent = None /\ req'[p].new = None /\ req'[p].retried
  BY <1>1, <1>2, ResumedCalls
<1>7. CallShapes'
  <2> SUFFICES ASSUME NEW p \in Call, Busy(p)'
               PROVE  /\ req'[p].tab = Gone => req'[p].phase = "up"
                      /\ req'[p].phase = "up" <=> req'[p].reply = "none"
                      /\ req'[p].sent = None /\ req'[p].new = None
                      /\ req'[p].sends = 2 => req'[p].retried
                      /\ req'[p].phase = "waiting" =>
                           /\ ~ req'[p].retried /\ req'[p].on # None
                           /\ tab'[req'[p].tab].flight = req'[p].on
    BY DEF CallShapes
  <2>1. CASE req'[p] = req[p] /\ Busy(p) /\ ~ (req[p].phase = "waiting" /\ req[p].on = q)
    <3>1. req[p].tab \in Tab \cup {Gone}
      BY <2>1, <1>1, Sent, Slots
    <3>2. req[p].phase = "waiting" => req[p].tab \in Tab \ {t}
      BY <2>1, <3>1, <1>1, <1>3 DEF CallShapes
    <3> QED
      BY <2>1, <3>2, <1>1, <1>5 DEF CallShapes
  <2>2. CASE /\ req'[p].tab # Gone /\ req'[p].phase = "up" /\ req'[p].reply = "none"
             /\ req'[p].sent = None /\ req'[p].new = None /\ req'[p].retried
    BY <2>2
  <2> QED
    BY <2>1, <2>2, <1>6
<1>8. Flights'
  <2>1. ASSUME NEW p \in Auth, req'[p].op = "refresh", req'[p].tab # Gone
        PROVE  tab'[req'[p].tab].flight = p
    <3>1. p # q
      BY <2>1, <1>6 DEF Free
    <3>2. req'[p] = req[p] /\ tab[req[p].tab].flight = p /\ req[p].tab \in Tab
      BY <2>1, <3>1, <1>1, <1>6, OpSlots, Slots, Sent DEF Flights
    <3> QED
      BY <3>1, <3>2, <1>3, <1>5
  <2>2. ASSUME NEW s \in Tab
        PROVE  /\ tab'[s].status = "checking" => tab'[s].flight # None
               /\ tab'[s].flight # None => /\ req'[tab'[s].flight].op = "refresh"
                                           /\ req'[tab'[s].flight].tab = s
    <3>1. CASE s = t
      BY <3>1, <1>5
    <3>2. CASE s # t
      <4>1. tab'[s] = tab[s] /\ tab[s].flight \in Auth \cup {None}
        BY <3>2, <1>1, <1>5 DEF Types, TabTypes
      <4>2. tab[s].flight # None => req[tab[s].flight].tab = s
        BY <1>1 DEF Flights
      <4>3. tab[s].flight # q
        BY <3>2, <4>2, <1>2, <1>1, Slots
      <4> QED
        BY <4>1, <4>3, <1>1, <1>6 DEF Flights
    <3> QED
      BY <3>1, <3>2
  <2> QED
    BY <2>1, <2>2 DEF Flights
<1>9. out' \subseteq Tab /\ \A s \in out' : tab'[s].status = "anonymous"
  <2>1. out # {} => req[q].reply # "ok"
    BY <1>1, <1>3 DEF Outside
  <2> QED
    BY <2>1, <1>1, <1>5 DEF Types, Outside
<1> QED
  BY <1>1, <1>2, <1>4, <1>5, <1>6, <1>7, <1>8, <1>9, HearStep

\* The answer of a call arrives.
LEMMA HearCallStep ==
  ASSUME IInv, NEW q \in Req, NEW p \in Auth, HearCall(q, p)
  PROVE  IInv'
<1>1. /\ Types /\ CallShapes /\ Flights /\ AuthShapes /\ Outside /\ Down(q, "api")
      /\ UNCHANGED <<chain, enabled, cookie, tripped, out>>
  BY DEF IInv, HearCall
<1>2. q \in Call /\ Busy(q) /\ q \notin Auth /\ req[q] \in Sending /\ p \in Req /\ p \notin Call
  BY <1>1, OpSlots, Slots DEF Down
<1> PICK t : t = req[q].tab
  OBVIOUS
<1>3. /\ t \in Tab /\ t # Gone /\ tab[t].flight \in Auth \cup {None}
      /\ req[q].op = "api" /\ req[q].phase = "down" /\ req[q].reply # "none"
      /\ req[q].sent = None /\ req[q].new = None /\ (req[q].sends = 2 => req[q].retried)
  <2>1. t # Gone /\ req[q].op = "api" /\ req[q].phase = "down"
    BY <1>1, <1>2 DEF CallShapes, Down
  <2>2. t \in Tab
    BY <1>1, <1>2, <2>1, Sent
  <2> QED
    BY <1>1, <1>2, <2>1, <2>2 DEF CallShapes, Types, TabTypes
<1>4. CASE /\ req' = [req EXCEPT ![q] = Free]
           /\ UNCHANGED <<tab, forked, overlap>>
  <2>1. ReqTypes' /\ req'[q] = Free /\ \A s \in Req \ {q} : req'[s] = req[s]
    BY <1>1, <1>4 DEF Types, ReqTypes, Ops
  <2>2. \A s \in Call : Busy(s)' => Busy(s) /\ req'[s] = req[s]
    BY <1>2, <2>1 DEF Busy, Req
  <2>3. CallShapes'
    BY <1>1, <1>4, <2>2 DEF CallShapes
  <2>4. (\A s \in Auth : req'[s] = req[s]) /\ enabled' \in BOOLEAN
    BY <1>1, <1>2, <2>1 DEF Types, Req
  <2> QED
    BY <1>1, <1>4, <2>1, <2>3, <2>4, OnlyCalls
\* What waiting makes of the call.
<1> DEFINE W(f) == [req[q] EXCEPT !.phase = "waiting", !.on = f]
<1>5. ASSUME NEW f \in Auth
      PROVE  /\ W(f) \in Sending /\ W(f).op = "api" /\ W(f).tab = t /\ W(f).phase = "waiting"
             /\ W(f).reply = req[q].reply /\ W(f).sent = None /\ W(f).new = None /\ W(f).on = f
             /\ W(f).retried = req[q].retried /\ W(f).sends = req[q].sends
  BY <1>2, <1>3 DEF Sending
<1>6. CASE /\ ~ req[q].retried /\ tab[t].flight # None
           /\ req' = [[req EXCEPT ![q].phase = "waiting"] EXCEPT ![q].on = tab[t].flight]
           /\ UNCHANGED <<tab, forked, overlap>>
  <2> PICK f : f = tab[t].flight
    OBVIOUS
  <2>1. f \in Auth
    BY <1>3, <1>6
  <2>2. req' = [req EXCEPT ![q] = W(f)]
    BY <1>2, <1>6 DEF Types, ReqTypes
  <2> HIDE DEF W
  <2>3. /\ req' \in [Req -> {Free} \cup Sending] /\ req'[q] = W(f)
        /\ \A s \in Req \ {q} : req'[s] = req[s]
    BY <1>1, <1>5, <2>1, <2>2 DEF Types, ReqTypes
  <2>4. ReqTypes'
    <3>1. \A s \in Req \ {q} : req'[s] # Free => req'[s].op \in Ops(s)
      BY <1>1, <2>3 DEF Types, ReqTypes
    <3>2. req'[q].op \in Ops(q)
      BY <1>2, <1>5, <2>1, <2>3 DEF Ops
    <3> QED
      BY <2>3, <3>1, <3>2 DEF ReqTypes, Ops
  <2>5. CallShapes'
    <3>1. /\ req'[q].tab = t /\ req'[q].phase = "waiting" /\ req'[q].reply # "none"
          /\ req'[q].sent = None /\ req'[q].new = None /\ req'[q].on = f /\ f # None
          /\ ~ req'[q].retried /\ req'[q].sends # 2
      BY <1>1, <1>3, <1>5, <1>6, <2>1, <2>3, Slots
    <3>2. \A s \in Call \ {q} : req'[s] = req[s] /\ (Busy(s)' <=> Busy(s))
      BY <2>3 DEF Req, Busy
    <3> SUFFICES ASSUME NEW s \in Call, Busy(s)'
                 PROVE  /\ req'[s].tab = Gone => req'[s].phase = "up"
                        /\ req'[s].phase = "up" <=> req'[s].reply = "none"
                        /\ req'[s].sent = None /\ req'[s].new = None
                        /\ req'[s].sends = 2 => req'[s].retried
                        /\ req'[s].phase = "waiting" =>
                             /\ ~ req'[s].retried /\ req'[s].on # None
                             /\ tab[req'[s].tab].flight = req'[s].on
      BY <1>6 DEF CallShapes
    <3>3. CASE s = q
      BY <3>1, <3>3, <1>3
    <3>4. CASE s # q
      BY <1>1, <3>2, <3>4 DEF CallShapes
    <3> QED
      BY <3>3, <3>4
  <2>6. (\A s \in Auth : req'[s] = req[s]) /\ enabled' \in BOOLEAN
    BY <1>1, <1>2, <2>3 DEF Types, Req
  <2> QED
    BY <1>1, <1>6, <2>4, <2>5, <2>6, OnlyCalls
<1>7. CASE /\ ~ req[q].retried /\ tab[t].flight = None
           /\ Sends(p, Exchange("refresh", t, cookie),
                    [[req EXCEPT ![q].phase = "waiting"] EXCEPT ![q].on = p])
           /\ forked' = forked \cup Twice(Exchange("refresh", t, cookie), req)
           /\ tab' = [tab EXCEPT ![t].flight = p]
  <2> DEFINE e == Exchange("refresh", t, cookie)
  <2>1. [[req EXCEPT ![q].phase = "waiting"] EXCEPT ![q].on = p] = [req EXCEPT ![q] = W(p)]
    BY <1>2 DEF Types, ReqTypes
  <2>2. /\ e \in Sending /\ e.op = "refresh" /\ e.tab = t /\ e.sent = cookie
    <3>1. cookie \in Token \cup {None}
      BY <1>1 DEF Types
    <3> QED
      BY <3>1, <1>3 DEF Exchange, Sending
  <2>3. /\ req[p] = Free /\ overlap' = (overlap \/ Heard # {})
        /\ req' = [[req EXCEPT ![q] = W(p)] EXCEPT ![p] = e]
    BY <1>7, <2>1 DEF Sends
  <2> HIDE DEF W, e
  <2>4. /\ req' \in [Req -> {Free} \cup Sending] /\ req'[q] = W(p) /\ req'[p] = e
        /\ \A s \in Req \ {p, q} : req'[s] = req[s]
    BY <1>1, <1>2, <1>5, <2>2, <2>3 DEF Types, ReqTypes
  <2>5. ReqTypes'
    <3>1. \A s \in Req \ {p, q} : req'[s] # Free => req'[s].op \in Ops(s)
      BY <1>1, <2>4 DEF Types, ReqTypes
    <3>2. req'[q].op \in Ops(q) /\ req'[p].op \in Ops(p)
      BY <1>2, <1>5, <2>2, <2>4 DEF Ops
    <3> QED
      BY <2>4, <3>1, <3>2 DEF ReqTypes, Ops
  <2>6. /\ TabTypes' /\ tab'[t].flight = p /\ p # None
        /\ \A s \in Tab \ {t} : tab'[s] = tab[s]
        /\ \A s \in Tab : tab'[s].status = tab[s].status
    BY <1>1, <1>3, <1>7, Slots DEF Types, TabTypes
  <2>7. CallShapes'
    <3>1. /\ req'[q].tab = t /\ req'[q].phase = "waiting" /\ req'[q].reply # "none"
          /\ req'[q].sent = None /\ req'[q].new = None /\ req'[q].on = p
          /\ ~ req'[q].retried /\ req'[q].sends # 2
      BY <1>3, <1>5, <1>7, <2>4
    <3>2. \A s \in Call \ {q} : req'[s] = req[s] /\ (Busy(s)' <=> Busy(s))
      BY <1>2, <2>4 DEF Req, Busy
    <3> SUFFICES ASSUME NEW s \in Call, Busy(s)'
                 PROVE  /\ req'[s].tab = Gone => req'[s].phase = "up"
                        /\ req'[s].phase = "up" <=> req'[s].reply = "none"
                        /\ req'[s].sent = None /\ req'[s].new = None
                        /\ req'[s].sends = 2 => req'[s].retried
                        /\ req'[s].phase = "waiting" =>
                             /\ ~ req'[s].retried /\ req'[s].on # None
                             /\ tab'[req'[s].tab].flight = req'[s].on
      BY DEF CallShapes
    <3>3. CASE s = q
      BY <3>1, <3>3, <1>3, <2>6
    <3>4. CASE s # q
      <4>1. Busy(s) /\ req'[s] = req[s] /\ req[s].tab \in Tab \cup {Gone}
        BY <3>2, <3>4, <1>1, Sent, Slots
      <4>2. req[s].phase = "waiting" => req[s].tab \in Tab \ {t}
        BY <4>1, <1>1, <1>7 DEF CallShapes
      <4> QED
        BY <4>1, <4>2, <1>1, <2>6 DEF CallShapes
    <3> QED
      BY <3>3, <3>4
  <2>8. \A s \in Auth : (req[s].op = "refresh" /\ req[s].tab # Gone) => req[s].tab \in Tab \ {t}
    <3>1. \A s \in Auth : req[s].op = "refresh" => req[s].tab \in Tab \cup {Gone}
      BY <1>1, Sent, OpSlots DEF Req
    <3> QED
      BY <3>1, <1>1, <1>7, Slots DEF Flights
  <2>9. \A s \in Auth \ {p} : req'[s] = req[s]
    BY <1>2, <2>4 DEF Req
  <2>10. Flights'
    <3>1. ASSUME NEW s \in Auth, req'[s].op = "refresh", req'[s].tab # Gone
          PROVE  tab'[req'[s].tab].flight = s
      <4>1. CASE s = p
        BY <4>1, <2>2, <2>4, <2>6
      <4>2. CASE s # p
        BY <3>1, <4>2, <1>1, <2>6, <2>8, <2>9 DEF Flights
      <4> QED
        BY <4>1, <4>2
    <3>2. ASSUME NEW s \in Tab
          PROVE  /\ tab'[s].status = "checking" => tab'[s].flight # None
                 /\ tab'[s].flight # None => /\ req'[tab'[s].flight].op = "refresh"
                                             /\ req'[tab'[s].flight].tab = s
      <4>1. CASE s = t
        BY <4>1, <2>2, <2>4, <2>6
      <4>2. CASE s # t
        <5>1. tab'[s] = tab[s] /\ tab[s].flight \in Auth \cup {None}
          BY <4>2, <1>1, <2>6 DEF Types, TabTypes
        <5>2. tab[s].flight # p
          BY <1>1, <2>3, <2>6 DEF Flights, Free
        <5> QED
          BY <5>1, <5>2, <1>1, <2>9 DEF Flights
      <4> QED
        BY <4>1, <4>2
    <3> QED
      BY <3>1, <3>2 DEF Flights
  <2>11. ASSUME NEW s \in Auth, Up(s, "refresh") \/ Answered(s), req[s].sent = cookie
         PROVE  cookie \in forked'
    <3>1. req[s].op = "refresh" /\ req[s].tab # t
      BY <2>8, <2>11, <1>3 DEF Up, Answered, Down
    <3>2. cookie \in Twice(e, req)
      BY <2>2, <2>11, <3>1 DEF Twice
    <3> QED
      BY <3>2, <1>7 DEF e
  <2>12. \A s \in Auth : ~ (Answered(s) /\ req'[s] # req[s])
    <3>1. ~ Answered(p)
      BY <2>3 DEF Answered, Down, Free
    <3> QED
      BY <3>1, <2>9
  <2>13. /\ ~ Busy(p) /\ forked \subseteq forked' /\ req'[p] = Exchange("refresh", t, cookie)
         /\ out' \subseteq out /\ \A s \in out' : tab'[s].status = "anonymous"
    BY <1>1, <1>7, <2>3, <2>4, <2>6 DEF Busy, e, Types, Outside
  <2> PICK k : k = cookie
    OBVIOUS
  <2> DEFINE op == "refresh"
  <2>14. k = (IF op = "login" THEN None ELSE cookie) /\ op \in {"refresh", "login", "logout"}
         /\ req'[p] = Exchange(op, t, k) /\ op # "login"
    BY <2>13
  <2> HIDE DEF op
  <2>15. /\ UNCHANGED <<chain, enabled, cookie, tripped>> /\ t \in Tab
         /\ overlap' = (overlap \/ Heard # {}) /\ (op = "login" => out' = {})
    BY <1>1, <1>3, <2>3, <2>14
  <2>16. \A s \in Auth : (op = "refresh" /\ (Up(s, "refresh") \/ Answered(s))
                          /\ req[s].sent = cookie /\ cookie # None) => cookie \in forked'
    BY <2>11
  <2>17. \A s \in Auth : (Answered(s) /\ req'[s] # req[s]) => req[s].sent \in forked'
    BY <2>12
  <2> QED
    BY <2>5, <2>6, <2>7, <2>9, <2>10, <2>13, <2>14, <2>15, <2>16, <2>17, SendStep
<1> QED
  BY <1>4, <1>6, <1>7 DEF HearCall, InFlight

\* The app is opened, or reloaded.
LEMMA LoadStep ==
  ASSUME IInv, NEW t \in Tab, NEW q \in Auth, Load(t, q)
  PROVE  IInv'
<1> PICK k : k = cookie
  OBVIOUS
<1> DEFINE e == Exchange("refresh", t, k)
           left == [p \in Req |-> IF req[p].tab # t THEN req[p]
                                  ELSE IF req[p].phase = "up" THEN [req[p] EXCEPT !.tab = Gone]
                                  ELSE Free]
           unheard == {p \in Auth : req[p].tab = t /\ Down(p, "refresh") /\ req[p].reply = "ok"}
<1>1. /\ Types /\ CallShapes /\ Flights /\ AuthShapes /\ Outside
      /\ UNCHANGED <<chain, enabled, cookie, tripped>>
      /\ Sends(q, e, left)
      /\ forked' = forked \cup {req[p].sent : p \in unheard} \cup Twice(e, left)
      /\ tab' = [tab EXCEPT ![t] = [status |-> "checking", flight |-> q]]
      /\ out' = out \ {t}
  BY DEF IInv, Load
<1>2. t # Gone /\ q \in Req /\ q \notin Call /\ q # None
  BY <1>1, TabsAssumption, Slots
<1>3. e \in Sending /\ e.op = "refresh" /\ e.tab = t /\ e.sent = k /\ e.tab # Gone
  <2>1. k \in Token \cup {None}
    BY <1>1 DEF Types
  <2> QED
    BY <2>1, <1>2 DEF Exchange, Sending
<1>4. /\ req[q] = Free /\ req' = [left EXCEPT ![q] = e] /\ overlap' = (overlap \/ Heard # {})
  BY <1>1 DEF Sends
<1> HIDE DEF e
<1>5. /\ req' \in [Req -> {req'[p] : p \in Req}] /\ req'[q] = e
      /\ \A p \in Req \ {q} : req'[p] = left[p]
  BY <1>2, <1>4
<1>6. \A p \in Req : left[p] = IF req[p].tab # t THEN req[p]
                               ELSE IF req[p].phase = "up" THEN [req[p] EXCEPT !.tab = Gone]
                               ELSE Free
  OBVIOUS
<1> HIDE DEF left
\* A page that asks again is a slot in use.
<1>7. \A p \in Req : req[p].tab = t => Busy(p) /\ req[p] \in Sending
  BY <1>1, <1>2, Slots
<1>8. ASSUME NEW p \in Req, req[p].tab = t, req[p].phase = "up"
      PROVE  /\ left[p] \in Sending /\ left[p].op = req[p].op /\ left[p].tab = Gone
             /\ left[p].phase = "up" /\ left[p].sent = req[p].sent /\ left[p].reply = req[p].reply
             /\ left[p].new = req[p].new /\ left[p].retried = req[p].retried
             /\ left[p].sends = req[p].sends
  <2>1. left[p] = [req[p] EXCEPT !.tab = Gone] /\ req[p] \in Sending
    BY <1>6, <1>7, <1>8
  <2> QED
    BY <2>1, <1>8 DEF Sending
<1>9. ReqTypes'
  <2>1. ASSUME NEW p \in Req, p # q, req'[p] # Free
        PROVE  req'[p] \in Sending /\ req'[p].op \in Ops(p)
    <3>1. req'[p] = left[p]
      BY <2>1, <1>5
    <3>2. CASE req[p].tab # t
      BY <2>1, <3>1, <3>2, <1>1, <1>6 DEF Types, ReqTypes
    <3>3. CASE req[p].tab = t /\ req[p].phase = "up"
      <4>1. left[p] \in Sending /\ left[p].op = req[p].op
        BY <3>3, <1>8
      <4>2. req[p].op \in Ops(p)
        BY <3>3, <1>1, <1>7 DEF Types, ReqTypes, Busy
      <4> QED
        BY <3>1, <4>1, <4>2
    <3>4. CASE req[p].tab = t /\ req[p].phase # "up"
      BY <2>1, <3>1, <3>4, <1>6
    <3> QED
      BY <3>2, <3>3, <3>4
  <2>2. e.op \in Ops(q)
    BY <1>2, <1>3 DEF Ops
  <2>3. \A p \in Req : req'[p] \in {Free} \cup Sending
    BY <2>1, <1>3, <1>5
  <2>4. \A p \in Req : req'[p] # Free => req'[p].op \in Ops(p)
    BY <2>1, <2>2, <1>5
  <2>5. req' \in [Req -> {Free} \cup Sending]
    BY <2>3, <1>5
  <2> QED
    BY <2>4, <2>5 DEF ReqTypes, Ops
<1>10. /\ TabTypes' /\ tab'[t].flight = q
       /\ \A s \in Tab \ {t} : tab'[s] = tab[s]
  BY <1>1 DEF Types, TabTypes
<1>11. CallShapes'
  <2> SUFFICES ASSUME NEW p \in Call, Busy(p)'
               PROVE  /\ req'[p].tab = Gone => req'[p].phase = "up"
                      /\ req'[p].phase = "up" <=> req'[p].reply = "none"
                      /\ req'[p].sent = None /\ req'[p].new = None
                      /\ req'[p].sends = 2 => req'[p].retried
                      /\ req'[p].phase = "waiting" =>
                           /\ ~ req'[p].retried /\ req'[p].on # None
                           /\ tab'[req'[p].tab].flight = req'[p].on
    BY DEF CallShapes
  <2>1. p \in Req /\ req'[p] = left[p] /\ req'[p] # Free
    BY <1>2, <1>5 DEF Req, Busy
  <2>2. CASE req[p].tab # t
    <3>1. req'[p] = req[p] /\ Busy(p)
      BY <2>1, <2>2, <1>6 DEF Busy
    <3>2. req[p].tab \in Tab \cup {Gone}
      BY <2>1, <3>1, <1>1, Sent
    <3>3. req[p].phase = "waiting" => req[p].tab \in Tab \ {t}
      BY <2>2, <3>1, <3>2, <1>1 DEF CallShapes
    <3> QED
      BY <3>1, <3>3, <1>1, <1>10 DEF CallShapes
  <2>3. CASE req[p].tab = t /\ req[p].phase = "up"
    <3>1. /\ req[p].reply = "none" /\ req[p].sent = None /\ req[p].new = None
          /\ (req[p].sends = 2 => req[p].retried)
      BY <2>1, <2>3, <1>1, <1>7 DEF CallShapes
    <3>2. /\ left[p].tab = Gone
          /\ left[p].phase = "up" /\ left[p].sent = req[p].sent /\ left[p].reply = req[p].reply
          /\ left[p].new = req[p].new /\ left[p].retried = req[p].retried
          /\ left[p].sends = req[p].sends
      BY <2>1, <2>3, <1>8
    <3> QED
      BY <2>1, <3>1, <3>2
  <2>4. CASE req[p].tab = t /\ req[p].phase # "up"
    BY <2>1, <2>4, <1>6
  <2> QED
    BY <2>2, <2>3, <2>4
<1>12. ASSUME NEW p \in Auth, p # q
       PROVE  /\ req[p].tab # t => req'[p] = req[p] /\ left[p] = req[p]
              /\ (req[p].tab = t /\ req[p].phase = "up")
                   => req'[p] = left[p] /\ req'[p] = [req[p] EXCEPT !.tab = Gone]
              /\ (req[p].tab = t /\ req[p].phase # "up") => req'[p] = Free
  BY <1>5, <1>6, <1>12 DEF Req
<1>13. Flights'
  <2>1. ASSUME NEW p \in Auth, req'[p].op = "refresh", req'[p].tab # Gone
        PROVE  tab'[req'[p].tab].flight = p
    <3>1. CASE p = q
      BY <3>1, <1>3, <1>5, <1>10
    <3>2. CASE p # q
      <4>1. p \in Req /\ req[p].tab # t
        <5>1. p \in Req
          BY DEF Req
        <5>2. (req[p].tab = t /\ req[p].phase = "up") => req'[p].tab = Gone
          BY <3>2, <5>1, <1>8, <1>12
        <5>3. (req[p].tab = t /\ req[p].phase # "up") => req'[p].op # "refresh"
          <6>1. (req[p].tab = t /\ req[p].phase # "up") => req'[p] = Free
            BY <3>2, <1>12
          <6> QED
            BY <6>1 DEF Free
        <5> QED
          BY <2>1, <5>1, <5>2, <5>3
      <4>2. req'[p] = req[p]
        BY <3>2, <4>1, <1>12
      <4>3. req[p].tab \in Tab \ {t}
        BY <2>1, <4>1, <4>2, <1>1, OpSlots, Sent
      <4> QED
        BY <2>1, <4>2, <4>3, <1>1, <1>10 DEF Flights
    <3> QED
      BY <3>1, <3>2
  <2>2. ASSUME NEW s \in Tab
        PROVE  /\ tab'[s].status = "checking" => tab'[s].flight # None
               /\ tab'[s].flight # None => /\ req'[tab'[s].flight].op = "refresh"
                                           /\ req'[tab'[s].flight].tab = s
    <3>1. CASE s = t
      BY <3>1, <1>2, <1>3, <1>5, <1>10
    <3>2. CASE s # t
      <4>1. tab'[s] = tab[s] /\ tab[s].flight \in Auth \cup {None}
        BY <3>2, <1>1, <1>10 DEF Types, TabTypes
      <4>2. tab[s].flight # None => req[tab[s].flight].op = "refresh" /\ req[tab[s].flight].tab = s
        BY <1>1 DEF Flights
      <4>3. tab[s].flight # q
        BY <4>2, <1>2, <1>4 DEF Free
      <4> QED
        BY <3>2, <4>1, <4>2, <4>3, <1>1, <1>12 DEF Flights
    <3> QED
      BY <3>1, <3>2
  <2> QED
    BY <2>1, <2>2 DEF Flights
<1>14. ASSUME NEW p \in Auth, Up(p, "refresh") \/ Answered(p), req[p].sent = cookie
       PROVE  cookie \in forked'
  <2>1. p # q /\ p \in Req
    BY <1>4, <1>14 DEF Up, Answered, Down, Free, Req
  <2>2. CASE req[p].tab # t \/ Up(p, "refresh")
    <3>1. left[p].op = "refresh" /\ left[p].sent = cookie /\ left[p].tab # t
      BY <2>1, <2>2, <1>2, <1>6, <1>8, <1>14 DEF Up, Answered, Down
    <3>2. cookie \in Twice(e, left)
      BY <3>1, <1>3 DEF Twice
    <3> QED
      BY <3>2, <1>1
  <2>3. CASE req[p].tab = t /\ Answered(p)
    BY <2>3, <1>1, <1>14 DEF Answered
  <2> QED
    BY <2>2, <2>3, <1>14
<1>15. ASSUME NEW p \in Auth, Answered(p), req'[p] # req[p]
       PROVE  req[p].sent \in forked'
  <2>1. p # q
    BY <1>4, <1>15 DEF Answered, Down, Free
  <2>2. req[p].tab = t
    BY <2>1, <1>12, <1>15
  <2> QED
    BY <2>2, <1>1, <1>15 DEF Answered
<1>16. /\ ~ Busy(q) /\ forked \subseteq forked' /\ req'[q] = Exchange("refresh", t, k)
       /\ out' \subseteq out /\ \A s \in out' : tab'[s].status = "anonymous"
  BY <1>1, <1>4, <1>5, <1>10 DEF Busy, e, Types, Outside
<1> DEFINE op == "refresh"
<1>17. k = (IF op = "login" THEN None ELSE cookie) /\ op \in {"refresh", "login", "logout"}
       /\ req'[q] = Exchange(op, t, k) /\ op # "login"
  BY <1>16
<1> HIDE DEF op
<1>18. /\ UNCHANGED <<chain, enabled, cookie, tripped>>
       /\ overlap' = (overlap \/ Heard # {}) /\ (op = "login" => out' = {})
  BY <1>1, <1>4, <1>17
<1>19. \A p \in Auth \ {q} : \/ req'[p] = req[p]
                             \/ req[p].tab = t /\ req'[p] = Free
                             \/ /\ req[p].tab = t /\ req[p].phase = "up"
                                /\ req'[p] = [req[p] EXCEPT !.tab = Gone]
  BY <1>12
<1>20. \A p \in Auth : (op = "refresh" /\ (Up(p, "refresh") \/ Answered(p))
                        /\ req[p].sent = cookie /\ cookie # None) => cookie \in forked'
  BY <1>14
<1>21. \A p \in Auth : (Answered(p) /\ req'[p] # req[p]) => req[p].sent \in forked'
  BY <1>15
<1> QED
  BY <1>9, <1>10, <1>11, <1>13, <1>16, <1>17, <1>18, <1>19, <1>20, <1>21, SendStep

-----------------------------------------------------------------------------
(* The theorems *)

\* Nothing has happened yet.
LEMMA InitIInv == Init => IInv
<1> SUFFICES ASSUME Init PROVE IInv
  OBVIOUS
<1>1. /\ live = [f \in Token |-> {}] /\ spent = [f \in Token |-> {}] /\ enabled = TRUE
      /\ cookie = None /\ tab = [t \in Tab |-> [status |-> "closed", flight |-> None]]
      /\ req = [q \in Req |-> Free] /\ forked = {} /\ tripped = {} /\ overlap = FALSE /\ out = {}
  BY DEF Init, Server!Init
<1>2. \A q \in Req : req[q] = Free /\ ~ Busy(q)
  BY <1>1 DEF Busy
<1>3. Auth \subseteq Req /\ Call \subseteq Req
  BY DEF Req
<1>4. Types
  <2>1. ChainTypes /\ ReqTypes
    BY <1>1, <1>2 DEF ChainTypes, ReqTypes
  <2>2. TabTypes
    BY <1>1 DEF TabTypes
  <2> QED
    BY <2>1, <2>2, <1>1 DEF Types
<1>5. Chains
  BY <1>1 DEF Chains, Family
<1>6. Issuing /\ AuthShapes /\ CallShapes /\ News
  BY <1>1, <1>2, <1>3 DEF Issuing, AuthShapes, CallShapes, News
<1>7. Flights /\ Twins /\ Causes
  BY <1>1, <1>2, <1>3 DEF Flights, Twins, Causes, Up, Free
<1>8. Outside
  BY <1>1 DEF Outside
<1>9. Jar
  <2>1. Heard = {}
    BY <1>2, <1>3 DEF Heard
  <2> QED
    BY <2>1, <1>1, <1>2, <1>3 DEF Jar, JarWorks
<1> QED
  BY <1>4, <1>5, <1>6, <1>7, <1>8, <1>9 DEF IInv

\* Nothing happens.
LEMMA StutterStep == IInv /\ UNCHANGED vars => IInv'
<1> SUFFICES ASSUME IInv, UNCHANGED vars PROVE IInv'
  OBVIOUS
<1>1. UNCHANGED <<chain, enabled, cookie, tab, req, forked, tripped, overlap, out>>
  BY DEF vars, history, chain
<1>2. ReqTypes' /\ CallShapes' /\ enabled' \in BOOLEAN
  BY <1>1 DEF IInv, Types, ReqTypes, Ops, CallShapes, Busy
<1> QED
  BY <1>1, <1>2, OnlyCalls

\* Every step of the server, a page or the network preserves the invariant.
LEMMA NextIInv == IInv /\ [Next]_vars => IInv'
<1> SUFFICES ASSUME IInv, Next PROVE IInv'
  BY StutterStep
<1>1. ASSUME NEW q \in Req, Serve(q) PROVE IInv'
  BY <1>1, ServeRefreshStep, ServeLoginStep, ServeLogoutStep, ServeCallStep DEF Serve
<1>2. ASSUME NEW q \in Req, Hear(q) PROVE IInv'
  BY <1>2, HearRefreshStep, HearLoginStep, HearLogoutStep, HearCallStep DEF Hear
<1>3. ASSUME NEW q \in Req, Lose(q) PROVE IInv'
  BY <1>3, LoseAnyStep
<1>4. ASSUME NEW t \in Tab, NEW q \in Auth, Load(t, q) PROVE IInv'
  BY <1>4, LoadStep
<1>5. ASSUME NEW t \in Tab, NEW q \in Auth, SignIn(t, q) PROVE IInv'
  <2> DEFINE op == "login"
  <2> PICK k : k = None
    OBVIOUS
  <2>1. /\ op \in {"login", "logout"} /\ k = (IF op = "login" THEN None ELSE cookie)
        /\ Sends(q, Exchange(op, t, k), req)
        /\ UNCHANGED <<chain, enabled, cookie, tab, forked, tripped>>
        /\ out' = IF op = "login" THEN {} ELSE out
    BY <1>5 DEF SignIn
  <2> HIDE DEF op
  <2> QED
    BY <2>1, SignStep
<1>6. ASSUME NEW t \in Tab, NEW q \in Auth, SignOut(t, q) PROVE IInv'
  <2> DEFINE op == "logout"
  <2> PICK k : k = cookie
    OBVIOUS
  <2>1. /\ op \in {"login", "logout"} /\ k = (IF op = "login" THEN None ELSE cookie)
        /\ Sends(q, Exchange(op, t, k), req)
        /\ UNCHANGED <<chain, enabled, cookie, tab, forked, tripped>>
        /\ out' = IF op = "login" THEN {} ELSE out
    BY <1>6 DEF SignOut
  <2> HIDE DEF op
  <2> QED
    BY <2>1, SignStep
<1>7. ASSUME NEW t \in Tab, NEW q \in Call, SendCall(t, q) PROVE IInv'
  BY <1>7, SendCallStep
<1>8. ASSUME Deactivate PROVE IInv'
  BY <1>8, DeactivateStep
<1> QED
  BY <1>1, <1>2, <1>3, <1>4, <1>5, <1>6, <1>7, <1>8 DEF Next

\* The invariant holds of every state of the browser and its server.
THEOREM Inductive == Spec => []IInv
  BY InitIInv, NextIInv, PTL DEF Spec

\* Types, and no call is sent more than twice (the _retry mark of the interceptor).
THEOREM TypeCorrect == Spec => []TypeOK
<1>1. IInv => TypeOK
  <2> SUFFICES ASSUME IInv PROVE TypeOK
    OBVIOUS
  <2>1. Types
    BY DEF IInv
  <2>2. ASSUME NEW q \in Req, req[q] # Free
        PROVE  /\ req[q].op \in IF q \in Call THEN {"api"} ELSE {"refresh", "login", "logout"}
               /\ req[q].tab \in Tab \cup {Gone}
               /\ req[q].phase \in {"up", "down", "waiting"}
               /\ req[q].sent \in Token \cup {None}
               /\ req[q].sends \in 1..2
    BY <2>1, <2>2, Sent DEF Types, ReqTypes, Ops, Busy
  <2> QED
    BY <2>1, <2>2 DEF TypeOK, Types, ChainTypes, TabTypes
<1> QED
  BY <1>1, Inductive, PTL

\* Reuse detection never punishes calls that meet a 401 together (refreshAccessToken
\* shares one refresh): a session is only ended for a token that two pages presented
\* at once, or whose successor was lost.
THEOREM ReuseHasCause == Spec => []ReuseNeedsCause
<1>1. IInv => ReuseNeedsCause
  BY DEF IInv, Causes, ReuseNeedsCause
<1> QED
  BY <1>1, Inductive, PTL

\* At rest the jar holds a token that works, or none (refresh, login and logout each
\* leave the cookie that belongs to the session they leave).
THEOREM JarCurrent == Spec => []JarIsCurrent
<1>1. IInv => JarIsCurrent
  <2> SUFFICES ASSUME IInv, Heard = {}, ~ overlap, cookie # None
               PROVE  cookie \in live[FamilyOf(cookie)]
    BY DEF JarIsCurrent
  <2>1. PICK f \in Token : cookie \in live[f]
    BY DEF IInv, Jar, JarWorks, Alive
  <2>2. FamilyOf(cookie) = f
    BY <2>1, Families DEF IInv, Types, Family
  <2> QED
    BY <2>1, <2>2
<1> QED
  BY <1>1, Inductive, PTL

\* Nothing signs a tab in again that was signed out alone, before the next login.
THEOREM SignedOutStaysOut == Spec => []StaysOut
<1>1. IInv => StaysOut
  BY DEF IInv, Outside, StaysOut
<1> QED
  BY <1>1, Inductive, PTL

\* A call, or the spinner of a reload, only waits for a refresh that is under way
\* (the finally of refreshAccessToken).
THEOREM EveryWaitIsForRefresh == Spec => []WaitsForRefresh
<1>1. IInv => WaitsForRefresh
  BY DEF IInv, CallShapes, Flights, Busy, WaitsForRefresh
<1> QED
  BY <1>1, Inductive, PTL
=============================================================================

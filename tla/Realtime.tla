------------------------------ MODULE Realtime ------------------------------
(***************************************************************************)
(* The Socket.IO connection of one signed-in tab, both ends of it: the       *)
(* server's handshake, rooms and expiry timer (socket.ts), and the provider  *)
(* that connects, reconnects and refreshes the access token                  *)
(* (SocketProvider.tsx).                                                     *)
(*                                                                          *)
(* Every sign-in mounts a provider of its own.  Packets from the server      *)
(* arrive in order.  A broken link is noticed by both ends at once.  The     *)
(* refresh is one HTTP exchange, shared by the provider and the API calls.   *)
(***************************************************************************)
EXTENDS Naturals, Sequences

CONSTANTS Role,        \* roles an account may have, one room each
          TTL,         \* lifetime of an access token
          MaxMounts,   \* bound: sign-ins
          MaxTime,     \* bound: the clock stops here
          MaxFaults,   \* bound: lost links, failed refreshes and handshakes
          MaxChanges   \* bound: changes of the account by an administrator

ASSUME TimesAssumption == TTL \in Nat \ {0} /\ MaxTime \in Nat
ASSUME RoleAssumption == "none" \notin Role

VARIABLES
  now,
  standing, left,  \* the account's role, or "none" once deactivated; when it ceased to be r
  token,           \* expiry of the access token in the store, or None
  flight,          \* the refresh in flight
  sock,            \* sock[p]: provider p and its client socket
  conn,            \* conn[p]: the server's end of it
  down,            \* down[p]: packets on their way to the client
  waiting,         \* providers that await the refresh
  faults, changes

server == <<conn, down>>
client == <<sock, waiting, token, flight>>
account == <<standing, left, changes>>
vars == <<now, account, client, server, faults>>

Provider == 1..MaxMounts
Expiry == TTL..(MaxTime + TTL)
None == 0

SockRow == [stage : {"new", "mounted", "gone"}, link : {"closed", "dialling", "open", "live"},
            reauthAttempted : BOOLEAN, missed : BOOLEAN, strikes : 0..2]
ConnRow == [phase : {"none", "verifying", "loading", "admitted", "joined"},
            expires : Expiry \cup {None}, role : Role \cup {"none"}, since : 0..MaxTime]
Packets == {"connected", "rejected", "session_expired", "disconnect"}

NoConn == [phase |-> "none", expires |-> None, role |-> "none", since |-> 0]
NoFlight == [phase |-> "none", expires |-> None]

SignedIn == token # None
Mounted(p) == sock[p].stage = "mounted"
Fault == faults < MaxFaults /\ faults' = faults + 1

-----------------------------------------------------------------------------
(* The server's end of the socket *)

Verifying(p) == conn[p].phase = "verifying"
Joined(p) == conn[p].phase = "joined"

Reject(p) ==
  /\ conn' = [conn EXCEPT ![p] = NoConn]
  /\ down' = [down EXCEPT ![p] = Append(@, "rejected")]

\* authenticateAccessToken up to its query: the token must not have expired.
CheckToken(p) ==
  /\ Verifying(p)
  /\ IF conn[p].expires > now
     THEN conn' = [conn EXCEPT ![p].phase = "loading"] /\ UNCHANGED down
     ELSE Reject(p)
  /\ UNCHANGED <<now, account, client, faults>>

\* The account as the database has it.
LoadUser(p) ==
  /\ conn[p].phase = "loading"
  /\ IF standing # "none"
     THEN conn' = [conn EXCEPT ![p].phase = "admitted", ![p].role = standing] /\ UNCHANGED down
     ELSE Reject(p)
  /\ UNCHANGED <<now, account, client, faults>>

\* The query fails: the client is told that authentication failed.
LoadFails(p) ==
  /\ conn[p].phase = "loading"
  /\ Reject(p)
  /\ Fault
  /\ UNCHANGED <<now, account, client>>

\* MUTANT: the timer runs for a whole token lifetime from the connection on.
JoinForALifetime(p) ==
  /\ conn[p].phase = "admitted"
  /\ conn' = [conn EXCEPT ![p].phase = "joined", ![p].expires = now + TTL]
  /\ down' = [down EXCEPT ![p] = Append(@, "connected")]
  /\ UNCHANGED <<now, account, client, faults>>

\* The connection joins its rooms and is timed to end with its token.
Join(p) ==
  /\ conn[p].phase = "admitted"
  /\ conn' = [conn EXCEPT ![p].phase = "joined"]
  /\ down' = [down EXCEPT ![p] = Append(@, "connected")]
  /\ UNCHANGED <<now, account, client, faults>>

\* MUTANT: the client is told, and not disconnected.
ExpireAskOnly(p) ==
  /\ Joined(p) /\ now >= conn[p].expires
  /\ down' = [down EXCEPT ![p] = Append(@, "session_expired")]
  /\ UNCHANGED <<now, account, client, conn, faults>>

Expire(p) ==
  /\ Joined(p) /\ now >= conn[p].expires
  /\ conn' = [conn EXCEPT ![p] = NoConn]
  /\ down' = [down EXCEPT ![p] = Append(Append(@, "session_expired"), "disconnect")]
  /\ UNCHANGED <<now, account, client, faults>>

\* An administrator changes the role of the account, or (de)activates it.
ChangeAccount ==
  /\ changes < MaxChanges /\ changes' = changes + 1
  /\ \E r \in (Role \cup {"none"}) \ {standing} : standing' = r
  /\ left' = [left EXCEPT ![standing] = now]
  /\ UNCHANGED <<now, client, server, faults>>

-----------------------------------------------------------------------------
(* The refresh that the provider shares with the API calls *)

StartRefresh == flight' = IF flight = NoFlight THEN [flight EXCEPT !.phase = "sent"] ELSE flight

\* An API call of the tab is answered 401.
CallRefreshes ==
  /\ SignedIn /\ flight = NoFlight
  /\ token <= now \/ standing = "none"
  /\ StartRefresh
  /\ UNCHANGED <<now, account, sock, waiting, token, server, faults>>

HandleRefresh ==
  /\ flight.phase = "sent"
  /\ \/ /\ standing # "none"
        /\ flight' = [phase |-> "granted", expires |-> now + TTL]
        /\ UNCHANGED faults
     \/ /\ IF standing = "none" THEN UNCHANGED faults ELSE Fault
        /\ flight' = [flight EXCEPT !.phase = "refused"]
  /\ UNCHANGED <<now, account, sock, waiting, token, server>>

\* MUTANT: the provider connects without asking whether it is still mounted.
ConnectAnyway(p) ==
  [sock[p] EXCEPT !.link = IF @ = "closed" THEN "dialling" ELSE @,
                  !.missed = (@ \/ sock[p].link = "live")]

\* The provider connects when its refresh is done, if it is still mounted.  A
\* socket that is connected ignores the call; `missed` is history.
ConnectIfActive(p) ==
  IF ~ Mounted(p) THEN sock[p]
  ELSE [sock[p] EXCEPT !.link = IF @ = "closed" THEN "dialling" ELSE @,
                       !.missed = (@ \/ sock[p].link = "live")]

SettleRefresh ==
  /\ \/ /\ flight.phase = "granted"
        /\ token' = flight.expires
        /\ sock' = [p \in Provider |-> IF p \in waiting THEN ConnectIfActive(p) ELSE sock[p]]
     \/ /\ flight.phase = "refused"
        /\ token' = None
        /\ UNCHANGED sock
  /\ flight' = NoFlight
  /\ waiting' = {}
  /\ UNCHANGED <<now, account, server, faults>>

Logout ==
  /\ SignedIn
  /\ token' = None
  /\ UNCHANGED <<now, account, sock, waiting, flight, server, faults>>

\* The login page is shown when the provider is gone.
Login ==
  /\ ~ SignedIn /\ \A p \in Provider : ~ Mounted(p)
  /\ standing # "none"
  /\ token' = now + TTL
  /\ UNCHANGED <<now, account, sock, waiting, flight, server, faults>>

-----------------------------------------------------------------------------
(* The provider and its socket *)

Mount(p) ==
  /\ SignedIn
  /\ \A q \in Provider : IF q < p THEN sock[q].stage = "gone" ELSE sock[q].stage = "new"
  /\ sock' = [sock EXCEPT ![p].stage = "mounted", ![p].link = "dialling"]
  /\ UNCHANGED <<now, account, waiting, token, flight, server, faults>>

\* The effect's cleanup: the session is gone, the socket is disconnected.
Unmount(p) ==
  /\ Mounted(p) /\ ~ SignedIn
  /\ sock' = [sock EXCEPT ![p].stage = "gone", ![p].link = "closed"]
  /\ conn' = [conn EXCEPT ![p] = NoConn]
  /\ down' = [down EXCEPT ![p] = <<>>]
  /\ UNCHANGED <<now, account, waiting, token, flight, faults>>

\* The transport opens, and the token of this moment goes in the handshake.
Dial(p) ==
  /\ sock[p].link = "dialling"
  /\ sock' = [sock EXCEPT ![p].link = "open"]
  /\ conn' = [conn EXCEPT ![p] = [NoConn EXCEPT !.phase = "verifying",
                                                !.expires = token, !.since = now]]
  /\ UNCHANGED <<now, account, waiting, token, flight, down, faults>>

\* The link breaks.  Socket.IO keeps dialling by itself.
Cut(p) ==
  /\ sock[p].link \in {"open", "live"}
  /\ sock' = [sock EXCEPT ![p].link = "dialling"]
  /\ conn' = [conn EXCEPT ![p] = NoConn]
  /\ down' = [down EXCEPT ![p] = <<>>]
  /\ Fault
  /\ UNCHANGED <<now, account, waiting, token, flight>>

Packet(p, m) == down[p] # <<>> /\ Head(down[p]) = m /\ down' = [down EXCEPT ![p] = Tail(@)]

Reauthenticate(p) == StartRefresh /\ waiting' = waiting \cup {p}

\* MUTANT: a connection does not give the next rejection its one refresh back.
HearConnectOnce(p) ==
  /\ Packet(p, "connected")
  /\ sock' = [sock EXCEPT ![p].link = "live", ![p].missed = FALSE, ![p].strikes = 0]
  /\ UNCHANGED <<now, account, waiting, token, flight, conn, faults>>

\* `strikes` and `missed` are history: what happened since it was last live.
HearConnect(p) ==
  /\ Packet(p, "connected")
  /\ sock' = [sock EXCEPT ![p].link = "live", ![p].reauthAttempted = FALSE,
                          ![p].missed = FALSE, ![p].strikes = 0]
  /\ UNCHANGED <<now, account, waiting, token, flight, conn, faults>>

\* connect_error of a rejected handshake: one refresh, then it stays offline.
HearRejection(p) ==
  /\ Packet(p, "rejected")
  /\ sock' = [sock EXCEPT ![p].link = "closed", ![p].reauthAttempted = TRUE,
                          ![p].strikes = IF @ < 2 THEN @ + 1 ELSE @]
  /\ IF sock[p].reauthAttempted THEN UNCHANGED <<flight, waiting>> ELSE Reauthenticate(p)
  /\ UNCHANGED <<now, account, token, conn, faults>>

HearExpired(p) ==
  /\ Packet(p, "session_expired")
  /\ Reauthenticate(p)
  /\ UNCHANGED <<now, account, sock, token, conn, faults>>

\* A socket the server has disconnected does not dial by itself.
HearDisconnect(p) ==
  /\ Packet(p, "disconnect")
  /\ sock' = [sock EXCEPT ![p].link = "closed"]
  /\ UNCHANGED <<now, account, waiting, token, flight, conn, faults>>

-----------------------------------------------------------------------------
\* Timers fire when they are due, and a handshake takes less than a unit (it is
\* given up after 45 seconds).
Tick ==
  /\ now < MaxTime
  /\ \A p \in Provider :
       /\ Joined(p) => now < conn[p].expires
       /\ conn[p].phase \in {"verifying", "loading", "admitted"} => conn[p].since = now
  /\ now' = now + 1
  /\ UNCHANGED <<account, client, server, faults>>

Init ==
  /\ now = 0
  /\ standing \in Role /\ left = [r \in Role \cup {"none"} |-> 0]
  /\ token = TTL
  /\ flight = NoFlight
  /\ sock = [p \in Provider |-> [stage |-> "new", link |-> "closed", reauthAttempted |-> FALSE,
                                 missed |-> FALSE, strikes |-> 0]]
  /\ conn = [p \in Provider |-> NoConn]
  /\ down = [p \in Provider |-> <<>>]
  /\ waiting = {}
  /\ faults = 0 /\ changes = 0

Serve(p) == CheckToken(p) \/ LoadUser(p) \/ Join(p) \/ Expire(p)

Hear(p) == HearConnect(p) \/ HearRejection(p) \/ HearExpired(p) \/ HearDisconnect(p)

Next ==
  \/ \E p \in Provider : \/ Serve(p) \/ LoadFails(p) \/ Hear(p)
                         \/ Mount(p) \/ Unmount(p) \/ Dial(p) \/ Cut(p)
  \/ CallRefreshes \/ HandleRefresh \/ SettleRefresh \/ Logout \/ Login
  \/ ChangeAccount \/ Tick

\* Node and the browser run their callbacks, a dropped network comes back.
Spec ==
  /\ Init /\ [][Next]_vars
  /\ \A p \in Provider : WF_vars(Serve(p)) /\ WF_vars(Hear(p)) /\ WF_vars(Dial(p)) /\ WF_vars(Unmount(p))
  /\ WF_vars(HandleRefresh) /\ WF_vars(SettleRefresh)

-----------------------------------------------------------------------------
(* Properties *)

\* Types.  No client has more than one connection's farewell on its way.
TypeOK ==
  /\ now \in 0..MaxTime
  /\ standing \in Role \cup {"none"} /\ left \in [Role \cup {"none"} -> 0..MaxTime]
  /\ token \in Expiry \cup {None}
  /\ flight \in [phase : {"none", "sent", "granted", "refused"}, expires : Expiry \cup {None}]
  /\ sock \in [Provider -> SockRow]
  /\ conn \in [Provider -> ConnRow]
  /\ down \in [Provider -> Seq(Packets)] /\ \A p \in Provider : Len(down[p]) <= 3
  /\ waiting \subseteq Provider

\* A deactivated or demoted user is out of the role's room within one token
\* lifetime of the change, whenever and however often the socket reconnected.
StaleRoomBounded ==
  \A p \in Provider : (Joined(p) /\ conn[p].role # standing) => now <= left[conn[p].role] + TTL

\* A refresh that is answered after sign-out never brings the socket of an
\* unmounted provider back: nothing dials or is connected behind the login page.
NoGhostSocket ==
  \A p \in Provider : ~ Mounted(p) => sock[p].link = "closed" /\ conn[p] = NoConn

\* The live indicator comes back: whatever broke the connection, the socket is
\* live again or the user is signed out, unless the server has rejected two
\* handshakes in a row, or the refresh was done before the disconnect arrived.
ComesBack ==
  \A p \in Provider :
    Mounted(p) ~> \/ ~ Mounted(p) \/ sock[p].link = "live"
                  \/ sock[p].strikes = 2 \/ sock[p].missed
=============================================================================

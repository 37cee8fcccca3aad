--------------------------- MODULE RealtimeProofs ---------------------------
(***************************************************************************)
(* Proofs about Realtime, for every set of roles, token lifetime and bound.  *)
(***************************************************************************)
EXTENDS Realtime, SequenceTheorems, TLAPS

\* The stations of a socket: its link, the server's end and the packets under
\* way always fit together.
Wire(l, c, d) ==
  \/ l \in {"closed", "dialling"} /\ c = NoConn /\ d = <<>>
  \/ l = "open" /\ c.phase \in {"verifying", "loading", "admitted"} /\ d = <<>>
  \/ l = "open" /\ c = NoConn /\ d = <<"rejected">>
  \/ l = "open" /\ c.phase = "joined" /\ d = <<"connected">>
  \/ l = "open" /\ c = NoConn /\ d = <<"connected", "session_expired", "disconnect">>
  \/ l = "live" /\ c.phase = "joined" /\ d = <<>>
  \/ l = "live" /\ c = NoConn /\ d = <<"session_expired", "disconnect">>
  \/ l = "live" /\ c = NoConn /\ d = <<"disconnect">>

WireOK == \A p \in Provider : Wire(sock[p].link, conn[p], down[p])

Shut == \A p \in Provider : ~ Mounted(p) => sock[p].link = "closed"

\* No token outlives the moment by more than its lifetime, no handshake takes more
\* than a unit, and no connection that was let in outlives its token.
Timely(c) ==
  /\ c.expires <= now + TTL
  /\ c.phase \in {"verifying", "loading", "admitted"} => c.since <= now /\ now <= c.since + 1
  /\ c.phase \in {"loading", "admitted"} => c.since < c.expires
  /\ c.phase = "joined" => now <= c.expires

TimesOK ==
  /\ token <= now + TTL /\ flight.expires <= now + TTL
  /\ \A p \in Provider : Timely(conn[p])

\* Who was let in with a role the account has lost since then, holds a token
\* that was issued before the loss.
Stale(c) ==
  (c.phase \in {"admitted", "joined"} /\ c.role # standing) => c.expires <= left[c.role] + TTL

StaleOK == \A p \in Provider : Stale(conn[p])

IInv == TypeOK /\ WireOK /\ Shut /\ TimesOK /\ StaleOK

-----------------------------------------------------------------------------
\* The invariant holds at first.
LEMMA InitIInv == Init => IInv
<1> SUFFICES ASSUME Init PROVE IInv
  OBVIOUS
<1> USE TimesAssumption, RoleAssumption
<1>1. TypeOK
  BY DEF Init, TypeOK, Expiry, None, NoFlight, SockRow, ConnRow, NoConn, Provider
<1>2. WireOK /\ Shut
  BY DEF Init, WireOK, Wire, Shut
<1>3. TimesOK /\ StaleOK
  BY DEF Init, TimesOK, Timely, StaleOK, Stale, NoConn, NoFlight, None
<1> QED
  BY <1>1, <1>2, <1>3 DEF IInv

-----------------------------------------------------------------------------
(* Most actions touch one provider, and leave the clock and the account alone. *)

AtOne(p, s, c, d) ==
  /\ sock' = [sock EXCEPT ![p] = s]
  /\ conn' = [conn EXCEPT ![p] = c]
  /\ down' = [down EXCEPT ![p] = d]

Sound(s, c, d) ==
  /\ s \in SockRow /\ c \in ConnRow /\ d \in Seq(Packets) /\ Len(d) <= 3
  /\ Wire(s.link, c, d)
  /\ s.stage # "mounted" => s.link = "closed"
  /\ Timely(c) /\ Stale(c)

SoundStore ==
  /\ token \in Expiry \cup {None} /\ token <= now + TTL
  /\ flight \in [phase : {"none", "sent", "granted", "refused"}, expires : Expiry \cup {None}]
  /\ flight.expires <= now + TTL
  /\ waiting \subseteq Provider

\* The invariant, as facts about one provider.
LEMMA IInvAt ==
  ASSUME IInv, NEW p \in Provider
  PROVE  Sound(sock[p], conn[p], down[p])
<1> QED
  BY DEF IInv, TypeOK, WireOK, Shut, TimesOK, StaleOK, Sound, Mounted

\* What it says of the clock, the account and the tokens.
LEMMA IInvStore ==
  ASSUME IInv
  PROVE  SoundStore
<1> QED
  BY DEF IInv, TypeOK, TimesOK, SoundStore

\* A step at one provider keeps the invariant if what it leaves there is sound.
LEMMA StepAtOne ==
  ASSUME IInv, UNCHANGED <<now, account>>, SoundStore',
         NEW p \in Provider, NEW s, NEW c, NEW d,
         AtOne(p, s, c, d), Sound(s, c, d)
  PROVE  IInv'
<1>1. now' = now /\ standing' = standing /\ left' = left
  BY DEF account
<1>2. /\ sock' \in [Provider -> SockRow] /\ conn' \in [Provider -> ConnRow]
      /\ down' \in [Provider -> Seq(Packets)]
      /\ sock'[p] = s /\ conn'[p] = c /\ down'[p] = d
      /\ \A q \in Provider : q # p => sock'[q] = sock[q] /\ conn'[q] = conn[q] /\ down'[q] = down[q]
  BY DEF IInv, TypeOK, AtOne, Sound
<1>3. ASSUME NEW q \in Provider
      PROVE  /\ Len(down'[q]) <= 3
             /\ Wire(sock'[q].link, conn'[q], down'[q])
             /\ sock'[q].stage # "mounted" => sock'[q].link = "closed"
             /\ Timely(conn[q])' /\ Stale(conn[q])'
  <2>1. CASE q = p
    BY <2>1, <1>1, <1>2 DEF Sound, Timely, Stale
  <2>2. CASE q # p
    <3>1. Sound(sock[q], conn[q], down[q])
      BY IInvAt
    <3> QED
      BY <2>2, <3>1, <1>1, <1>2 DEF Sound, Timely, Stale
  <2> QED
    BY <2>1, <2>2
<1>4. TypeOK'
  BY <1>1, <1>2, <1>3 DEF IInv, TypeOK, SoundStore
<1>5. WireOK' /\ Shut' /\ TimesOK' /\ StaleOK'
  BY <1>3 DEF WireOK, Shut, TimesOK, StaleOK, SoundStore, Mounted
<1> QED
  BY <1>4, <1>5 DEF IInv

\* Packets under way are one of a few sequences.
LEMMA WirePackets ==
  ASSUME NEW l, NEW c, NEW d, Wire(l, c, d)
  PROVE  d \in Seq(Packets) /\ Len(d) <= 3
<1>1. CASE d = <<>>
  BY <1>1
<1>2. CASE \E m \in Packets : d = <<m>>
  BY <1>2
<1>3. CASE d = <<"session_expired", "disconnect">>
  BY <1>3 DEF Packets
<1>4. CASE d = <<"connected", "session_expired", "disconnect">>
  BY <1>4 DEF Packets
<1> QED
  BY <1>1, <1>2, <1>3, <1>4 DEF Wire, Packets

\* A packet sent behind one or two others.
LEMMA AppendTwo ==
  ASSUME NEW S, NEW a \in S, NEW b \in S
  PROVE  Append(<<a>>, b) = <<a, b>>
<1>1. <<a>> \in Seq(S) /\ <<a, b>> \in Seq(S) /\ Len(<<a>>) = 1 /\ Len(<<a, b>>) = 2
  OBVIOUS
<1>2. /\ Append(<<a>>, b) \in Seq(S) /\ Len(Append(<<a>>, b)) = 2
      /\ Append(<<a>>, b)[1] = a /\ Append(<<a>>, b)[2] = b
  BY <1>1, AppendProperties
<1>3. ASSUME NEW i \in 1..2 PROVE Append(<<a>>, b)[i] = <<a, b>>[i]
  <2>1. i = 1 \/ i = 2
    OBVIOUS
  <2> QED
    BY <1>2, <2>1
<1> QED
  BY <1>1, <1>2, <1>3, SeqEqual

\* The same, one longer.
LEMMA AppendThree ==
  ASSUME NEW S, NEW a \in S, NEW b \in S, NEW c \in S
  PROVE  Append(<<a, b>>, c) = <<a, b, c>>
<1>1. /\ <<a, b>> \in Seq(S) /\ <<a, b, c>> \in Seq(S)
      /\ Len(<<a, b>>) = 2 /\ Len(<<a, b, c>>) = 3
  OBVIOUS
<1>2. /\ Append(<<a, b>>, c) \in Seq(S) /\ Len(Append(<<a, b>>, c)) = 3
      /\ Append(<<a, b>>, c)[1] = a /\ Append(<<a, b>>, c)[2] = b /\ Append(<<a, b>>, c)[3] = c
  BY <1>1, AppendProperties
<1>3. ASSUME NEW i \in 1..3 PROVE Append(<<a, b>>, c)[i] = <<a, b, c>>[i]
  <2>1. i = 1 \/ i = 2 \/ i = 3
    OBVIOUS
  <2> QED
    BY <1>2, <2>1
<1> QED
  BY <1>1, <1>2, <1>3, SeqEqual

\* What is sent or heard in each of the stations.
LEMMA Deliveries ==
  /\ Append(<<>>, "rejected") = <<"rejected">>
  /\ Append(<<>>, "connected") = <<"connected">>
  /\ Append(Append(<<>>, "session_expired"), "disconnect") = <<"session_expired", "disconnect">>
  /\ Append(Append(<<"connected">>, "session_expired"), "disconnect")
       = <<"connected", "session_expired", "disconnect">>
  /\ Tail(<<"rejected">>) = <<>> /\ Tail(<<"connected">>) = <<>> /\ Tail(<<"disconnect">>) = <<>>
  /\ Tail(<<"connected", "session_expired", "disconnect">>) = <<"session_expired", "disconnect">>
  /\ Tail(<<"session_expired", "disconnect">>) = <<"disconnect">>
<1>1. Append(<<>>, "rejected") = <<"rejected">> /\ Append(<<>>, "connected") = <<"connected">>
  OBVIOUS
<1>2. Append(Append(<<>>, "session_expired"), "disconnect") = <<"session_expired", "disconnect">>
  <2>1. Append(<<>>, "session_expired") = <<"session_expired">>
    OBVIOUS
  <2>2. "session_expired" \in Packets /\ "disconnect" \in Packets
    BY DEF Packets
  <2>3. Append(<<"session_expired">>, "disconnect") = <<"session_expired", "disconnect">>
    BY <2>2, AppendTwo
  <2> QED
    BY <2>1, <2>3
<1>3. Append(Append(<<"connected">>, "session_expired"), "disconnect")
        = <<"connected", "session_expired", "disconnect">>
  <2>1. "connected" \in Packets /\ "session_expired" \in Packets /\ "disconnect" \in Packets
    BY DEF Packets
  <2>2. Append(<<"connected">>, "session_expired") = <<"connected", "session_expired">>
    BY <2>1, AppendTwo
  <2>3. Append(<<"connected", "session_expired">>, "disconnect")
          = <<"connected", "session_expired", "disconnect">>
    BY <2>1, AppendThree
  <2> QED
    BY <2>2, <2>3
<1>4. Tail(<<"rejected">>) = <<>> /\ Tail(<<"connected">>) = <<>> /\ Tail(<<"disconnect">>) = <<>>
  OBVIOUS
<1>5. Tail(<<"connected", "session_expired", "disconnect">>) = <<"session_expired", "disconnect">>
  OBVIOUS
<1>6. Tail(<<"session_expired", "disconnect">>) = <<"disconnect">>
  OBVIOUS
<1> QED
  BY <1>1, <1>2, <1>3, <1>4, <1>5, <1>6

\* What the client notes when it hears about its handshake.
LEMMA Heard ==
  ASSUME NEW s \in SockRow, NEW n \in 0..2
  PROVE  /\ [s EXCEPT !.link = "live", !.reauthAttempted = FALSE, !.missed = FALSE, !.strikes = n]
              \in SockRow
         /\ [s EXCEPT !.link = "closed", !.reauthAttempted = TRUE, !.strikes = n] \in SockRow
<1> QED
  BY DEF SockRow

\* Where a socket is, told by the server's end or by the next packet.
LEMMA Stations ==
  ASSUME NEW l, NEW c, NEW d, Wire(l, c, d)
  PROVE  /\ c.phase \in {"verifying", "loading", "admitted"} => l = "open" /\ d = <<>>
         /\ c.phase = "joined" => \/ l = "open" /\ d = <<"connected">>
                                  \/ l = "live" /\ d = <<>>
         /\ d # <<>> /\ Head(d) = "rejected" => l = "open" /\ c = NoConn /\ d = <<"rejected">>
         /\ d # <<>> /\ Head(d) = "connected" =>
              \/ l = "open" /\ c.phase = "joined" /\ d = <<"connected">>
              \/ l = "open" /\ c = NoConn /\ d = <<"connected", "session_expired", "disconnect">>
         /\ d # <<>> /\ Head(d) = "session_expired" =>
              l = "live" /\ c = NoConn /\ d = <<"session_expired", "disconnect">>
         /\ d # <<>> /\ Head(d) = "disconnect" => l = "live" /\ c = NoConn /\ d = <<"disconnect">>
<1>1. CASE d = <<>>
  BY <1>1 DEF Wire, NoConn
<1>2. CASE d = <<"rejected">>
  BY <1>2 DEF Wire, NoConn
<1>3. CASE d = <<"connected">>
  BY <1>3 DEF Wire, NoConn
<1>4. CASE d = <<"connected", "session_expired", "disconnect">>
  BY <1>4 DEF Wire, NoConn
<1>5. CASE d = <<"session_expired", "disconnect">>
  BY <1>5 DEF Wire, NoConn
<1>6. CASE d = <<"disconnect">>
  BY <1>6 DEF Wire, NoConn
<1> QED
  BY <1>1, <1>2, <1>3, <1>4, <1>5, <1>6 DEF Wire

\* An absent connection is always sound.
LEMMA NoConnSound ==
  ASSUME IInv
  PROVE  NoConn \in ConnRow /\ Timely(NoConn) /\ Stale(NoConn)
<1> QED
  BY TimesAssumption DEF IInv, TypeOK, NoConn, ConnRow, None, Timely, Stale

\* The token is verified.
LEMMA CheckTokenStep ==
  ASSUME IInv, NEW p \in Provider, CheckToken(p)
  PROVE  IInv'
<1> DEFINE s == sock[p]
           c == IF conn[p].expires > now THEN [conn[p] EXCEPT !.phase = "loading"] ELSE NoConn
           d == IF conn[p].expires > now THEN down[p] ELSE Append(down[p], "rejected")
<1>1. Sound(sock[p], conn[p], down[p]) /\ SoundStore
  BY IInvAt, IInvStore
<1>2. AtOne(p, s, c, d)
  BY DEF CheckToken, AtOne, IInv, TypeOK, Reject, client
<1>3. Sound(s, c, d)
  <2>1. s \in SockRow /\ c \in ConnRow
    BY <1>1, NoConnSound DEF CheckToken, Sound, SockRow, ConnRow, SoundStore, IInv, TypeOK, Verifying
  <2>2. /\ Wire(s.link, c, d)
        /\ s.stage # "mounted" => s.link = "closed"
    <3>1. Wire(sock[p].link, conn[p], down[p])
      BY <1>1 DEF Sound
    <3> HIDE DEF d
    <3>2. sock[p].link = "open" /\ down[p] = <<>>
      BY <3>1, Stations DEF CheckToken, Verifying
    <3>3. d = IF conn[p].expires > now THEN <<>> ELSE <<"rejected">>
      BY <3>2, Deliveries DEF d
    <3> QED
      BY <1>1, <3>1, <3>2, <3>3 DEF CheckToken, Sound, Wire, SockRow, ConnRow, NoConn, Mounted, Verifying
  <2>3. d \in Seq(Packets) /\ Len(d) <= 3
    BY <2>2, WirePackets
  <2>4. Timely(c) /\ Stale(c)
    BY <1>1, NoConnSound, TimesAssumption
    DEF CheckToken, Sound, Wire, Timely, Stale, SoundStore, IInv, TypeOK, ConnRow, NoConn, None, Expiry, Verifying
  <2> QED
    BY <2>1, <2>2, <2>3, <2>4 DEF Sound
<1>4. UNCHANGED <<now, account>> /\ SoundStore'
  BY <1>1 DEF CheckToken, SoundStore, client, account
<1> QED
  BY <1>2, <1>3, <1>4, StepAtOne

\* The account is read.
LEMMA LoadUserStep ==
  ASSUME IInv, NEW p \in Provider, LoadUser(p)
  PROVE  IInv'
<1> DEFINE s == sock[p]
           c == IF standing # "none" THEN [conn[p] EXCEPT !.phase = "admitted", !.role = standing] ELSE NoConn
           d == IF standing # "none" THEN down[p] ELSE Append(down[p], "rejected")
<1>1. Sound(sock[p], conn[p], down[p]) /\ SoundStore
  BY IInvAt, IInvStore
<1>2. AtOne(p, s, c, d)
  BY DEF LoadUser, AtOne, IInv, TypeOK, Reject, client
<1>3. Sound(s, c, d)
  <2>1. s \in SockRow /\ c \in ConnRow
    BY <1>1, NoConnSound DEF LoadUser, Sound, SockRow, ConnRow, SoundStore, IInv, TypeOK, IInv, TypeOK
  <2>2. /\ Wire(s.link, c, d)
        /\ s.stage # "mounted" => s.link = "closed"
    <3>1. Wire(sock[p].link, conn[p], down[p])
      BY <1>1 DEF Sound
    <3> HIDE DEF d
    <3>2. sock[p].link = "open" /\ down[p] = <<>>
      BY <3>1, Stations DEF LoadUser, IInv, TypeOK
    <3>3. d = IF standing # "none" THEN <<>> ELSE <<"rejected">>
      BY <3>2, Deliveries DEF d
    <3> QED
      BY <1>1, <3>1, <3>2, <3>3 DEF LoadUser, Sound, Wire, SockRow, ConnRow, NoConn, Mounted, IInv, TypeOK
  <2>3. d \in Seq(Packets) /\ Len(d) <= 3
    BY <2>2, WirePackets
  <2>4. Timely(c) /\ Stale(c)
    BY <1>1, NoConnSound, TimesAssumption
    DEF LoadUser, Sound, Wire, Timely, Stale, SoundStore, IInv, TypeOK, ConnRow, NoConn, None, Expiry, IInv, TypeOK
  <2> QED
    BY <2>1, <2>2, <2>3, <2>4 DEF Sound
<1>4. UNCHANGED <<now, account>> /\ SoundStore'
  BY <1>1 DEF LoadUser, SoundStore, client, account
<1> QED
  BY <1>2, <1>3, <1>4, StepAtOne

\* The account cannot be read.
LEMMA LoadFailsStep ==
  ASSUME IInv, NEW p \in Provider, LoadFails(p)
  PROVE  IInv'
<1> DEFINE s == sock[p]
           c == NoConn
           d == Append(down[p], "rejected")
<1>1. Sound(sock[p], conn[p], down[p]) /\ SoundStore
  BY IInvAt, IInvStore
<1>2. AtOne(p, s, c, d)
  BY DEF LoadFails, AtOne, IInv, TypeOK, Reject, client
<1>3. Sound(s, c, d)
  <2>1. s \in SockRow /\ c \in ConnRow
    BY <1>1, NoConnSound DEF LoadFails, Sound, SockRow, ConnRow, SoundStore, IInv, TypeOK
  <2>2. /\ Wire(s.link, c, d)
        /\ s.stage # "mounted" => s.link = "closed"
    <3>1. Wire(sock[p].link, conn[p], down[p])
      BY <1>1 DEF Sound
    <3> HIDE DEF d
    <3>2. sock[p].link = "open" /\ down[p] = <<>>
      BY <3>1, Stations DEF LoadFails
    <3>3. d = <<"rejected">>
      BY <3>2, Deliveries DEF d
    <3> QED
      BY <1>1, <3>1, <3>2, <3>3 DEF LoadFails, Sound, Wire, SockRow, ConnRow, NoConn, Mounted
  <2>3. d \in Seq(Packets) /\ Len(d) <= 3
    BY <2>2, WirePackets
  <2>4. Timely(c) /\ Stale(c)
    BY <1>1, NoConnSound, TimesAssumption
    DEF LoadFails, Sound, Wire, Timely, Stale, SoundStore, IInv, TypeOK, ConnRow, NoConn, None, Expiry
  <2> QED
    BY <2>1, <2>2, <2>3, <2>4 DEF Sound
<1>4. UNCHANGED <<now, account>> /\ SoundStore'
  BY <1>1 DEF LoadFails, SoundStore, client, account
<1> QED
  BY <1>2, <1>3, <1>4, StepAtOne

\* The socket joins its rooms.
LEMMA JoinStep ==
  ASSUME IInv, NEW p \in Provider, Join(p)
  PROVE  IInv'
<1> DEFINE s == sock[p]
           c == [conn[p] EXCEPT !.phase = "joined"]
           d == Append(down[p], "connected")
<1>1. Sound(sock[p], conn[p], down[p]) /\ SoundStore
  BY IInvAt, IInvStore
<1>2. AtOne(p, s, c, d)
  BY DEF Join, AtOne, IInv, TypeOK, client
<1>3. Sound(s, c, d)
  <2>1. s \in SockRow /\ c \in ConnRow
    BY <1>1, NoConnSound DEF Join, Sound, SockRow, ConnRow, SoundStore, IInv, TypeOK
  <2>2. /\ Wire(s.link, c, d)
        /\ s.stage # "mounted" => s.link = "closed"
    <3>1. Wire(sock[p].link, conn[p], down[p])
      BY <1>1 DEF Sound
    <3> HIDE DEF d
    <3>2. sock[p].link = "open" /\ down[p] = <<>>
      BY <3>1, Stations DEF Join
    <3>3. d = <<"connected">>
      BY <3>2, Deliveries DEF d
    <3> QED
      BY <1>1, <3>1, <3>2, <3>3 DEF Join, Sound, Wire, SockRow, ConnRow, NoConn, Mounted
  <2>3. d \in Seq(Packets) /\ Len(d) <= 3
    BY <2>2, WirePackets
  <2>4. Timely(c) /\ Stale(c)
    BY <1>1, NoConnSound, TimesAssumption
    DEF Join, Sound, Wire, Timely, Stale, SoundStore, IInv, TypeOK, ConnRow, NoConn, None, Expiry
  <2> QED
    BY <2>1, <2>2, <2>3, <2>4 DEF Sound
<1>4. UNCHANGED <<now, account>> /\ SoundStore'
  BY <1>1 DEF Join, SoundStore, client, account
<1> QED
  BY <1>2, <1>3, <1>4, StepAtOne

\* The token of a connection expires.
LEMMA ExpireStep ==
  ASSUME IInv, NEW p \in Provider, Expire(p)
  PROVE  IInv'
<1> DEFINE s == sock[p]
           c == NoConn
           d == Append(Append(down[p], "session_expired"), "disconnect")
<1>1. Sound(sock[p], conn[p], down[p]) /\ SoundStore
  BY IInvAt, IInvStore
<1>2. AtOne(p, s, c, d)
  BY DEF Expire, AtOne, IInv, TypeOK, client
<1>3. Sound(s, c, d)
  <2>1. s \in SockRow /\ c \in ConnRow
    BY <1>1, NoConnSound DEF Expire, Sound, SockRow, ConnRow, SoundStore, IInv, TypeOK, Joined
  <2>2. /\ Wire(s.link, c, d)
        /\ s.stage # "mounted" => s.link = "closed"
    <3>1. Wire(sock[p].link, conn[p], down[p])
      BY <1>1 DEF Sound
    <3> HIDE DEF d
    <3>2. \/ sock[p].link = "open" /\ down[p] = <<"connected">>
          \/ sock[p].link = "live" /\ down[p] = <<>>
      BY <3>1, Stations DEF Expire, Joined
    <3>3. \/ sock[p].link = "open" /\ d = <<"connected", "session_expired", "disconnect">>
          \/ sock[p].link = "live" /\ d = <<"session_expired", "disconnect">>
      BY <3>2, Deliveries DEF d
    <3> QED
      BY <1>1, <3>1, <3>2, <3>3 DEF Expire, Sound, Wire, SockRow, ConnRow, NoConn, Mounted, Joined
  <2>3. d \in Seq(Packets) /\ Len(d) <= 3
    BY <2>2, WirePackets
  <2>4. Timely(c) /\ Stale(c)
    BY <1>1, NoConnSound, TimesAssumption
    DEF Expire, Sound, Wire, Timely, Stale, SoundStore, IInv, TypeOK, ConnRow, NoConn, None, Expiry, Joined
  <2> QED
    BY <2>1, <2>2, <2>3, <2>4 DEF Sound
<1>4. UNCHANGED <<now, account>> /\ SoundStore'
  BY <1>1 DEF Expire, SoundStore, client, account
<1> QED
  BY <1>2, <1>3, <1>4, StepAtOne

\* A provider is mounted.
LEMMA MountStep ==
  ASSUME IInv, NEW p \in Provider, Mount(p)
  PROVE  IInv'
<1> DEFINE s == [sock[p] EXCEPT !.stage = "mounted", !.link = "dialling"]
           c == conn[p]
           d == down[p]
<1>1. Sound(sock[p], conn[p], down[p]) /\ SoundStore
  BY IInvAt, IInvStore
<1>2. AtOne(p, s, c, d)
  BY DEF Mount, AtOne, IInv, TypeOK, server
<1>3. Sound(s, c, d)
  <2>1. s \in SockRow /\ c \in ConnRow
    BY <1>1, NoConnSound DEF Mount, Sound, SockRow, ConnRow, SoundStore, IInv, TypeOK
  <2>2. /\ Wire(s.link, c, d)
        /\ s.stage # "mounted" => s.link = "closed"
    BY <1>1 DEF Mount, Sound, Wire, SockRow, ConnRow, NoConn, Mounted
  <2>3. d \in Seq(Packets) /\ Len(d) <= 3
    BY <2>2, WirePackets
  <2>4. Timely(c) /\ Stale(c)
    BY <1>1, NoConnSound, TimesAssumption
    DEF Mount, Sound, Wire, Timely, Stale, SoundStore, IInv, TypeOK, ConnRow, NoConn, None, Expiry
  <2> QED
    BY <2>1, <2>2, <2>3, <2>4 DEF Sound
<1>4. UNCHANGED <<now, account>> /\ SoundStore'
  BY <1>1 DEF Mount, SoundStore, account
<1> QED
  BY <1>2, <1>3, <1>4, StepAtOne

\* A provider is unmounted.
LEMMA UnmountStep ==
  ASSUME IInv, NEW p \in Provider, Unmount(p)
  PROVE  IInv'
<1> DEFINE s == [sock[p] EXCEPT !.stage = "gone", !.link = "closed"]
           c == NoConn
           d == <<>>
<1>1. Sound(sock[p], conn[p], down[p]) /\ SoundStore
  BY IInvAt, IInvStore
<1>2. AtOne(p, s, c, d)
  BY DEF Unmount, AtOne, IInv, TypeOK
<1>3. Sound(s, c, d)
  <2>1. s \in SockRow /\ c \in ConnRow
    BY <1>1, NoConnSound DEF Unmount, Sound, SockRow, ConnRow, SoundStore, IInv, TypeOK
  <2>2. /\ Wire(s.link, c, d)
        /\ s.stage # "mounted" => s.link = "closed"
    BY <1>1 DEF Unmount, Sound, Wire, SockRow, ConnRow, NoConn, Mounted
  <2>3. d \in Seq(Packets) /\ Len(d) <= 3
    BY <2>2, WirePackets
  <2>4. Timely(c) /\ Stale(c)
    BY <1>1, NoConnSound, TimesAssumption
    DEF Unmount, Sound, Wire, Timely, Stale, SoundStore, IInv, TypeOK, ConnRow, NoConn, None, Expiry
  <2> QED
    BY <2>1, <2>2, <2>3, <2>4 DEF Sound
<1>4. UNCHANGED <<now, account>> /\ SoundStore'
  BY <1>1 DEF Unmount, SoundStore, account
<1> QED
  BY <1>2, <1>3, <1>4, StepAtOne

\* A socket opens its transport.
LEMMA DialStep ==
  ASSUME IInv, NEW p \in Provider, Dial(p)
  PROVE  IInv'
<1> DEFINE s == [sock[p] EXCEPT !.link = "open"]
           c == [NoConn EXCEPT !.phase = "verifying", !.expires = token, !.since = now]
           d == down[p]
<1>1. Sound(sock[p], conn[p], down[p]) /\ SoundStore
  BY IInvAt, IInvStore
<1>2. AtOne(p, s, c, d)
  BY DEF Dial, AtOne, IInv, TypeOK
<1>3. Sound(s, c, d)
  <2>1. s \in SockRow /\ c \in ConnRow
    BY <1>1, NoConnSound DEF Dial, Sound, SockRow, ConnRow, SoundStore, IInv, TypeOK, SoundStore, IInv, TypeOK
  <2>2. /\ Wire(s.link, c, d)
        /\ s.stage # "mounted" => s.link = "closed"
    BY <1>1 DEF Dial, Sound, Wire, SockRow, ConnRow, NoConn, Mounted, SoundStore, IInv, TypeOK
  <2>3. d \in Seq(Packets) /\ Len(d) <= 3
    BY <2>2, WirePackets
  <2>4. Timely(c) /\ Stale(c)
    BY <1>1, NoConnSound, TimesAssumption
    DEF Dial, Sound, Wire, Timely, Stale, SoundStore, IInv, TypeOK, ConnRow, NoConn, None, Expiry, SoundStore, IInv, TypeOK
  <2> QED
    BY <2>1, <2>2, <2>3, <2>4 DEF Sound
<1>4. UNCHANGED <<now, account>> /\ SoundStore'
  BY <1>1 DEF Dial, SoundStore, account
<1> QED
  BY <1>2, <1>3, <1>4, StepAtOne

\* A link breaks.
LEMMA CutStep ==
  ASSUME IInv, NEW p \in Provider, Cut(p)
  PROVE  IInv'
<1> DEFINE s == [sock[p] EXCEPT !.link = "dialling"]
           c == NoConn
           d == <<>>
<1>1. Sound(sock[p], conn[p], down[p]) /\ SoundStore
  BY IInvAt, IInvStore
<1>2. AtOne(p, s, c, d)
  BY DEF Cut, AtOne, IInv, TypeOK
<1>3. Sound(s, c, d)
  <2>1. s \in SockRow /\ c \in ConnRow
    BY <1>1, NoConnSound DEF Cut, Sound, SockRow, ConnRow, SoundStore, IInv, TypeOK
  <2>2. /\ Wire(s.link, c, d)
        /\ s.stage # "mounted" => s.link = "closed"
    BY <1>1 DEF Cut, Sound, Wire, SockRow, ConnRow, NoConn, Mounted
  <2>3. d \in Seq(Packets) /\ Len(d) <= 3
    BY <2>2, WirePackets
  <2>4. Timely(c) /\ Stale(c)
    BY <1>1, NoConnSound, TimesAssumption
    DEF Cut, Sound, Wire, Timely, Stale, SoundStore, IInv, TypeOK, ConnRow, NoConn, None, Expiry
  <2> QED
    BY <2>1, <2>2, <2>3, <2>4 DEF Sound
<1>4. UNCHANGED <<now, account>> /\ SoundStore'
  BY <1>1 DEF Cut, SoundStore, account
<1> QED
  BY <1>2, <1>3, <1>4, StepAtOne

\* The client hears that it is connected.
LEMMA HearConnectStep ==
  ASSUME IInv, NEW p \in Provider, HearConnect(p)
  PROVE  IInv'
<1> DEFINE s == [sock[p] EXCEPT !.link = "live", !.reauthAttempted = FALSE, !.missed = FALSE, !.strikes = 0]
           c == conn[p]
           d == Tail(down[p])
<1>1. Sound(sock[p], conn[p], down[p]) /\ SoundStore
  BY IInvAt, IInvStore
<1>2. AtOne(p, s, c, d)
  BY DEF HearConnect, AtOne, IInv, TypeOK, Packet
<1>3. Sound(s, c, d)
  <2>1. s \in SockRow /\ c \in ConnRow
    <3> DEFINE n == 0
    <3>1. sock[p] \in SockRow /\ conn[p] \in ConnRow
      BY <1>1 DEF Sound
    <3>2. n \in 0..2
      BY <3>1 DEF SockRow
    <3>3. s \in SockRow
      BY <3>1, <3>2, Heard
    <3> QED
      BY <3>1, <3>3
  <2>2. /\ Wire(s.link, c, d)
        /\ s.stage # "mounted" => s.link = "closed"
    <3>1. Wire(sock[p].link, conn[p], down[p])
      BY <1>1 DEF Sound
    <3> HIDE DEF d
    <3>2. /\ sock[p].link = "open"
          /\ \/ conn[p].phase = "joined" /\ down[p] = <<"connected">>
             \/ conn[p] = NoConn /\ down[p] = <<"connected", "session_expired", "disconnect">>
      BY <3>1, Stations DEF HearConnect, Packet
    <3>3. \/ conn[p].phase = "joined" /\ d = <<>>
          \/ conn[p] = NoConn /\ d = <<"session_expired", "disconnect">>
      BY <3>2, Deliveries DEF d
    <3> QED
      BY <1>1, <3>1, <3>2, <3>3 DEF HearConnect, Sound, Wire, SockRow, ConnRow, NoConn, Mounted, Packet
  <2>3. d \in Seq(Packets) /\ Len(d) <= 3
    BY <2>2, WirePackets
  <2>4. Timely(c) /\ Stale(c)
    BY <1>1, NoConnSound, TimesAssumption
    DEF HearConnect, Sound, Wire, Timely, Stale, SoundStore, IInv, TypeOK, ConnRow, NoConn, None, Expiry, Packet
  <2> QED
    BY <2>1, <2>2, <2>3, <2>4 DEF Sound
<1>4. UNCHANGED <<now, account>> /\ SoundStore'
  BY <1>1 DEF HearConnect, SoundStore, account
<1> QED
  BY <1>2, <1>3, <1>4, StepAtOne

\* The client hears that it was rejected.
LEMMA HearRejectionStep ==
  ASSUME IInv, NEW p \in Provider, HearRejection(p)
  PROVE  IInv'
<1> DEFINE s == [sock[p] EXCEPT !.link = "closed", !.reauthAttempted = TRUE,
                              !.strikes = IF @ < 2 THEN @ + 1 ELSE @]
           c == conn[p]
           d == Tail(down[p])
<1>1. Sound(sock[p], conn[p], down[p]) /\ SoundStore
  BY IInvAt, IInvStore
<1>2. AtOne(p, s, c, d)
  BY DEF HearRejection, AtOne, IInv, TypeOK, Packet
<1>3. Sound(s, c, d)
  <2>1. s \in SockRow /\ c \in ConnRow
    <3> DEFINE n == IF sock[p].strikes < 2 THEN sock[p].strikes + 1 ELSE sock[p].strikes
    <3>1. sock[p] \in SockRow /\ conn[p] \in ConnRow
      BY <1>1 DEF Sound
    <3>2. n \in 0..2
      BY <3>1 DEF SockRow
    <3>3. s \in SockRow
      BY <3>1, <3>2, Heard
    <3> QED
      BY <3>1, <3>3
  <2>2. /\ Wire(s.link, c, d)
        /\ s.stage # "mounted" => s.link = "closed"
    <3>1. Wire(sock[p].link, conn[p], down[p])
      BY <1>1 DEF Sound
    <3> HIDE DEF d
    <3>2. conn[p] = NoConn /\ sock[p].link = "open" /\ down[p] = <<"rejected">>
      BY <3>1, Stations DEF HearRejection, Packet
    <3>3. d = <<>>
      BY <3>2, Deliveries DEF d
    <3> QED
      BY <1>1, <3>1, <3>2, <3>3 DEF HearRejection, Sound, Wire, SockRow, ConnRow, NoConn, Mounted, Packet
  <2>3. d \in Seq(Packets) /\ Len(d) <= 3
    BY <2>2, WirePackets
  <2>4. Timely(c) /\ Stale(c)
    BY <1>1, NoConnSound, TimesAssumption
    DEF HearRejection, Sound, Wire, Timely, Stale, SoundStore, IInv, TypeOK, ConnRow, NoConn, None, Expiry, Packet
  <2> QED
    BY <2>1, <2>2, <2>3, <2>4 DEF Sound
<1>4. UNCHANGED <<now, account>> /\ SoundStore'
  BY <1>1 DEF HearRejection, SoundStore, account, Reauthenticate, StartRefresh, NoFlight
<1> QED
  BY <1>2, <1>3, <1>4, StepAtOne

\* The client hears that its session has expired.
LEMMA HearExpiredStep ==
  ASSUME IInv, NEW p \in Provider, HearExpired(p)
  PROVE  IInv'
<1> DEFINE s == sock[p]
           c == conn[p]
           d == Tail(down[p])
<1>1. Sound(sock[p], conn[p], down[p]) /\ SoundStore
  BY IInvAt, IInvStore
<1>2. AtOne(p, s, c, d)
  BY DEF HearExpired, AtOne, IInv, TypeOK, Packet
<1>3. Sound(s, c, d)
  <2>1. s \in SockRow /\ c \in ConnRow
    BY <1>1, NoConnSound DEF HearExpired, Sound, SockRow, ConnRow, SoundStore, IInv, TypeOK, Packet
  <2>2. /\ Wire(s.link, c, d)
        /\ s.stage # "mounted" => s.link = "closed"
    <3>1. Wire(sock[p].link, conn[p], down[p])
      BY <1>1 DEF Sound
    <3> HIDE DEF d
    <3>2. conn[p] = NoConn /\ sock[p].link = "live" /\ down[p] = <<"session_expired", "disconnect">>
      BY <3>1, Stations DEF HearExpired, Packet
    <3>3. d = <<"disconnect">>
      BY <3>2, Deliveries DEF d
    <3> QED
      BY <1>1, <3>1, <3>2, <3>3 DEF HearExpired, Sound, Wire, SockRow, ConnRow, NoConn, Mounted, Packet
  <2>3. d \in Seq(Packets) /\ Len(d) <= 3
    BY <2>2, WirePackets
  <2>4. Timely(c) /\ Stale(c)
    BY <1>1, NoConnSound, TimesAssumption
    DEF HearExpired, Sound, Wire, Timely, Stale, SoundStore, IInv, TypeOK, ConnRow, NoConn, None, Expiry, Packet
  <2> QED
    BY <2>1, <2>2, <2>3, <2>4 DEF Sound
<1>4. UNCHANGED <<now, account>> /\ SoundStore'
  BY <1>1 DEF HearExpired, SoundStore, account, Reauthenticate, StartRefresh, NoFlight
<1> QED
  BY <1>2, <1>3, <1>4, StepAtOne

\* The client hears that it was disconnected.
LEMMA HearDisconnectStep ==
  ASSUME IInv, NEW p \in Provider, HearDisconnect(p)
  PROVE  IInv'
<1> DEFINE s == [sock[p] EXCEPT !.link = "closed"]
           c == conn[p]
           d == Tail(down[p])
<1>1. Sound(sock[p], conn[p], down[p]) /\ SoundStore
  BY IInvAt, IInvStore
<1>2. AtOne(p, s, c, d)
  BY DEF HearDisconnect, AtOne, IInv, TypeOK, Packet
<1>3. Sound(s, c, d)
  <2>1. s \in SockRow /\ c \in ConnRow
    BY <1>1, NoConnSound DEF HearDisconnect, Sound, SockRow, ConnRow, SoundStore, IInv, TypeOK, Packet
  <2>2. /\ Wire(s.link, c, d)
        /\ s.stage # "mounted" => s.link = "closed"
    <3>1. Wire(sock[p].link, conn[p], down[p])
      BY <1>1 DEF Sound
    <3> HIDE DEF d
    <3>2. conn[p] = NoConn /\ sock[p].link = "live" /\ down[p] = <<"disconnect">>
      BY <3>1, Stations DEF HearDisconnect, Packet
    <3>3. d = <<>>
      BY <3>2, Deliveries DEF d
    <3> QED
      BY <1>1, <3>1, <3>2, <3>3 DEF HearDisconnect, Sound, Wire, SockRow, ConnRow, NoConn, Mounted, Packet
  <2>3. d \in Seq(Packets) /\ Len(d) <= 3
    BY <2>2, WirePackets
  <2>4. Timely(c) /\ Stale(c)
    BY <1>1, NoConnSound, TimesAssumption
    DEF HearDisconnect, Sound, Wire, Timely, Stale, SoundStore, IInv, TypeOK, ConnRow, NoConn, None, Expiry, Packet
  <2> QED
    BY <2>1, <2>2, <2>3, <2>4 DEF Sound
<1>4. UNCHANGED <<now, account>> /\ SoundStore'
  BY <1>1 DEF HearDisconnect, SoundStore, account
<1> QED
  BY <1>2, <1>3, <1>4, StepAtOne

-----------------------------------------------------------------------------
(* The other actions leave the sockets as they are, or only let some dial. *)

\* A step that leaves clock, account and connections alone.
LEMMA StepAtStore ==
  ASSUME IInv, UNCHANGED <<now, account, sock, server>>, SoundStore'
  PROVE  IInv'
<1>1. /\ now' = now /\ standing' = standing /\ left' = left
      /\ sock' = sock /\ conn' = conn /\ down' = down
  BY DEF account, server
<1>2. TypeOK'
  BY <1>1 DEF IInv, TypeOK, SoundStore
<1>3. WireOK' /\ Shut'
  BY <1>1 DEF IInv, WireOK, Shut, Mounted
<1>4. TimesOK' /\ StaleOK'
  BY <1>1 DEF IInv, TimesOK, StaleOK, Timely, Stale, SoundStore
<1> QED
  BY <1>2, <1>3, <1>4 DEF IInv

\* An API call starts a refresh.
LEMMA CallRefreshesStep == IInv /\ CallRefreshes => IInv'
<1> SUFFICES ASSUME IInv, CallRefreshes PROVE IInv'
  OBVIOUS
<1>1. SoundStore'
  BY IInvStore, TimesAssumption DEF CallRefreshes, StartRefresh, NoFlight, SoundStore
<1> QED
  BY <1>1, StepAtStore DEF CallRefreshes

\* The server answers a refresh.
LEMMA HandleRefreshStep == IInv /\ HandleRefresh => IInv'
<1> SUFFICES ASSUME IInv, HandleRefresh PROVE IInv'
  OBVIOUS
<1>1. now \in 0..MaxTime /\ now + TTL \in Expiry
  BY TimesAssumption DEF IInv, TypeOK, Expiry
<1>2. SoundStore'
  BY <1>1, IInvStore, TimesAssumption DEF HandleRefresh, SoundStore, Expiry
<1> QED
  BY <1>2, StepAtStore DEF HandleRefresh

\* The session is forgotten.
LEMMA LogoutStep == IInv /\ Logout => IInv'
<1> SUFFICES ASSUME IInv, Logout PROVE IInv'
  OBVIOUS
<1>1. SoundStore'
  BY IInvStore, TimesAssumption DEF Logout, SoundStore, IInv, TypeOK, None
<1> QED
  BY <1>1, StepAtStore DEF Logout

\* A new session begins.
LEMMA LoginStep == IInv /\ Login => IInv'
<1> SUFFICES ASSUME IInv, Login PROVE IInv'
  OBVIOUS
<1>1. SoundStore'
  BY IInvStore, TimesAssumption DEF Login, SoundStore, IInv, TypeOK, Expiry
<1> QED
  BY <1>1, StepAtStore DEF Login

\* A settled refresh lets the sockets dial whose providers are mounted.
LEMMA SettleRefreshStep == IInv /\ SettleRefresh => IInv'
<1> SUFFICES ASSUME IInv, SettleRefresh PROVE IInv'
  OBVIOUS
<1>1. SoundStore'
  BY IInvStore, TimesAssumption DEF SettleRefresh, SoundStore, IInv, TypeOK, None, NoFlight
<1>2. CASE sock' = sock
  BY <1>1, <1>2, StepAtStore DEF SettleRefresh
<1>3. CASE sock' = [p \in Provider |-> IF p \in waiting THEN ConnectIfActive(p) ELSE sock[p]]
  <2>1. /\ now' = now /\ standing' = standing /\ left' = left /\ conn' = conn /\ down' = down
    BY DEF SettleRefresh, account, server
  <2>2. ASSUME NEW p \in Provider
        PROVE  /\ sock'[p] \in SockRow
               /\ Wire(sock'[p].link, conn[p], down[p])
               /\ sock'[p].stage # "mounted" => sock'[p].link = "closed"
    <3>1. Sound(sock[p], conn[p], down[p])
      BY IInvAt
    <3>2. CASE sock'[p] = sock[p]
      BY <3>1, <3>2 DEF Sound
    <3>3. CASE Mounted(p) /\ sock'[p] = [sock[p] EXCEPT !.link = IF @ = "closed" THEN "dialling" ELSE @,
                                                       !.missed = (@ \/ sock[p].link = "live")]
      BY <3>1, <3>3 DEF Sound, SockRow, Wire, Mounted
    <3> QED
      BY <1>3, <3>2, <3>3 DEF ConnectIfActive
  <2>3. TypeOK'
    BY <1>1, <1>3, <2>1, <2>2 DEF IInv, TypeOK, SoundStore
  <2>4. WireOK' /\ Shut'
    BY <2>1, <2>2 DEF WireOK, Shut, Mounted
  <2>5. TimesOK' /\ StaleOK'
    BY <1>1, <2>1 DEF IInv, TimesOK, StaleOK, Timely, Stale, SoundStore
  <2> QED
    BY <2>3, <2>4, <2>5 DEF IInv
<1> QED
  BY <1>2, <1>3 DEF SettleRefresh

\* Whoever is in the room of the role that is lost now has a token issued before.
LEMMA ChangeAccountStep == IInv /\ ChangeAccount => IInv'
<1> SUFFICES ASSUME IInv, ChangeAccount PROVE IInv'
  OBVIOUS
<1>1. /\ now' = now /\ sock' = sock /\ conn' = conn /\ down' = down
      /\ token' = token /\ flight' = flight /\ waiting' = waiting
  BY DEF ChangeAccount, client, server
<1>2. /\ standing' \in Role \cup {"none"} /\ left' = [left EXCEPT ![standing] = now]
  BY DEF ChangeAccount
<1>3. TypeOK'
  BY <1>1, <1>2 DEF IInv, TypeOK
<1>4. WireOK' /\ Shut' /\ TimesOK'
  BY <1>1 DEF IInv, WireOK, Shut, Mounted, TimesOK, Timely
<1>5. ASSUME NEW p \in Provider PROVE Stale(conn[p])'
  <2>1. Sound(sock[p], conn[p], down[p])
    BY IInvAt
  <2>2. CASE conn[p].role = standing
    BY <1>1, <1>2, <2>1, <2>2 DEF Sound, Timely, Stale, IInv, TypeOK
  <2>3. CASE conn[p].role # standing
    BY <1>1, <1>2, <2>1, <2>3 DEF Sound, Stale, IInv, TypeOK, ConnRow
  <2> QED
    BY <2>2, <2>3
<1> QED
  BY <1>3, <1>4, <1>5 DEF IInv, StaleOK

\* No timer that is due, and no handshake of an earlier unit, is passed over.
LEMMA TickStep == IInv /\ Tick => IInv'
<1> SUFFICES ASSUME IInv, Tick PROVE IInv'
  OBVIOUS
<1>1. /\ sock' = sock /\ conn' = conn /\ down' = down /\ standing' = standing /\ left' = left
      /\ token' = token /\ flight' = flight /\ waiting' = waiting
  BY DEF Tick, account, client, server
<1>2. now \in Nat /\ now' = now + 1 /\ now' \in 0..MaxTime
  BY TimesAssumption DEF Tick, IInv, TypeOK
<1>3. TypeOK'
  BY <1>1, <1>2 DEF IInv, TypeOK
<1>4. WireOK' /\ Shut' /\ StaleOK'
  BY <1>1 DEF IInv, WireOK, Shut, Mounted, StaleOK, Stale
<1>5. ASSUME NEW p \in Provider PROVE Timely(conn[p])'
  <2>1. Timely(conn[p]) /\ conn[p] \in ConnRow
    BY IInvAt DEF Sound
  <2>2. /\ conn[p].phase = "joined" => now < conn[p].expires
        /\ conn[p].phase \in {"verifying", "loading", "admitted"} => conn[p].since = now
    BY DEF Tick, Joined
  <2>3. conn[p].expires \in Nat
    BY <2>1, TimesAssumption DEF ConnRow, Expiry, None
  <2> QED
    BY <1>1, <1>2, <2>1, <2>2, <2>3, TimesAssumption DEF Timely
<1>6. TimesOK'
  BY <1>1, <1>2, <1>5, TimesAssumption DEF IInv, TypeOK, TimesOK, Expiry, None
<1> QED
  BY <1>3, <1>4, <1>6 DEF IInv

\* Nothing happens.
LEMMA StutterStep == IInv /\ UNCHANGED vars => IInv'
<1> SUFFICES ASSUME IInv, UNCHANGED vars PROVE IInv'
  OBVIOUS
<1>1. UNCHANGED <<now, account, sock, server>> /\ SoundStore'
  BY IInvStore DEF vars, client, SoundStore
<1> QED
  BY <1>1, StepAtStore

\* Every step keeps the invariant.
LEMMA NextIInv == IInv /\ [Next]_vars => IInv'
<1> SUFFICES ASSUME IInv, [Next]_vars PROVE IInv'
  OBVIOUS
<1>1. ASSUME NEW p \in Provider, Serve(p) \/ LoadFails(p) PROVE IInv'
  BY <1>1, CheckTokenStep, LoadUserStep, LoadFailsStep, JoinStep, ExpireStep DEF Serve
<1>2. ASSUME NEW p \in Provider, Hear(p) PROVE IInv'
  BY <1>2, HearConnectStep, HearRejectionStep, HearExpiredStep, HearDisconnectStep DEF Hear
<1>3. ASSUME NEW p \in Provider, Mount(p) \/ Unmount(p) \/ Dial(p) \/ Cut(p) PROVE IInv'
  BY <1>3, MountStep, UnmountStep, DialStep, CutStep
<1>4. CASE CallRefreshes \/ HandleRefresh \/ SettleRefresh \/ Logout \/ Login
  BY <1>4, CallRefreshesStep, HandleRefreshStep, SettleRefreshStep, LogoutStep, LoginStep
<1>5. CASE ChangeAccount \/ Tick
  BY <1>5, ChangeAccountStep, TickStep
<1>6. CASE UNCHANGED vars
  BY <1>6, StutterStep
<1> QED
  BY <1>1, <1>2, <1>3, <1>4, <1>5, <1>6 DEF Next

-----------------------------------------------------------------------------
(* Theorems *)

\* The inductive invariant, of which the three others are parts.
THEOREM Inductive == Spec => []IInv
<1> QED
  BY InitIInv, NextIInv, PTL DEF Spec

\* Types, for every number of sign-ins, faults and changes.
THEOREM TypeCorrect == Spec => []TypeOK
<1>1. IInv => TypeOK
  BY DEF IInv
<1> QED
  BY <1>1, Inductive, PTL

\* A deactivated or demoted user is out of the room within one token lifetime.
THEOREM StaleRoomsEnd == Spec => []StaleRoomBounded
<1>1. IInv => StaleRoomBounded
  <2> SUFFICES ASSUME IInv, NEW p \in Provider, Joined(p), conn[p].role # standing
               PROVE  now <= left[conn[p].role] + TTL
    BY DEF StaleRoomBounded
  <2>1. Timely(conn[p]) /\ Stale(conn[p]) /\ conn[p] \in ConnRow
    BY IInvAt DEF Sound
  <2>2. /\ now \in Nat /\ conn[p].expires \in Nat /\ left[conn[p].role] + TTL \in Nat
    BY <2>1, TimesAssumption DEF IInv, TypeOK, ConnRow, Expiry, None
  <2>3. now <= conn[p].expires /\ conn[p].expires <= left[conn[p].role] + TTL
    BY <2>1 DEF Timely, Stale, Joined
  <2> QED
    BY <2>2, <2>3
<1> QED
  BY <1>1, Inductive, PTL

\* Nothing dials or is connected for a provider that is not mounted.
THEOREM NoGhosts == Spec => []NoGhostSocket
<1>1. IInv => NoGhostSocket
  BY DEF IInv, NoGhostSocket, WireOK, Shut, Wire
<1> QED
  BY <1>1, Inductive, PTL
=============================================================================

---------------------------- MODULE ActivityFeed ----------------------------
(***************************************************************************)
(* The activity feed of one tab: transactions that log entries, the live    *)
(* events of the role's room, and the catch-up that is to fill what a       *)
(* disconnect left out.                                                     *)
(*                                                                          *)
(* An entry is stamped when it is inserted, becomes visible when its        *)
(* transaction commits and is emitted after that.  The entries are about    *)
(* one subject: a project, for a project manager, or a task, for a           *)
(* developer, that is handed over, to the user or away, and deleted.  To an  *)
(* admin everything is like a subject that is never handed over or deleted.  *)
(* The cap of the feed (100 events) is left out.                            *)
(***************************************************************************)
EXTENDS Naturals, Sequences, FiniteSets

CONSTANTS Entry,      \* activity entries; each is logged by one transaction
          Limit,      \* CATCHUP_LIMIT
          Req,        \* bound: catch-ups in flight at once
          MaxClock,   \* bound: the clock stops here
          MaxFaults   \* bound: lost connections and requests, rolled back writes

ASSUME LimitAssumption == Limit \in Nat \ {0}
ASSUME EntriesAssumption == IsFiniteSet(Entry) /\ "connect" \notin Entry
ASSUME ClockAssumption == MaxClock \in Nat \ {0}

VARIABLES
  clock,
  stamp,    \* stamp[e]: created_at
  writer,   \* writer[e]: where the transaction that logs e is
  deed,     \* deed[e]: what that transaction does to the subject
  subject,  \* whose the subject is: "mine", "others", or "deleted"
  toMe,     \* entries whose event goes to the user's room
  link,     \* the connection, as the tab sees it
  before,   \* connectedBefore
  queue,    \* events on their way to the tab
  events,   \* what the feed shows
  newest,   \* newestSeen, 0 when it is undefined
  req,      \* catch-ups in flight
  failed,   \* history: no catch-up since a failed one has succeeded
  moved,    \* history: newest has moved past what a failed catch-up asked for
  excused,  \* history: something else may have left a hole
  entitled, \* history: entries the user's scope or room has had a right to
  faults

log == <<stamp, writer, deed, subject, toMe>>
server == <<clock, log>>
history == <<failed, moved, excused, entitled>>
vars == <<server, link, before, queue, events, newest, req, history, faults>>

\* heals: no catch-up has failed since this one was sent.
Free == [phase |-> "none", since |-> 0, found |-> {}, heals |-> TRUE]

Visible == {e \in Entry : writer[e] \in {"committed", "ended"}}

\* activityScope: by the owner or assignee of this moment; SET NULL has cut the
\* entries off from a subject that is deleted.
InScope == subject = "mine"

\* MUTANT: the catch-up forgets activityScope.
AfterInAnyScope(t) == {e \in Visible : stamp[e] > t}

After(t) == {e \in Visible : InScope /\ stamp[e] > t}

InRoom == link \in {"joined", "live"}

Fault == faults < MaxFaults /\ faults' = faults + 1

-----------------------------------------------------------------------------
(* logAndEmitActivity, in the transaction of its caller *)

\* The subject after the transaction.
Becomes(d) ==
  CASE d = "writes" -> subject
    [] d = "hands over" -> IF subject = "mine" THEN "others" ELSE "mine"
    [] d = "deletes" -> "deleted"

\* Owners and assignees are written one transaction at a time; a deletion waits for
\* those that refer to the row, and they for it.
Excludes(d) == CASE d = "writes" -> {"deletes"}
                 [] d = "hands over" -> {"hands over", "deletes"}
                 [] d = "deletes" -> {"writes", "hands over", "deletes"}

\* Entries inserted by overlapping transactions may become visible out of order.
Stamp(e) ==
  /\ writer[e] = "none"
  /\ writer' = [writer EXCEPT ![e] = "inserted"]
  /\ stamp' = [stamp EXCEPT ![e] = clock]
  /\ excused' = \/ excused
                \/ \E f \in Entry \ {e} : \/ writer[f] \in {"inserted", "committed"}
                                          \/ stamp[f] = clock

\* The rooms are those of the owner and the assignee as this transaction sees
\* them: with its own change, but a deletion is logged before it is done.
Address(e, d) ==
  LET mine == IF d = "hands over" THEN subject = "others" ELSE InScope
  IN /\ subject # "deleted"
     /\ \A f \in Entry : writer[f] = "inserted" => deed[f] \notin Excludes(d)
     /\ deed' = [deed EXCEPT ![e] = d]
     /\ toMe' = IF mine THEN toMe \cup {e} ELSE toMe
     /\ entitled' = IF mine THEN entitled \cup {e} ELSE entitled

InsertOnly(e, d) ==
  /\ Stamp(e)
  /\ Address(e, d)
  /\ UNCHANGED <<clock, subject, link, before, events, newest, req, failed, moved, faults>>

\* MUTANT: the event does not wait for the commit.
InsertAndEmit(e, d) ==
  InsertOnly(e, d) /\ queue' = IF InRoom /\ e \in toMe' THEN Append(queue, e) ELSE queue

Insert(e, d) == InsertOnly(e, d) /\ UNCHANGED queue

\* What is handed over takes its entries along.
Commit(e) ==
  /\ writer[e] = "inserted"
  /\ writer' = [writer EXCEPT ![e] = "committed"]
  /\ subject' = Becomes(deed[e])
  /\ deed' = [deed EXCEPT ![e] = "writes"]
  /\ entitled' = IF InScope' THEN entitled \cup Visible' ELSE entitled
  /\ excused' = (excused \/ subject' # subject)
  /\ UNCHANGED <<clock, stamp, toMe, link, before, queue, events, newest, req,
                 failed, moved, faults>>

\* The mount's catch-up has been read and the socket is not in its room yet.
Uncovered == /\ link = "connecting"
             /\ \A q \in Req : req[q].phase # "sent"

\* emitToRooms, to the rooms of the time of the INSERT: lost to a tab that is not
\* in the room.
EmitEntry(e) ==
  /\ writer[e] = "committed"
  /\ writer' = [writer EXCEPT ![e] = "ended"]
  /\ queue' = IF InRoom /\ e \in toMe THEN Append(queue, e) ELSE queue
  /\ excused' = (excused \/ Uncovered)
  /\ UNCHANGED <<clock, stamp, deed, subject, toMe, link, before, events, newest, req,
                 failed, moved, entitled, faults>>

RollBack(e) ==
  /\ writer[e] = "inserted"
  /\ writer' = [writer EXCEPT ![e] = "rolledBack"]
  /\ Fault
  /\ deed' = [deed EXCEPT ![e] = "writes"]
  /\ UNCHANGED <<clock, stamp, subject, toMe, link, before, queue, events, newest, req, history>>

Tick ==
  /\ clock < MaxClock
  /\ clock' = clock + 1
  /\ UNCHANGED <<log, link, before, queue, events, newest, req, history, faults>>

-----------------------------------------------------------------------------
(* GET /api/feed/catchup *)

SendCatchUp(q, t) ==
  /\ req[q] = Free
  /\ req' = [req EXCEPT ![q] = [Free EXCEPT !.phase = "sent", !.since = t]]

\* MUTANT: all of them.
Everything(s) == s

\* MUTANT: the oldest of them.
Oldest(s) == IF Cardinality(s) <= Limit THEN s
             ELSE CHOOSE r \in SUBSET s : /\ Cardinality(r) = Limit
                                         /\ \A e \in r : \A f \in s \ r : stamp[f] >= stamp[e]

\* The newest Limit of them, by createdAt; the code breaks ties by id.
Fetched(s) == IF Cardinality(s) <= Limit THEN s
              ELSE CHOOSE r \in SUBSET s : /\ Cardinality(r) = Limit
                                          /\ \A e \in r : \A f \in s \ r : stamp[f] <= stamp[e]

\* The feed has nothing yet to leave a gap to.
Fresh(q) == /\ req[q].since = 0 /\ events = {} /\ queue = <<>>
            /\ \A p \in Req \ {q} : req[p] = Free

\* Visible entries after `since`.  More than Limit of them leave a gap.
ReadCatchUp(q) ==
  /\ req[q].phase = "sent"
  /\ LET missed == After(req[q].since)
     IN /\ req' = [req EXCEPT ![q].phase = "answered", ![q].found = Fetched(missed)]
        /\ excused' = \/ excused
                      \/ Cardinality(missed) > Limit /\ ~ Fresh(q)
  /\ UNCHANGED <<server, link, before, queue, events, newest, failed, moved, entitled, faults>>

Highest(s) == CHOOSE t \in {stamp[e] : e \in s} : \A e \in s : stamp[e] <= t

\* remember
Remember(s) == newest' = IF s # {} /\ Highest(s) > newest THEN Highest(s) ELSE newest

\* mergeEvents: what is there stays, duplicates are dropped.
Merge(s) == events' = events \cup s

CaughtUp(q) ==
  /\ req[q].phase = "answered"
  /\ Remember(req[q].found)
  /\ Merge(req[q].found)
  /\ req' = [req EXCEPT ![q] = Free]
  /\ failed' = (failed /\ ~ req[q].heals)
  /\ UNCHANGED <<server, link, before, queue, moved, excused, entitled, faults>>

\* A lost catch-up is swallowed: "The next reconnect retries."
Lose(q) ==
  /\ req[q] # Free
  /\ Fault
  /\ req' = [p \in Req |-> IF p = q \/ req[p] = Free THEN Free
                           ELSE [req[p] EXCEPT !.heals = FALSE]]
  /\ failed' = TRUE
  /\ moved' = (moved \/ newest > req[q].since)
  /\ UNCHANGED <<server, link, before, queue, events, newest, excused, entitled>>

-----------------------------------------------------------------------------
(* useActivityFeed *)

\* The page is opened: catch up, while the shared socket connects or is up already.
Mount(q) ==
  /\ link = "closed"
  /\ link' \in {"connecting", "live"}
  /\ before' = (link' = "live")
  /\ SendCatchUp(q, 0)
  /\ UNCHANGED <<server, queue, events, newest, history, faults>>

\* The server lets the socket in and adds it to the room.
Join ==
  /\ link \in {"connecting", "offline"}
  /\ link' = "joined"
  /\ queue' = <<"connect">>
  /\ UNCHANGED <<server, before, events, newest, req, history, faults>>

\* The first connect is left to the catch-up of the mount.
HandleConnect(q) ==
  /\ queue # <<>>
  /\ Head(queue) = "connect"
  /\ queue' = Tail(queue)
  /\ link' = "live"
  /\ before' = TRUE
  /\ \/ before /\ SendCatchUp(q, newest)
     \/ ~ before /\ UNCHANGED req
  /\ UNCHANGED <<server, events, newest, history, faults>>

\* onActivity
HandleActivity ==
  /\ queue # <<>>
  /\ Head(queue) # "connect"
  /\ queue' = Tail(queue)
  /\ Remember({Head(queue)})
  /\ Merge({Head(queue)})
  /\ moved' = (moved \/ failed)
  /\ UNCHANGED <<server, link, before, req, failed, excused, entitled, faults>>

\* Entries lost before the first connect: the next one counts as the first.
FirstEntriesLost == ~ before /\ \E i \in 1..Len(queue) : queue[i] # "connect"

Disconnect ==
  /\ link \in {"joined", "live"}
  /\ Fault
  /\ link' = IF before THEN "offline" ELSE "connecting"
  /\ queue' = <<>>
  /\ excused' = (excused \/ FirstEntriesLost)
  /\ UNCHANGED <<server, before, events, newest, req, failed, moved, entitled>>

\* The page is left; what is still on its way to it is ignored.
Unmount ==
  /\ link # "closed"
  /\ Fault
  /\ link' = "closed"
  /\ before' = FALSE
  /\ queue' = <<>>
  /\ events' = {}
  /\ newest' = 0
  /\ req' = [q \in Req |-> Free]
  /\ failed' = FALSE
  /\ moved' = FALSE
  /\ UNCHANGED <<server, excused, entitled>>

-----------------------------------------------------------------------------
Init ==
  /\ clock = 1
  /\ stamp = [e \in Entry |-> 0]
  /\ writer = [e \in Entry |-> "none"]
  /\ deed = [e \in Entry |-> "writes"]
  /\ subject \in {"mine", "others"}
  /\ toMe = {}
  /\ link = "closed"
  /\ before = FALSE
  /\ queue = <<>>
  /\ events = {}
  /\ newest = 0
  /\ req = [q \in Req |-> Free]
  /\ failed = FALSE /\ moved = FALSE /\ excused = FALSE /\ entitled = {}
  /\ faults = 0

Next ==
  \/ \E e \in Entry : \/ Commit(e) \/ EmitEntry(e) \/ RollBack(e)
                      \/ \E d \in {"writes", "hands over", "deletes"} : Insert(e, d)
  \/ \E q \in Req : Mount(q) \/ ReadCatchUp(q) \/ CaughtUp(q) \/ Lose(q) \/ HandleConnect(q)
  \/ Join \/ HandleActivity \/ Disconnect \/ Unmount \/ Tick

Spec == Init /\ [][Next]_vars

-----------------------------------------------------------------------------
(* Properties *)

\* Types.
TypeOK ==
  /\ clock \in Nat
  /\ stamp \in [Entry -> 0..MaxClock]
  /\ writer \in [Entry -> {"none", "inserted", "committed", "ended", "rolledBack"}]
  /\ deed \in [Entry -> {"writes", "hands over", "deletes"}]
  /\ subject \in {"mine", "others", "deleted"} /\ toMe \subseteq Entry
  /\ link \in {"closed", "connecting", "joined", "live", "offline"}
  /\ ~ InRoom => queue = <<>>
  /\ events \subseteq Entry
  /\ newest \in 0..MaxClock
  /\ \A q \in Req : Cardinality(req[q].found) <= Limit

\* The feed is a suffix of the user's part of the log: it shows the newest entry,
\* and whatever came after an entry it shows.
Suffix == \A e \in (Visible \cap toMe) \ events : /\ events # {}
                                      /\ \A f \in events : stamp[f] >= stamp[e]

Calm == /\ link = "live"
        /\ queue = <<>>
        /\ \A q \in Req : req[q] = Free
        /\ \A e \in Entry : writer[e] \notin {"inserted", "committed"}

\* When nothing is on its way to a connected tab, its feed has no holes, through
\* disconnects, lost events, catch-ups that cross live events and catch-ups that
\* fail: unless transactions overlapped, stamps are equal, more than Limit
\* entries were missed, an entry was emitted between the mount's catch-up and the
\* first connect, or lost by a disconnect before that connect was handled, a live
\* event came before a failed catch-up was repeated, or the subject changed hands.
FeedHasNoHoles == (Calm /\ ~ excused /\ ~ moved /\ ~ failed) => Suffix

\* The feed never shows an entry whose transaction did not commit, nor one that
\* the user was at no time entitled to: neither was the subject the user's when it
\* was logged, nor has it been since the entry was committed.  Handovers may
\* overlap with whatever is logged, emitted or fetched.
OnlyEntitled == events \subseteq Visible \cap entitled
=============================================================================

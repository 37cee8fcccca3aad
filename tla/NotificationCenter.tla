------------------------- MODULE NotificationCenter -------------------------
(***************************************************************************)
(* The notifications of one user: the transactions that store them, the     *)
(* handlers that list and mark them, the events of the user's room, and the *)
(* list and badge of each of the user's tabs.                               *)
(*                                                                          *)
(* Statements run at READ COMMITTED, each on the rows committed when it     *)
(* runs.  Events reach a tab in the order they were emitted, and are lost   *)
(* when its connection is; HTTP requests and responses take their own time. *)
(* The cap of the list (20 items) is left out.                              *)
(***************************************************************************)
EXTENDS Naturals, Sequences, FiniteSets

CONSTANTS Tab,       \* browser tabs the user is signed in with
          Note,      \* notifications; each is stored by one transaction
          Req,       \* bound: HTTP requests in flight at once
          MaxQueue,  \* bound: events on their way to a tab
          MaxFaults  \* bound: what is lost, rolled back or deleted

ASSUME NotesAssumption == IsFiniteSet(Note)

VARIABLES
  row,      \* committed rows: "absent", "unread" or "read"
  writer,   \* writer[n]: where the transaction that stores n is
  counted,  \* counted[n]: the unread count that transaction has read
  req,      \* requests in flight
  queue,    \* queue[t]: events on their way to tab t
  tab,      \* tab[t]: connection, list and badge of a tab
  stale,    \* history: what happened since tab t last loaded may have overlapped
  faults

vars == <<row, writer, counted, req, queue, tab, stale, faults>>

Absent == [n \in {} |-> "unread"]

Free == [op |-> "none"]

Unread == {n \in Note : row[n] = "unread"}

Rows == [n \in {m \in Note : row[m] # "absent"} |-> row[n]]

-----------------------------------------------------------------------------
(* Events *)

Joined(t) == tab[t].link \in {"joined", "live"}

\* io.to(user room).emit: one copy for each tab in the room, appended to its queue.
Emit(event) ==
  /\ \A t \in Tab : Len(queue[t]) < MaxQueue
  /\ queue' = [t \in Tab |-> IF Joined(t) THEN Append(queue[t], event) ELSE queue[t]]

MarkListed(items, ids) ==
  [n \in DOMAIN items |-> IF n \in ids THEN "read" ELSE items[n]]

-----------------------------------------------------------------------------
(* History: has one thing at a time been going on? *)

Calm == /\ \A n \in Note : writer[n] \in {"none", "ended", "rolledBack"}
        /\ \A q \in Req : req[q] = Free
        /\ \A t \in Tab : queue[t] = <<>> /\ tab[t].link \notin {"connecting", "joined"}

\* Something begins: if anything else is going on, no tab is sure of its badge.
Starts == stale' = [t \in Tab |-> stale[t] \/ ~ Calm]

\* Tab t begins to load: alone, it will be right.
Reloads(t) == stale' = [s \in Tab |-> IF Calm THEN stale[s] /\ s # t ELSE TRUE]

Fault == faults < MaxFaults /\ faults' = faults + 1

-----------------------------------------------------------------------------
(* notifyUser, in the transaction of its caller *)

Insert(n) ==
  /\ writer[n] = "none"
  /\ writer' = [writer EXCEPT ![n] = "inserted"]
  /\ Starts
  /\ UNCHANGED <<row, counted, req, queue, tab, faults>>

\* MUTANT: the event does not wait for the commit.
CountAndEmit(n) ==
  /\ writer[n] = "inserted"
  /\ counted' = [counted EXCEPT ![n] = Cardinality(Unread \cup {n})]
  /\ writer' = [writer EXCEPT ![n] = "counted"]
  /\ Emit([type |-> "new", note |-> n, count |-> Cardinality(Unread \cup {n})])
  /\ UNCHANGED <<row, req, tab, stale, faults>>

\* A transaction sees its own row, and no row of another open one.
Count(n) ==
  /\ writer[n] = "inserted"
  /\ counted' = [counted EXCEPT ![n] = Cardinality(Unread \cup {n})]
  /\ writer' = [writer EXCEPT ![n] = "counted"]
  /\ UNCHANGED <<row, req, queue, tab, stale, faults>>

Commit(n) ==
  /\ writer[n] = "counted"
  /\ row' = [row EXCEPT ![n] = "unread"]
  /\ writer' = [writer EXCEPT ![n] = "committed"]
  /\ UNCHANGED <<counted, req, queue, tab, stale, faults>>

\* afterCommit
EmitNew(n) ==
  /\ writer[n] = "committed"
  /\ writer' = [writer EXCEPT ![n] = "ended"]
  /\ Emit([type |-> "new", note |-> n, count |-> counted[n]])
  /\ UNCHANGED <<row, counted, req, tab, stale, faults>>

RollBack(n) ==
  /\ writer[n] \in {"inserted", "counted"}
  /\ writer' = [writer EXCEPT ![n] = "rolledBack"]
  /\ Fault
  /\ UNCHANGED <<row, counted, req, queue, tab, stale>>

\* The task is deleted, and its notifications with it.  No event says so.
Cascade(n) ==
  /\ row[n] # "absent"
  /\ row' = [row EXCEPT ![n] = "absent"]
  /\ stale' = [t \in Tab |-> TRUE]
  /\ Fault
  /\ UNCHANGED <<writer, counted, req, queue, tab>>

-----------------------------------------------------------------------------
(* The browser's requests *)

Load(t) == [op |-> "list", tab |-> t, todo |-> {"items", "count"}, items |-> Absent,
            count |-> 0]

Mark(t, ids) == [op |-> "mark", tab |-> t, todo |-> {"update", "count"}, ids |-> ids,
                 count |-> 0]

Send(q, r) == req[q] = Free /\ req' = [req EXCEPT ![q] = r]

\* The list is shown for the first time: it loads while the socket connects.
Mount(t, q) ==
  /\ tab[t].link = "closed"
  /\ tab' = [tab EXCEPT ![t].link = "connecting"]
  /\ Send(q, Load(t))
  /\ Reloads(t)
  /\ UNCHANGED <<row, writer, counted, queue, faults>>

\* MUTANT: the optimistic badge without Math.max.
MarkReadUncapped(t, n, q) ==
  /\ n \in DOMAIN tab[t].items
  /\ tab[t].items[n] = "unread"
  /\ tab' = [tab EXCEPT ![t].items[n] = "read", ![t].badge = @ - 1]
  /\ Send(q, Mark(t, {n}))
  /\ Starts
  /\ UNCHANGED <<row, writer, counted, queue, faults>>

\* markRead: optimistic, and only of an item that is shown as unread.
MarkRead(t, n, q) ==
  /\ n \in DOMAIN tab[t].items
  /\ tab[t].items[n] = "unread"
  /\ tab' = [tab EXCEPT ![t].items[n] = "read",
                        ![t].badge = IF @ = 0 THEN 0 ELSE @ - 1]
  /\ Send(q, Mark(t, {n}))
  /\ Starts
  /\ UNCHANGED <<row, writer, counted, queue, faults>>

\* markAllRead: the button is enabled while the badge is not 0.
MarkAllRead(t, q) ==
  /\ tab[t].badge # 0
  /\ tab' = [tab EXCEPT ![t].items = MarkListed(@, Note), ![t].badge = 0]
  /\ Send(q, Mark(t, Note))
  /\ Starts
  /\ UNCHANGED <<row, writer, counted, queue, faults>>

-----------------------------------------------------------------------------
(* The handlers *)

Handles(q, what) == req[q] # Free /\ what \in req[q].todo

\* Two queries side by side: each sees what is committed when it runs.
ListItems(q) ==
  /\ Handles(q, "items")
  /\ req' = [req EXCEPT ![q].todo = @ \ {"items"}, ![q].items = Rows]
  /\ UNCHANGED <<row, writer, counted, queue, tab, stale, faults>>

\* A mark of a row that is gone is answered 404: the tab loads the list.
UpdateRead(q) ==
  /\ Handles(q, "update")
  /\ req[q].ids = Note \/ \E n \in req[q].ids : row[n] # "absent"
  /\ row' = [n \in Note |-> IF n \in req[q].ids /\ row[n] = "unread" THEN "read" ELSE row[n]]
  /\ req' = [req EXCEPT ![q].todo = @ \ {"update"}]
  /\ UNCHANGED <<writer, counted, queue, tab, stale, faults>>

\* MUTANT: only the tab that asked hears of the mark.
AnswerOnly(q) == UNCHANGED queue

EmitRead(q) == Emit([type |-> "read", ids |-> req[q].ids, count |-> Cardinality(Unread)])

\* unreadCountOf; a mark then tells all tabs of the user and answers.
CountUnread(q) ==
  /\ Handles(q, "count")
  /\ "update" \notin req[q].todo
  /\ req' = [req EXCEPT ![q].todo = @ \ {"count"}, ![q].count = Cardinality(Unread)]
  /\ \/ req[q].op = "mark" /\ EmitRead(q)
     \/ req[q].op = "list" /\ UNCHANGED queue
  /\ UNCHANGED <<row, writer, counted, tab, stale, faults>>

-----------------------------------------------------------------------------
(* Responses *)

Respond(q) ==
  /\ req[q] # Free
  /\ req[q].todo = {}
  /\ tab' = [tab EXCEPT ![req[q].tab].badge = req[q].count,
                        ![req[q].tab].items = IF req[q].op = "list" THEN req[q].items ELSE @]
  /\ req' = [req EXCEPT ![q] = Free]
  /\ UNCHANGED <<row, writer, counted, queue, stale, faults>>

\* The error is shown; a mark that failed loads the list.  One that fails between
\* its UPDATE and its count has told nobody what it wrote.
Failed(q) ==
  LET t == req[q].tab
      silent == req[q].op = "mark" /\ req[q].todo = {"count"}
  IN \/ /\ req[q].op = "mark"
        /\ req' = [req EXCEPT ![q] = Load(t)]
        /\ stale' = [s \in Tab |-> stale[s] \/ (silent /\ s # t)]
     \/ /\ req[q].op = "list"
        /\ req' = [req EXCEPT ![q] = Free]
        /\ stale' = [stale EXCEPT ![t] = TRUE]

NotFound(q) ==
  /\ Handles(q, "update")
  /\ req[q].ids # Note
  /\ \A n \in req[q].ids : row[n] = "absent"
  /\ Failed(q)
  /\ UNCHANGED <<row, writer, counted, queue, tab, faults>>

\* A request or its response is lost, or the server fails at any point of it.
Lose(q) ==
  /\ req[q] # Free
  /\ Fault
  /\ Failed(q)
  /\ UNCHANGED <<row, writer, counted, queue, tab>>

-----------------------------------------------------------------------------
(* The connection *)

\* The server lets the socket in and adds it to the room.
Join(t) ==
  /\ tab[t].link \in {"connecting", "offline"}
  /\ tab' = [tab EXCEPT ![t].link = "joined"]
  /\ queue' = [queue EXCEPT ![t] = <<[type |-> "connect"]>>]
  /\ stale' = IF tab[t].link = "connecting" THEN stale
              ELSE [s \in Tab |-> IF Calm THEN stale[s] /\ s # t ELSE TRUE]
  /\ UNCHANGED <<row, writer, counted, req, faults>>

Disconnect(t) ==
  /\ Joined(t)
  /\ Fault
  /\ tab' = [tab EXCEPT ![t].link = IF tab[t].before THEN "offline" ELSE "connecting"]
  /\ queue' = [queue EXCEPT ![t] = <<>>]
  /\ stale' = [stale EXCEPT ![t] = TRUE]
  /\ UNCHANGED <<row, writer, counted, req>>

HandleConnect(t, q) ==
  /\ queue[t] # <<>>
  /\ Head(queue[t]).type = "connect"
  /\ queue' = [queue EXCEPT ![t] = Tail(@)]
  /\ tab' = [tab EXCEPT ![t].link = "live", ![t].before = TRUE]
  /\ \/ tab[t].before /\ Send(q, Load(t))
     \/ ~ tab[t].before /\ UNCHANGED req
  /\ UNCHANGED <<row, writer, counted, stale, faults>>

HandleNew(t) ==
  /\ queue[t] # <<>>
  /\ Head(queue[t]).type = "new"
  /\ queue' = [queue EXCEPT ![t] = Tail(@)]
  /\ LET e == Head(queue[t])
     IN tab' = [tab EXCEPT ![t].items = [n \in DOMAIN @ \cup {e.note} |->
                                           IF n = e.note THEN "unread" ELSE @[n]],
                           ![t].badge = e.count]
  /\ UNCHANGED <<row, writer, counted, req, stale, faults>>

HandleRead(t) ==
  /\ queue[t] # <<>>
  /\ Head(queue[t]).type = "read"
  /\ queue' = [queue EXCEPT ![t] = Tail(@)]
  /\ LET e == Head(queue[t])
     IN tab' = [tab EXCEPT ![t].items = MarkListed(@, e.ids), ![t].badge = e.count]
  /\ UNCHANGED <<row, writer, counted, req, stale, faults>>

-----------------------------------------------------------------------------
Init ==
  /\ row = [n \in Note |-> "absent"]
  /\ writer = [n \in Note |-> "none"]
  /\ counted = [n \in Note |-> 0]
  /\ req = [q \in Req |-> Free]
  /\ queue = [t \in Tab |-> <<>>]
  /\ tab = [t \in Tab |-> [link |-> "closed", before |-> FALSE, items |-> Absent,
                           badge |-> 0]]
  /\ stale = [t \in Tab |-> FALSE]
  /\ faults = 0

Next ==
  \/ \E n \in Note : \/ Insert(n) \/ Count(n) \/ Commit(n) \/ EmitNew(n)
                     \/ RollBack(n) \/ Cascade(n)
  \/ \E q \in Req : \/ ListItems(q) \/ UpdateRead(q) \/ CountUnread(q)
                    \/ Respond(q) \/ NotFound(q) \/ Lose(q)
  \/ \E t \in Tab : \/ Join(t) \/ Disconnect(t) \/ HandleNew(t) \/ HandleRead(t)
                    \/ \E q \in Req : \/ Mount(t, q)
                                      \/ MarkAllRead(t, q)
                                      \/ HandleConnect(t, q)
                                      \/ \E n \in Note : MarkRead(t, n, q)

Spec == Init /\ [][Next]_vars

-----------------------------------------------------------------------------
(* Properties *)

\* Types.
TypeOK ==
  /\ row \in [Note -> {"absent", "unread", "read"}]
  /\ writer \in [Note -> {"none", "inserted", "counted", "committed", "ended", "rolledBack"}]
  /\ counted \in [Note -> 0..Cardinality(Note)]
  /\ \A t \in Tab : /\ tab[t].link \in {"closed", "connecting", "joined", "live", "offline"}
                    /\ DOMAIN tab[t].items \subseteq Note
                    /\ tab[t].items \in [DOMAIN tab[t].items -> {"unread", "read"}]
                    /\ tab[t].badge \in 0..Cardinality(Note)
                    /\ ~ Joined(t) => queue[t] = <<>>

\* Clients never hear of a notification whose transaction has not committed, so
\* none of them shows what a rollback took back.
OnlyCommitted ==
  \A n \in Note :
    (\/ \E t \in Tab : \/ n \in DOMAIN tab[t].items
                       \/ \E k \in 1..Len(queue[t]) : queue[t][k].type = "new" /\ queue[t][k].note = n)
      => writer[n] \in {"committed", "ended"}

\* The badge and the list of a live tab are right once nothing is going on,
\* whatever was lost and reloaded on the way: unless two things overlapped, a
\* task was deleted, or a load failed since the tab last loaded undisturbed.
BadgeSettles ==
  Calm => \A t \in Tab :
            (tab[t].link = "live" /\ ~ stale[t])
               => /\ tab[t].badge = Cardinality(Unread)
                  /\ tab[t].items = Rows
=============================================================================

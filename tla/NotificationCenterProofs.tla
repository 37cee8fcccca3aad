----------------------- MODULE NotificationCenterProofs -----------------------
(***************************************************************************)
(* Proofs about NotificationCenter, for any number of tabs, notifications    *)
(* and requests, and any number of events under way and of faults.          *)
(***************************************************************************)
EXTENDS NotificationCenter, FiniteSetTheorems, TLAPS

-----------------------------------------------------------------------------
(* The invariant *)

Counts == 0..Cardinality(Note)

Lists == UNION {[s -> {"unread", "read"}] : s \in SUBSET Note}

Event == [type : {"connect"}]
           \cup [type : {"new"}, note : Note, count : Counts]
           \cup [type : {"read"}, ids : SUBSET Note, count : Counts]

Listing == [op : {"list"}, tab : Tab, todo : SUBSET {"items", "count"}, items : Lists,
            count : Counts]

Marking == [op : {"mark"}, tab : Tab, todo : SUBSET {"update", "count"}, ids : SUBSET Note,
            count : Counts]

TabRow == [link : {"closed", "connecting", "joined", "live", "offline"}, before : BOOLEAN,
           items : Lists, badge : Counts]

ServerTypes ==
  /\ row \in [Note -> {"absent", "unread", "read"}]
  /\ writer \in [Note -> {"none", "inserted", "counted", "committed", "ended", "rolledBack"}]
  /\ counted \in [Note -> Counts]
  /\ req \in [Req -> {Free} \cup Listing \cup Marking]

TabTypes ==
  /\ queue \in [Tab -> Seq(Event)]
  /\ tab \in [Tab -> TabRow]
  /\ stale \in [Tab -> BOOLEAN]

Types == ServerTypes /\ TabTypes

\* The notification has been committed.
Stored(n) == writer[n] \in {"committed", "ended"}

Said(s) == {s[k] : k \in 1..Len(s)}

\* Whatever is in the table, in an answer, in an event or on the screen.
Known ==
  /\ \A n \in Note : row[n] # "absent" => Stored(n)
  /\ \A q \in Req : req[q].op = "list" => \A n \in DOMAIN req[q].items : Stored(n)
  /\ \A t \in Tab : \A e \in Said(queue[t]) : e.type = "new" => Stored(e.note)
  /\ \A t \in Tab : \A n \in DOMAIN tab[t].items : Stored(n)

\* A tab that has lost its connection has loaded before, and knows it may be stale;
\* one that has not been opened shows nothing and has asked for nothing.
LinkOK == \A t \in Tab :
  /\ tab[t].link = "live" => tab[t].before
  /\ tab[t].link \in {"closed", "connecting"} => ~ tab[t].before
  /\ tab[t].link = "offline" => tab[t].before /\ stale[t]
  /\ ~ Joined(t) => queue[t] = <<>>
  /\ tab[t].link = "closed" => /\ tab[t].badge = 0 /\ DOMAIN tab[t].items = {}
                               /\ \A q \in Req : req[q].op \in {"list", "mark"} => req[q].tab # t

(* What follows holds while some tab is sure of its badge. *)

Sure == \E t \in Tab : ~ stale[t]

Open(n) == writer[n] \in {"inserted", "counted", "committed"}
Quiet(t) == tab[t].link \notin {"connecting", "joined"}
Still == \A t \in Tab : queue[t] = <<>> /\ Quiet(t)
Idle == \A q \in Req : req[q] = Free
AtHead(t, type) == queue[t] # <<>> /\ Head(queue[t]).type = type
Now == Cardinality(Unread)

\* One transaction, one request or one tab that connects, and one event for each tab.
Alone ==
  /\ \A n \in Note : Open(n) => /\ \A m \in Note \ {n} : ~ Open(m)
                                /\ Idle /\ Still
  /\ \A p, q \in Req : (req[p] # Free /\ req[q] # Free) => p = q
  /\ \A t \in Tab : Len(queue[t]) <= 1
  /\ \A t \in Tab : ~ Quiet(t) => /\ \A s \in Tab \ {t} : queue[s] = <<>> /\ Quiet(s)
                                  /\ \A q \in Req : req[q] # Free => req[q].op = "list" /\ req[q].tab = t
  /\ \A t \in Tab : tab[t].link = "joined" => AtHead(t, "connect") /\ (tab[t].before => Idle)
  /\ \A t \in Tab : AtHead(t, "connect") => tab[t].link = "joined"

\* A count that has been read is still the count.
WritesOK == \A n \in Note :
  /\ writer[n] \in {"counted", "committed"} => counted[n] = Cardinality(Unread \cup {n})
  /\ writer[n] = "committed" => row[n] = "unread"

EventsOK == \A t \in Tab :
  /\ AtHead(t, "new") => /\ Idle
                        /\ Head(queue[t]).count = Now
                        /\ row[Head(queue[t]).note] = "unread"
  /\ AtHead(t, "read") => /\ Head(queue[t]).count = Now
                         /\ Head(queue[t]).ids \cap Unread = {}
                         /\ \A q \in Req : req[q].op = "mark" => "update" \notin req[q].todo

AnswersOK == \A q \in Req :
  /\ req[q].op = "list" => /\ "items" \notin req[q].todo => req[q].items = Rows
                           /\ "count" \notin req[q].todo => req[q].count = Now
  /\ req[q].op = "mark" => /\ "count" \notin req[q].todo => req[q].count = Now
                           /\ "update" \in req[q].todo => "count" \in req[q].todo
                           /\ "update" \notin req[q].todo => req[q].ids \cap Unread = {}
                           /\ "count" \in req[q].todo => Still

Ordered == Alone /\ WritesOK /\ EventsOK /\ AnswersOK

(* What a tab that is sure has, or will have before all is calm. *)

Right(t) == tab[t].badge = Now /\ tab[t].items = Rows

\* The rows but n.
Without(n) == [m \in DOMAIN Rows \ {n} |-> row[m]]

Loading(t) == \E q \in Req : req[q].op = "list" /\ req[q].tab = t

\* A notification has been stored, and its event not handled yet.
NewToCome(t) ==
  \/ \E n \in Note : writer[n] = "committed" /\ tab[t].items = Without(n)
  \/ AtHead(t, "new") /\ tab[t].items = Without(Head(queue[t]).note)

\* Rows have been marked, and the event that says so not handled yet.
ReadToCome(t) ==
  \/ \E q \in Req : /\ req[q].op = "mark" /\ req[q].tab # t /\ req[q].todo = {"count"}
                    /\ MarkListed(tab[t].items, req[q].ids) = Rows
  \/ AtHead(t, "read") /\ MarkListed(tab[t].items, Head(queue[t]).ids) = Rows

\* A mark of the tab itself: what it shows is what the mark will have done.
Ahead(t, q) == tab[t].items = MarkListed(Rows, req[q].ids)

Marks(t) == \E q \in Req : req[q].op = "mark" /\ req[q].tab = t

WillBe(t) ==
  \/ Right(t)
  \/ Loading(t)
  \/ tab[t].link = "joined" /\ tab[t].before
  \/ NewToCome(t)
  \/ ReadToCome(t)
  \/ Marks(t)

Settling == \A t \in Tab : ~ stale[t] =>
  /\ tab[t].link # "closed" => WillBe(t)
  /\ \A q \in Req : (req[q].op = "mark" /\ req[q].tab = t) => Ahead(t, q)

IInv == Types /\ Known /\ LinkOK /\ (Sure => Ordered) /\ Settling

-----------------------------------------------------------------------------
(* Lists and counts *)

\* Unread notifications can be counted, with or without one more.
LEMMA CountFacts ==
  ASSUME row \in [Note -> {"absent", "unread", "read"}]
  PROVE  /\ Now \in Counts /\ 0 \in Counts
         /\ \A n \in Note : Cardinality(Unread \cup {n}) \in Counts
         /\ \A c \in Counts : c # 0 => c - 1 \in Counts
<1>1. IsFiniteSet(Note) /\ Cardinality(Note) \in Nat
  BY NotesAssumption, FS_CardinalityType
<1>2. ASSUME NEW s \in SUBSET Note PROVE Cardinality(s) \in Counts
  <2>1. IsFiniteSet(s) /\ Cardinality(s) <= Cardinality(Note) /\ Cardinality(s) \in Nat
    BY <1>1, FS_Subset, FS_CardinalityType
  <2> QED
    BY <1>1, <2>1 DEF Counts
<1>3. 0 \in Counts /\ \A c \in Counts : c # 0 => c - 1 \in Counts
  BY <1>1 DEF Counts
<1>4. Unread \in SUBSET Note /\ \A n \in Note : Unread \cup {n} \in SUBSET Note
  BY DEF Unread
<1> QED
  BY <1>2, <1>3, <1>4 DEF Now

\* What a list is.
LEMMA ListFacts ==
  ASSUME NEW f \in Lists
  PROVE  /\ DOMAIN f \in SUBSET Note
         /\ f \in [DOMAIN f -> {"unread", "read"}]
         /\ \A ids : /\ MarkListed(f, ids) \in Lists
                     /\ DOMAIN MarkListed(f, ids) = DOMAIN f
         /\ \A n \in Note : /\ [m \in DOMAIN f \cup {n} |-> IF m = n THEN "unread" ELSE f[m]] \in Lists
                            /\ [f EXCEPT ![n] = "read"] \in Lists
                            /\ DOMAIN [f EXCEPT ![n] = "read"] = DOMAIN f
<1>1. PICK s \in SUBSET Note : f \in [s -> {"unread", "read"}]
  BY DEF Lists
<1>2. DOMAIN f = s
  BY <1>1
<1>3. ASSUME NEW r \in SUBSET Note, NEW g \in [r -> {"unread", "read"}] PROVE g \in Lists
  BY DEF Lists
<1>4. ASSUME NEW ids PROVE MarkListed(f, ids) \in Lists /\ DOMAIN MarkListed(f, ids) = DOMAIN f
  <2>1. MarkListed(f, ids) \in [s -> {"unread", "read"}]
    BY <1>1, <1>2 DEF MarkListed
  <2> QED
    BY <2>1, <1>2, <1>3
<1>5. ASSUME NEW n \in Note
      PROVE  /\ [m \in DOMAIN f \cup {n} |-> IF m = n THEN "unread" ELSE f[m]] \in Lists
             /\ [f EXCEPT ![n] = "read"] \in Lists
             /\ DOMAIN [f EXCEPT ![n] = "read"] = DOMAIN f
  <2>1. [m \in DOMAIN f \cup {n} |-> IF m = n THEN "unread" ELSE f[m]]
          \in [s \cup {n} -> {"unread", "read"}]
    BY <1>1, <1>2
  <2>2. s \cup {n} \in SUBSET Note
    OBVIOUS
  <2>3. [f EXCEPT ![n] = "read"] \in [s -> {"unread", "read"}]
    BY <1>1
  <2> QED
    BY <2>1, <2>2, <2>3, <1>2, <1>3
<1> QED
  BY <1>1, <1>2, <1>4, <1>5

\* The empty list, and the list of the table.
LEMMA RowsListed ==
  ASSUME row \in [Note -> {"absent", "unread", "read"}]
  PROVE  /\ Absent \in Lists /\ DOMAIN Absent = {}
         /\ Rows \in Lists /\ DOMAIN Rows = {n \in Note : row[n] # "absent"}
<1>1. Absent \in [{} -> {"unread", "read"}] /\ {} \in SUBSET Note
  BY DEF Absent
<1>2. Rows \in [{n \in Note : row[n] # "absent"} -> {"unread", "read"}]
  BY DEF Rows
<1>3. {n \in Note : row[n] # "absent"} \in SUBSET Note
  OBVIOUS
<1> QED
  BY <1>1, <1>2, <1>3 DEF Lists

\* To mark what is not unread changes nothing.
LEMMA MarkedAlready ==
  ASSUME row \in [Note -> {"absent", "unread", "read"}], NEW ids, ids \cap Unread = {}
  PROVE  MarkListed(Rows, ids) = Rows
<1> DEFINE there == {n \in Note : row[n] # "absent"}
<1>1. Rows = [n \in there |-> row[n]] /\ DOMAIN Rows = there
  BY DEF Rows
<1>2. \A n \in there : (IF n \in ids THEN "read" ELSE Rows[n]) = row[n]
  BY <1>1 DEF Unread
<1>3. MarkListed(Rows, ids) = [n \in there |-> IF n \in ids THEN "read" ELSE Rows[n]]
  BY <1>1 DEF MarkListed
<1> QED
  BY <1>1, <1>2, <1>3

\* The UPDATE of a mark does to the table what the mark does to a list.
LEMMA UpdatedRows ==
  ASSUME row \in [Note -> {"absent", "unread", "read"}], NEW ids,
         row' = [n \in Note |-> IF n \in ids /\ row[n] = "unread" THEN "read" ELSE row[n]]
  PROVE  /\ Rows' = MarkListed(Rows, ids)
         /\ MarkListed(Rows', ids) = Rows'
         /\ ids \cap Unread' = {}
<1> DEFINE there == {n \in Note : row[n] # "absent"}
<1>1. Rows = [n \in there |-> row[n]] /\ DOMAIN Rows = there
  BY DEF Rows
<1>2. \A n \in there : (IF n \in ids THEN "read" ELSE Rows[n]) = row'[n]
  BY <1>1
<1>3. MarkListed(Rows, ids) = [n \in there |-> IF n \in ids THEN "read" ELSE Rows[n]]
  BY <1>1 DEF MarkListed
<1>4. there = {n \in Note : row'[n] # "absent"}
  OBVIOUS
<1>5. Rows' = [n \in there |-> row'[n]]
  BY <1>4 DEF Rows
<1>6. Rows' = MarkListed(Rows, ids)
  BY <1>2, <1>3, <1>5
<1>7. ids \cap Unread' = {}
  BY DEF Unread
<1>8. \A n \in there : (IF n \in ids THEN "read" ELSE Rows'[n]) = row'[n]
  BY <1>5
<1>9. MarkListed(Rows', ids) = [n \in there |-> IF n \in ids THEN "read" ELSE Rows'[n]]
  BY <1>5 DEF MarkListed
<1> QED
  BY <1>5, <1>6, <1>7, <1>8, <1>9

\* A commit adds one row to the table.
LEMMA CommittedRows ==
  ASSUME row \in [Note -> {"absent", "unread", "read"}], NEW n \in Note,
         row[n] = "absent", row' = [row EXCEPT ![n] = "unread"]
  PROVE  /\ Rows = Without(n)'
         /\ Unread' = Unread \cup {n}
<1> DEFINE there == {m \in Note : row[m] # "absent"}
<1>1. Rows = [m \in there |-> row[m]] /\ n \notin there
  BY DEF Rows
<1>2. DOMAIN Rows' = there \cup {n}
  BY DEF Rows
<1>3. (DOMAIN Rows') \ {n} = there
  BY <1>1, <1>2
<1>4. \A m \in there : row'[m] = row[m]
  BY <1>1
<1>5. Without(n)' = [m \in there |-> row'[m]]
  BY <1>3 DEF Without
<1> QED
  BY <1>1, <1>4, <1>5 DEF Unread

\* Handling the event of the new row completes the list.
LEMMA NewListed ==
  ASSUME row \in [Note -> {"absent", "unread", "read"}], NEW n \in Note, row[n] = "unread",
         NEW f, f = Rows \/ f = Without(n)
  PROVE  [m \in DOMAIN f \cup {n} |-> IF m = n THEN "unread" ELSE f[m]] = Rows
<1> DEFINE there == {m \in Note : row[m] # "absent"}
<1>1. Rows = [m \in there |-> row[m]] /\ DOMAIN Rows = there /\ n \in there
  BY DEF Rows
<1>2. Without(n) = [m \in there \ {n} |-> row[m]]
  BY <1>1 DEF Without
<1>3. DOMAIN f \cup {n} = there
  BY <1>1, <1>2
<1>4. \A m \in there : (IF m = n THEN "unread" ELSE f[m]) = row[m]
  BY <1>1, <1>2
<1> QED
  BY <1>1, <1>3, <1>4

\* Marking one item that is listed.
LEMMA OneMarked ==
  ASSUME NEW f \in Lists, NEW n \in DOMAIN f
  PROVE  [f EXCEPT ![n] = "read"] = MarkListed(f, {n})
<1>1. f = [m \in DOMAIN f |-> f[m]]
  BY ListFacts
<1> QED
  BY <1>1 DEF MarkListed

-----------------------------------------------------------------------------
(* Queues *)

\* What is sent comes last.
LEMMA SentFacts ==
  ASSUME NEW s \in Seq(Event), NEW e \in Event
  PROVE  /\ Append(s, e) \in Seq(Event) /\ Append(s, e) # <<>>
         /\ Said(Append(s, e)) = Said(s) \cup {e}
         /\ s = <<>> => Head(Append(s, e)) = e /\ Len(Append(s, e)) = 1
<1>1. Len(s) \in Nat
  OBVIOUS
<1>2. /\ Append(s, e) \in Seq(Event) /\ Len(Append(s, e)) = Len(s) + 1
      /\ Append(s, e)[Len(s) + 1] = e
      /\ \A i \in 1..Len(s) : Append(s, e)[i] = s[i]
  OBVIOUS
<1>3. \A i \in 1..(Len(s) + 1) : i \in 1..Len(s) \/ i = Len(s) + 1
  BY <1>1
<1>4. Len(s) + 1 \in 1..(Len(s) + 1) /\ \A i \in 1..Len(s) : i \in 1..(Len(s) + 1)
  BY <1>1
<1>5. Said(Append(s, e)) = Said(s) \cup {e}
  <2>1. ASSUME NEW k \in 1..(Len(s) + 1) PROVE Append(s, e)[k] \in Said(s) \cup {e}
    BY <1>2, <1>3 DEF Said
  <2>2. ASSUME NEW k \in 1..Len(s) PROVE s[k] \in Said(Append(s, e))
    BY <1>2, <1>4 DEF Said
  <2>3. e \in Said(Append(s, e))
    BY <1>2, <1>4 DEF Said
  <2> QED
    BY <2>1, <2>2, <2>3, <1>2 DEF Said
<1>6. Append(s, e) # <<>> /\ (s = <<>> => Head(Append(s, e)) = e /\ Len(Append(s, e)) = 1)
  BY <1>1, <1>2
<1> QED
  BY <1>2, <1>5, <1>6

\* Handling the first event.
LEMMA HandledFacts ==
  ASSUME NEW s \in Seq(Event), s # <<>>
  PROVE  /\ Tail(s) \in Seq(Event)
         /\ Said(Tail(s)) \subseteq Said(s)
         /\ Head(s) \in Event /\ Head(s) \in Said(s)
         /\ Len(s) <= 1 => Tail(s) = <<>>
<1>1. Len(s) \in Nat \ {0} /\ \A i \in 1..Len(s) : s[i] \in Event
  OBVIOUS
<1>2. /\ Tail(s) \in Seq(Event) /\ Len(Tail(s)) = Len(s) - 1 /\ Head(s) = s[1]
      /\ \A i \in 1..Len(Tail(s)) : Tail(s)[i] = s[i + 1]
  BY <1>1
<1>3. ASSUME NEW i \in 1..Len(Tail(s)) PROVE i + 1 \in 1..Len(s)
  BY <1>1, <1>2
<1>4. Said(Tail(s)) \subseteq Said(s)
  BY <1>2, <1>3 DEF Said
<1>5. 1 \in 1..Len(s)
  BY <1>1
<1>6. Head(s) \in Event /\ Head(s) \in Said(s)
  BY <1>1, <1>2, <1>5 DEF Said
<1>7. Len(s) <= 1 => Tail(s) = <<>>
  BY <1>1, <1>2
<1> QED
  BY <1>2, <1>4, <1>6, <1>7

-----------------------------------------------------------------------------
(* The state *)

\* The kinds of requests.
LEMMA ReqKinds ==
  ASSUME Types
  PROVE  /\ Free.op = "none"
         /\ \A q \in Req : \/ req[q] = Free
                           \/ req[q] \in Listing /\ req[q].op = "list"
                           \/ req[q] \in Marking /\ req[q].op = "mark"
         /\ \A q \in Req : req[q].op = "list" => req[q] \in Listing
         /\ \A q \in Req : req[q].op = "mark" => req[q] \in Marking
<1>1. Free.op = "none"
  BY DEF Free
<1>2. \A q \in Req : req[q] \in {Free} \cup Listing \cup Marking
  BY DEF Types, ServerTypes
<1>3. (\A r \in Listing : r.op = "list") /\ (\A r \in Marking : r.op = "mark")
  BY DEF Listing, Marking
<1> QED
  BY <1>1, <1>2, <1>3

\* The parts of a tab.
LEMMA TabFacts ==
  ASSUME Types, NEW t \in Tab
  PROVE  /\ tab[t] \in TabRow
         /\ tab[t].link \in {"closed", "connecting", "joined", "live", "offline"}
         /\ tab[t].items \in Lists /\ tab[t].badge \in Counts /\ tab[t].before \in BOOLEAN
         /\ queue[t] \in Seq(Event)
<1>1. tab[t] \in TabRow /\ queue[t] \in Seq(Event)
  BY DEF Types, TabTypes
<1> QED
  BY <1>1 DEF TabRow

\* When all is calm there is nothing to be settled.
LEMMA CalmFacts ==
  ASSUME IInv, Calm
  PROVE  /\ Idle /\ Still /\ Ordered
         /\ \A n \in Note : ~ Open(n)
         /\ \A t \in Tab : (~ stale[t] /\ tab[t].link # "closed") => Right(t)
<1>1. Idle /\ Still /\ (\A n \in Note : ~ Open(n)) /\ Free.op = "none"
  BY DEF Calm, Idle, Still, Quiet, Open, Free
<1>2. /\ \A t \in Tab, k \in {"connect", "new", "read"} : ~ AtHead(t, k)
      /\ \A q \in Req : req[q].op \notin {"list", "mark"}
  BY <1>1 DEF AtHead, Still, Idle
<1>3. Alone
  <2>1. \A t \in Tab : Len(queue[t]) <= 1
    BY <1>1 DEF Still
  <2>2. \A t \in Tab : Quiet(t) /\ tab[t].link # "joined"
    BY <1>1 DEF Still, Quiet
  <2> QED
    BY <2>1, <2>2, <1>1, <1>2 DEF Alone, Idle
<1>4. WritesOK /\ EventsOK /\ AnswersOK
  BY <1>1, <1>2 DEF WritesOK, EventsOK, AnswersOK, Open
<1>5. ASSUME NEW t \in Tab, ~ stale[t], tab[t].link # "closed" PROVE Right(t)
  <2>1. WillBe(t)
    BY <1>5 DEF IInv, Settling
  <2> QED
    BY <2>1, <1>1, <1>2 DEF WillBe, Loading, NewToCome, ReadToCome, Marks, Still, Quiet, Open
<1> QED
  BY <1>1, <1>3, <1>4, <1>5 DEF Ordered

\* Who is still sure after something has begun: all was calm.
LEMMA StartFacts ==
  ASSUME Types, Starts
  PROVE  /\ stale' \in [Tab -> BOOLEAN]
         /\ \A t \in Tab : ~ stale'[t] => (~ stale[t] /\ Calm)
<1>1. stale \in [Tab -> BOOLEAN] /\ stale' = [t \in Tab |-> stale[t] \/ ~ Calm]
  BY DEF Types, TabTypes, Starts
<1>2. \A t \in Tab : (stale[t] \/ ~ Calm) \in BOOLEAN
  BY <1>1
<1> QED
  BY <1>1, <1>2

\* Who is sure after a tab has begun to load.
LEMMA ReloadFacts ==
  ASSUME Types, NEW t \in Tab, Reloads(t)
  PROVE  /\ stale' \in [Tab -> BOOLEAN]
         /\ \A s \in Tab : ~ stale'[s] => Calm
         /\ \A s \in Tab \ {t} : ~ stale'[s] => ~ stale[s]
<1>1. /\ stale \in [Tab -> BOOLEAN]
      /\ stale' = [s \in Tab |-> IF Calm THEN stale[s] /\ s # t ELSE TRUE]
  BY DEF Types, TabTypes, Reloads
<1>2. \A s \in Tab : (IF Calm THEN stale[s] /\ s # t ELSE TRUE) \in BOOLEAN
  BY <1>1
<1> QED
  BY <1>1, <1>2

-----------------------------------------------------------------------------
\* The invariant holds at first.
LEMMA InitIInv == Init => IInv
<1> SUFFICES ASSUME Init PROVE IInv
  OBVIOUS
<1>1. ServerTypes
  <2>1. row \in [Note -> {"absent", "unread", "read"}]
    BY DEF Init
  <2>2. counted \in [Note -> Counts]
    BY <2>1, CountFacts DEF Init
  <2> QED
    BY <2>1, <2>2 DEF Init, ServerTypes
<1>2. TabTypes
  <2>1. Absent \in Lists /\ 0 \in Counts
    BY <1>1, RowsListed, CountFacts DEF ServerTypes
  <2>2. [link |-> "closed", before |-> FALSE, items |-> Absent, badge |-> 0] \in TabRow
    BY <2>1 DEF TabRow
  <2>3. queue \in [Tab -> Seq(Event)]
    BY DEF Init
  <2> QED
    BY <2>2, <2>3 DEF Init, TabTypes
<1>3. \A t \in Tab : /\ tab[t].link = "closed" /\ ~ tab[t].before /\ queue[t] = <<>>
                     /\ DOMAIN tab[t].items = {} /\ tab[t].badge = 0
  BY RowsListed, <1>1 DEF Init, ServerTypes
<1>4. \A q \in Req : req[q].op = "none"
  BY DEF Init, Free
<1>5. Known
  BY <1>3, <1>4 DEF Init, Known, Said
<1>6. LinkOK
  BY <1>3, <1>4 DEF LinkOK, Joined
<1>7. Settling
  BY <1>3, <1>4 DEF Settling
<1>8. Ordered
  <2>1. \A t \in Tab : Len(queue[t]) <= 1 /\ Quiet(t) /\ \A k \in {"connect", "new", "read"} : ~ AtHead(t, k)
    BY <1>3 DEF Quiet, AtHead
  <2>2. Alone
    BY <2>1, <1>3, <1>4 DEF Alone, Open, Init
  <2> QED
    BY <2>1, <2>2, <1>4 DEF Ordered, WritesOK, EventsOK, AnswersOK, Init
<1> QED
  BY <1>1, <1>2, <1>5, <1>6, <1>7, <1>8 DEF IInv, Types

-----------------------------------------------------------------------------
(* Transactions *)

\* Steps of a transaction that change no row and send nothing.
LEMMA UnseenStep ==
  ASSUME IInv, UNCHANGED <<row, req, queue, tab>>,
         writer' \in [Note -> {"none", "inserted", "counted", "committed", "ended", "rolledBack"}],
         counted' \in [Note -> Counts], stale' \in [Tab -> BOOLEAN],
         \A t \in Tab : stale[t] => stale'[t],
         \A n \in Note : /\ Stored(n) => Stored(n)'
                         /\ writer[n] = "committed" => writer'[n] = "committed",
         Sure' => Alone' /\ WritesOK'
  PROVE  IInv'
<1> USE DEF IInv
<1>1. Rows' = Rows /\ Unread' = Unread /\ Now' = Now
  BY DEF Rows, Unread, Now
<1>2. Types'
  BY DEF Types, ServerTypes, TabTypes
<1>3. Known'
  <2>1. \A q \in Req : req[q].op = "list" => DOMAIN req[q].items \subseteq Note
    BY ReqKinds, ListFacts DEF Listing
  <2>2. \A t \in Tab : \A e \in Said(queue[t]) : e.type = "new" => e.note \in Note
    <3> SUFFICES ASSUME NEW t \in Tab, NEW k \in 1..Len(queue[t]), queue[t][k].type = "new"
                 PROVE  queue[t][k].note \in Note
      BY DEF Said
    <3>1. queue[t][k] \in Event
      BY TabFacts
    <3> QED
      BY <3>1 DEF Event
  <2>3. \A t \in Tab : DOMAIN tab[t].items \subseteq Note
    BY TabFacts, ListFacts
  <2> QED
    BY <2>1, <2>2, <2>3 DEF Known
<1>4. LinkOK'
  BY DEF LinkOK, Joined
<1>5. Sure' => Ordered'
  <2>1. Sure' => Sure
    BY DEF Sure
  <2>2. Sure' => EventsOK' /\ AnswersOK'
    BY <2>1, <1>1 DEF Ordered, EventsOK, AtHead, Idle, AnswersOK, Still, Quiet
  <2> QED
    BY <2>2 DEF Ordered
<1>6. Settling'
  <2> SUFFICES ASSUME NEW t \in Tab, ~ stale'[t]
               PROVE  /\ tab[t].link # "closed" => WillBe(t)'
                      /\ \A q \in Req : (req[q].op = "mark" /\ req[q].tab = t) => Ahead(t, q)'
    BY DEF Settling
  <2>1. ~ stale[t]
    OBVIOUS
  <2>2. WillBe(t) => WillBe(t)'
    BY <1>1 DEF WillBe, Right, Loading, NewToCome, ReadToCome, Marks, AtHead, Without
  <2>3. \A q \in Req : Ahead(t, q) => Ahead(t, q)'
    BY <1>1 DEF Ahead
  <2> QED
    BY <2>1, <2>2, <2>3 DEF Settling
<1> QED
  BY <1>2, <1>3, <1>4, <1>5, <1>6

\* A transaction begins.
LEMMA InsertStep ==
  ASSUME IInv, NEW n \in Note, Insert(n)
  PROVE  IInv'
<1> USE DEF IInv
<1>1. /\ writer[n] = "none" /\ writer' = [writer EXCEPT ![n] = "inserted"] /\ Starts
      /\ UNCHANGED <<row, req, queue, tab>> /\ counted' = counted
  BY DEF Insert
<1>2. /\ writer \in [Note -> {"none", "inserted", "counted", "committed", "ended", "rolledBack"}]
      /\ counted \in [Note -> Counts]
  BY DEF Types, ServerTypes
<1>3. /\ stale' \in [Tab -> BOOLEAN]
      /\ \A t \in Tab : ~ stale'[t] => (~ stale[t] /\ Calm)
  BY <1>1, StartFacts
<1>4. writer'[n] = "inserted" /\ \A m \in Note \ {n} : writer'[m] = writer[m]
  BY <1>1, <1>2
<1>5. ASSUME Sure' PROVE Alone' /\ WritesOK'
  <2>1. Calm
    BY <1>3, <1>5 DEF Sure
  <2>2. Idle /\ Still /\ Ordered /\ \A m \in Note : ~ Open(m)
    BY <2>1, CalmFacts
  <2>3. Idle' /\ Still' /\ \A m \in Note \ {n} : ~ Open(m)'
    BY <2>2, <1>1, <1>4 DEF Idle, Still, Quiet, Open
  <2>4. Alone'
    <3>1. Alone
      BY <2>2 DEF Ordered
    <3>2. \A m \in Note : Open(m)' => /\ \A k \in Note \ {m} : ~ Open(k)'
                                      /\ Idle' /\ Still'
      BY <2>3
    <3> QED
      BY <3>1, <3>2, <1>1 DEF Alone, Quiet, AtHead, Idle
  <2>5. WritesOK'
    BY <2>3, <1>4 DEF WritesOK, Open
  <2> QED
    BY <2>4, <2>5
<1>6. writer' \in [Note -> {"none", "inserted", "counted", "committed", "ended", "rolledBack"}]
  BY <1>1, <1>2
<1>7. \A m \in Note : /\ Stored(m) => Stored(m)'
                      /\ writer[m] = "committed" => writer'[m] = "committed"
  BY <1>1, <1>4 DEF Stored
<1> QED
  BY <1>1, <1>2, <1>3, <1>5, <1>6, <1>7, UnseenStep

\* A transaction counts.
LEMMA CountStep ==
  ASSUME IInv, NEW n \in Note, Count(n)
  PROVE  IInv'
<1> USE DEF IInv
<1>1. /\ writer[n] = "inserted" /\ writer' = [writer EXCEPT ![n] = "counted"]
      /\ counted' = [counted EXCEPT ![n] = Cardinality(Unread \cup {n})]
      /\ UNCHANGED <<row, req, queue, tab>> /\ stale' = stale
  BY DEF Count
<1>2. /\ writer \in [Note -> {"none", "inserted", "counted", "committed", "ended", "rolledBack"}]
      /\ counted \in [Note -> Counts] /\ stale \in [Tab -> BOOLEAN]
      /\ Cardinality(Unread \cup {n}) \in Counts
  BY CountFacts DEF Types, ServerTypes, TabTypes
<1>3. writer'[n] = "counted" /\ \A m \in Note \ {n} : writer'[m] = writer[m]
  BY <1>1, <1>2
<1>4. counted'[n] = Cardinality(Unread \cup {n}) /\ \A m \in Note \ {n} : counted'[m] = counted[m]
  BY <1>1, <1>2
<1>5. ASSUME Sure' PROVE Alone' /\ WritesOK'
  <2>1. Alone /\ WritesOK
    BY <1>1, <1>5 DEF Sure, Ordered
  <2>2. \A m \in Note : Open(m)' <=> Open(m)
    BY <1>1, <1>3 DEF Open
  <2>3. Alone'
    BY <2>1, <2>2, <1>1 DEF Alone, Quiet, AtHead, Idle, Still
  <2>4. Unread' = Unread
    BY <1>1 DEF Unread
  <2>5. WritesOK'
    BY <2>1, <2>4, <1>1, <1>3, <1>4 DEF WritesOK
  <2> QED
    BY <2>3, <2>5
<1>6. writer' \in [Note -> {"none", "inserted", "counted", "committed", "ended", "rolledBack"}]
  BY <1>1, <1>2
<1>7. counted' \in [Note -> Counts]
  BY <1>1, <1>2
<1>8. \A m \in Note : /\ Stored(m) => Stored(m)'
                      /\ writer[m] = "committed" => writer'[m] = "committed"
  BY <1>1, <1>3 DEF Stored
<1> QED
  BY <1>1, <1>2, <1>5, <1>6, <1>7, <1>8, UnseenStep

\* A transaction is rolled back.
LEMMA RollBackStep ==
  ASSUME IInv, NEW n \in Note, RollBack(n)
  PROVE  IInv'
<1> USE DEF IInv
<1>1. /\ writer[n] \in {"inserted", "counted"} /\ writer' = [writer EXCEPT ![n] = "rolledBack"]
      /\ UNCHANGED <<row, req, queue, tab>> /\ stale' = stale /\ counted' = counted
  BY DEF RollBack
<1>2. /\ writer \in [Note -> {"none", "inserted", "counted", "committed", "ended", "rolledBack"}]
      /\ counted \in [Note -> Counts] /\ stale \in [Tab -> BOOLEAN]
  BY DEF Types, ServerTypes, TabTypes
<1>3. writer'[n] = "rolledBack" /\ \A m \in Note \ {n} : writer'[m] = writer[m]
  BY <1>1, <1>2
<1>4. ASSUME Sure' PROVE Alone' /\ WritesOK'
  <2>1. Alone /\ WritesOK
    BY <1>1, <1>4 DEF Sure, Ordered
  <2>2. \A m \in Note : Open(m)' => Open(m)
    BY <1>1, <1>3 DEF Open
  <2>3. Alone'
    BY <2>1, <2>2, <1>1 DEF Alone, Quiet, AtHead, Idle, Still
  <2>4. Unread' = Unread
    BY <1>1 DEF Unread
  <2>5. WritesOK'
    BY <2>1, <2>4, <1>1, <1>3 DEF WritesOK
  <2> QED
    BY <2>3, <2>5
<1>5. writer' \in [Note -> {"none", "inserted", "counted", "committed", "ended", "rolledBack"}]
  BY <1>1, <1>2
<1>6. \A m \in Note : /\ Stored(m) => Stored(m)'
                      /\ writer[m] = "committed" => writer'[m] = "committed"
  BY <1>1, <1>3 DEF Stored
<1> QED
  BY <1>1, <1>2, <1>4, <1>5, <1>6, UnseenStep

\* What is known stays so while writers only move on.
LEMMA KnownKept ==
  ASSUME Types, \A n \in Note : Stored(n) => Stored(n)'
  PROVE  /\ \A q \in Req : (req[q].op = "list" /\ \A n \in DOMAIN req[q].items : Stored(n))
                             => \A n \in DOMAIN req[q].items : Stored(n)'
         /\ \A t \in Tab : (\A e \in Said(queue[t]) : e.type = "new" => Stored(e.note))
                             => \A e \in Said(queue[t]) : e.type = "new" => Stored(e.note)'
         /\ \A t \in Tab : (\A n \in DOMAIN tab[t].items : Stored(n))
                             => \A n \in DOMAIN tab[t].items : Stored(n)'
<1>1. \A q \in Req : req[q].op = "list" => DOMAIN req[q].items \subseteq Note
  BY ReqKinds, ListFacts DEF Listing
<1>2. \A t \in Tab : \A e \in Said(queue[t]) : e.type = "new" => e.note \in Note
  <2> SUFFICES ASSUME NEW t \in Tab, NEW k \in 1..Len(queue[t]), queue[t][k].type = "new"
               PROVE  queue[t][k].note \in Note
    BY DEF Said
  <2>1. queue[t][k] \in Event
    BY TabFacts
  <2> QED
    BY <2>1 DEF Event
<1>3. \A t \in Tab : DOMAIN tab[t].items \subseteq Note
  BY TabFacts, ListFacts
<1> QED
  BY <1>1, <1>2, <1>3

\* A transaction commits: nobody else is doing anything, and a tab that was right
\* lacks just the new row.
LEMMA CommitStep ==
  ASSUME IInv, NEW n \in Note, Commit(n)
  PROVE  IInv'
<1> USE DEF IInv
<1>1. /\ writer[n] = "counted" /\ writer' = [writer EXCEPT ![n] = "committed"]
      /\ row' = [row EXCEPT ![n] = "unread"]
      /\ UNCHANGED <<req, queue, tab>> /\ stale' = stale /\ counted' = counted
  BY DEF Commit
<1>2. Types /\ ServerTypes /\ TabTypes
  BY DEF Types
<1>3. writer'[n] = "committed" /\ \A m \in Note \ {n} : writer'[m] = writer[m]
  BY <1>1, <1>2 DEF ServerTypes
<1>4. row[n] = "absent" /\ row'[n] = "unread" /\ \A m \in Note \ {n} : row'[m] = row[m]
  <2>1. ~ Stored(n)
    BY <1>1 DEF Stored
  <2> QED
    BY <2>1, <1>1, <1>2 DEF ServerTypes, Known
<1>5. Rows = Without(n)' /\ Unread' = Unread \cup {n}
  BY <1>1, <1>2, <1>4, CommittedRows DEF ServerTypes
<1>6. Types'
  BY <1>1, <1>2 DEF Types, ServerTypes, TabTypes
<1>7. \A m \in Note : Stored(m) => Stored(m)'
  BY <1>3 DEF Stored
<1>8. Known'
  <2>1. \A m \in Note : row'[m] # "absent" => Stored(m)'
    <3>1. Stored(n)'
      BY <1>3 DEF Stored
    <3> QED
      BY <3>1, <1>4, <1>7 DEF Known
  <2> QED
    BY <2>1, <1>1, <1>2, <1>7, KnownKept DEF Known
<1>9. LinkOK'
  BY <1>1 DEF LinkOK, Joined
<1>10. ASSUME Sure PROVE Idle /\ Still /\ (\A m \in Note \ {n} : ~ Open(m)) /\ Ordered
  BY <1>1, <1>10 DEF Ordered, Alone, Open
<1>11. ASSUME Sure' PROVE Ordered'
  <2>1. Idle /\ Still /\ (\A m \in Note \ {n} : ~ Open(m)) /\ Ordered
    BY <1>1, <1>10, <1>11 DEF Sure
  <2>2. \A m \in Note : Open(m)' <=> Open(m)
    BY <1>1, <1>3 DEF Open
  <2>3. Alone'
    BY <2>1, <2>2, <1>1 DEF Ordered, Alone, Quiet, AtHead, Idle, Still
  <2>4. WritesOK'
    <3>1. counted[n] = Cardinality(Unread' \cup {n})
      <4>1. Unread' \cup {n} = Unread \cup {n}
        BY <1>5
      <4> QED
        BY <4>1, <2>1, <1>1 DEF Ordered, WritesOK
    <3> QED
      BY <3>1, <2>1, <1>1, <1>3, <1>4 DEF WritesOK, Open
  <2>5. EventsOK' /\ AnswersOK'
    BY <2>1, <1>1, ReqKinds DEF EventsOK, AnswersOK, AtHead, Still, Idle
  <2> QED
    BY <2>3, <2>4, <2>5 DEF Ordered
<1>12. Settling'
  <2> SUFFICES ASSUME NEW t \in Tab, ~ stale[t]
               PROVE  /\ tab[t].link # "closed" => WillBe(t)'
                      /\ \A q \in Req : req[q].op # "mark"
    BY <1>1 DEF Settling
  <2>1. Idle /\ Still /\ (\A m \in Note \ {n} : ~ Open(m))
    BY <1>10 DEF Sure
  <2>2. \A q \in Req : req[q].op \notin {"mark", "list"}
    BY <2>1, <1>2, ReqKinds DEF Idle
  <2>3. ASSUME tab[t].link # "closed" PROVE WillBe(t)'
    <3>1. WillBe(t)
      BY <2>3 DEF Settling
    <3>2. Right(t)
      BY <3>1, <2>1, <2>2, <1>1 DEF WillBe, Loading, NewToCome, ReadToCome, Marks, Still, Quiet,
                                 AtHead, Open
    <3>3. NewToCome(t)'
      BY <3>2, <1>1, <1>3, <1>5 DEF Right, NewToCome
    <3> QED
      BY <3>3 DEF WillBe
  <2> QED
    BY <2>2, <2>3
<1> QED
  BY <1>6, <1>8, <1>9, <1>11, <1>12

\* The task of a notification is deleted: nobody is sure any more.
LEMMA CascadeStep ==
  ASSUME IInv, NEW n \in Note, Cascade(n)
  PROVE  IInv'
<1> USE DEF IInv
<1>1. /\ row' = [row EXCEPT ![n] = "absent"] /\ stale' = [t \in Tab |-> TRUE]
      /\ UNCHANGED <<writer, counted, req, queue, tab>>
  BY DEF Cascade
<1>2. Types /\ ServerTypes /\ TabTypes
  BY DEF Types
<1>3. Types'
  BY <1>1, <1>2 DEF Types, ServerTypes, TabTypes
<1>4. \A m \in Note : row'[m] # "absent" => row'[m] = row[m]
  BY <1>1, <1>2 DEF ServerTypes
<1>5. Known'
  BY <1>1, <1>4 DEF Known, Stored
<1>6. \A t \in Tab : stale'[t]
  BY <1>1
<1>7. LinkOK'
  BY <1>1, <1>6 DEF LinkOK, Joined
<1> QED
  BY <1>3, <1>5, <1>6, <1>7 DEF Sure, Settling

\* What an emission adds to the queues.
LEMMA EmitFacts ==
  ASSUME Types, NEW e \in Event, Emit(e)
  PROVE  /\ queue' \in [Tab -> Seq(Event)]
         /\ \A t \in Tab : /\ Said(queue'[t]) \subseteq Said(queue[t]) \cup {e}
                           /\ ~ Joined(t) => queue'[t] = queue[t]
                           /\ Joined(t) /\ queue[t] = <<>> =>
                                queue'[t] # <<>> /\ Head(queue'[t]) = e /\ Len(queue'[t]) = 1
<1>1. queue' = [t \in Tab |-> IF Joined(t) THEN Append(queue[t], e) ELSE queue[t]]
  BY DEF Emit
<1>2. ASSUME NEW t \in Tab
      PROVE  /\ queue'[t] \in Seq(Event)
             /\ Said(queue'[t]) \subseteq Said(queue[t]) \cup {e}
             /\ ~ Joined(t) => queue'[t] = queue[t]
             /\ Joined(t) /\ queue[t] = <<>> =>
                  queue'[t] # <<>> /\ Head(queue'[t]) = e /\ Len(queue'[t]) = 1
  <2>1. queue[t] \in Seq(Event)
    BY TabFacts
  <2>2. queue'[t] = IF Joined(t) THEN Append(queue[t], e) ELSE queue[t]
    BY <1>1
  <2>3. /\ Append(queue[t], e) \in Seq(Event) /\ Append(queue[t], e) # <<>>
        /\ Said(Append(queue[t], e)) = Said(queue[t]) \cup {e}
        /\ queue[t] = <<>> => Head(Append(queue[t], e)) = e /\ Len(Append(queue[t], e)) = 1
    BY <2>1, SentFacts
  <2>4. CASE Joined(t)
    <3>1. queue'[t] = Append(queue[t], e)
      BY <2>2, <2>4
    <3> QED
      BY <3>1, <2>3, <2>4
  <2>5. CASE ~ Joined(t)
    BY <2>1, <2>2, <2>5
  <2> QED
    BY <2>4, <2>5
<1>3. queue' \in [Tab -> Seq(Event)]
  BY <1>1, <1>2
<1> QED
  BY <1>2, <1>3

\* The event of a new notification goes out to tabs that have nothing else to hear.
LEMMA EmitNewStep ==
  ASSUME IInv, NEW n \in Note, EmitNew(n)
  PROVE  IInv'
<1> USE DEF IInv
<1> DEFINE event == [type |-> "new", note |-> n, count |-> counted[n]]
<1>1. /\ writer[n] = "committed" /\ writer' = [writer EXCEPT ![n] = "ended"]
      /\ Emit(event)
      /\ UNCHANGED <<row, counted, req, tab>> /\ stale' = stale
  BY DEF EmitNew
<1>2. Types /\ ServerTypes /\ TabTypes
  BY DEF Types
<1>3. event \in Event /\ event.type = "new" /\ event.note = n /\ event.count = counted[n]
  <2>1. counted[n] \in Counts
    BY <1>2 DEF ServerTypes
  <2> QED
    BY <2>1 DEF Event
<1> HIDE DEF event
<1>4. /\ queue' \in [Tab -> Seq(Event)]
      /\ \A t \in Tab : /\ Said(queue'[t]) \subseteq Said(queue[t]) \cup {event}
                        /\ ~ Joined(t) => queue'[t] = queue[t]
                        /\ Joined(t) /\ queue[t] = <<>> =>
                             queue'[t] # <<>> /\ Head(queue'[t]) = event /\ Len(queue'[t]) = 1
  BY <1>1, <1>2, <1>3, EmitFacts
<1>5. writer'[n] = "ended" /\ \A m \in Note \ {n} : writer'[m] = writer[m]
  BY <1>1, <1>2 DEF ServerTypes
<1>6. Types'
  BY <1>1, <1>2, <1>4 DEF Types, ServerTypes, TabTypes
<1>7. \A m \in Note : Stored(m) => Stored(m)'
  BY <1>5 DEF Stored
<1>8. Known'
  <2>1. Stored(n)'
    BY <1>5 DEF Stored
  <2>2. \A t \in Tab : \A e \in Said(queue[t]) : e.type = "new" => Stored(e.note)'
    BY <1>2, <1>7, KnownKept DEF Known
  <2>3. \A t \in Tab : \A e \in Said(queue'[t]) : e.type = "new" => Stored(e.note)'
    BY <2>1, <2>2, <1>3, <1>4
  <2> QED
    BY <2>3, <1>1, <1>2, <1>7, KnownKept DEF Known
<1>9. LinkOK'
  BY <1>1, <1>4 DEF LinkOK, Joined
<1>10. ASSUME Sure
       PROVE  /\ Idle /\ Still /\ (\A m \in Note \ {n} : ~ Open(m)) /\ Ordered
              /\ row[n] = "unread" /\ counted[n] = Now
  <2>1. Idle /\ Still /\ (\A m \in Note \ {n} : ~ Open(m)) /\ Ordered
    BY <1>1, <1>10 DEF Ordered, Alone, Open
  <2>2. row[n] = "unread" /\ counted[n] = Cardinality(Unread \cup {n})
    BY <2>1, <1>1 DEF Ordered, WritesOK
  <2>3. Unread \cup {n} = Unread
    BY <2>2 DEF Unread
  <2> QED
    BY <2>1, <2>2, <2>3 DEF Now
<1>11. Rows' = Rows /\ Unread' = Unread /\ Now' = Now
  BY <1>1 DEF Rows, Unread, Now
<1>12. ASSUME Sure, NEW t \in Tab
       PROVE  \/ queue'[t] = <<>>
              \/ queue'[t] # <<>> /\ Head(queue'[t]) = event /\ Len(queue'[t]) = 1
  BY <1>4, <1>10, <1>12 DEF Still
<1>13. ASSUME Sure' PROVE Ordered'
  <2>1. Sure
    BY <1>1, <1>13 DEF Sure
  <2>2. Idle' /\ (\A m \in Note : ~ Open(m)') /\ \A t \in Tab : Quiet(t)'
    BY <2>1, <1>1, <1>5, <1>10 DEF Idle, Open, Still, Quiet
  <2>3. \A t \in Tab : Len(queue'[t]) <= 1 /\ ~ AtHead(t, "connect")' /\ ~ AtHead(t, "read")'
    <3> SUFFICES ASSUME NEW t \in Tab
                 PROVE  Len(queue'[t]) <= 1 /\ ~ AtHead(t, "connect")' /\ ~ AtHead(t, "read")'
      OBVIOUS
    <3>1. CASE queue'[t] = <<>>
      BY <3>1 DEF AtHead
    <3>2. CASE queue'[t] # <<>> /\ Head(queue'[t]) = event /\ Len(queue'[t]) = 1
      BY <3>2, <1>3 DEF AtHead
    <3> QED
      BY <3>1, <3>2, <2>1, <1>12
  <2>4. Alone'
    <3>1. \A t \in Tab : tab'[t].link # "joined"
      BY <2>2 DEF Quiet
    <3> QED
      BY <3>1, <2>2, <2>3 DEF Alone, Idle
  <2>5. WritesOK'
    BY <2>2 DEF WritesOK, Open
  <2>6. EventsOK'
    <3>1. \A t \in Tab : AtHead(t, "new")' => Head(queue'[t]) = event
      BY <2>1, <1>12 DEF AtHead
    <3> QED
      BY <3>1, <2>1, <2>2, <2>3, <1>1, <1>3, <1>10, <1>11 DEF EventsOK
  <2>7. AnswersOK'
    BY <2>2, <1>6, ReqKinds, <1>1, <1>2 DEF AnswersOK, Idle
  <2> QED
    BY <2>4, <2>5, <2>6, <2>7 DEF Ordered
<1>14. Settling'
  <2> SUFFICES ASSUME NEW t \in Tab, ~ stale[t]
               PROVE  /\ tab[t].link # "closed" => WillBe(t)'
                      /\ \A q \in Req : req[q].op # "mark"
    BY <1>1 DEF Settling
  <2>1. Sure
    BY DEF Sure
  <2>2. \A q \in Req : req[q].op \notin {"mark", "list"}
    BY <2>1, <1>2, <1>10, ReqKinds DEF Idle
  <2>3. ASSUME tab[t].link # "closed" PROVE WillBe(t)'
    <3>1. WillBe(t)
      BY <2>3 DEF Settling
    <3>2. Right(t) \/ NewToCome(t)
      BY <3>1, <2>1, <2>2, <1>10 DEF WillBe, Loading, ReadToCome, Marks, Still, Quiet, AtHead
    <3>3. CASE Right(t)
      BY <3>3, <1>1, <1>11 DEF Right, WillBe
    <3>4. CASE NewToCome(t)
      <4>1. tab[t].items = Without(n)
        BY <3>4, <2>1, <1>10 DEF NewToCome, Open, Still, AtHead
      <4>2. Joined(t)
        <5>1. tab[t].link \in {"closed", "connecting", "joined", "live", "offline"}
          BY <1>2, TabFacts
        <5> QED
          BY <5>1, <2>1, <2>3, <1>10 DEF Still, Quiet, LinkOK, Joined
      <4>3. queue'[t] # <<>> /\ Head(queue'[t]) = event
        BY <4>2, <2>1, <1>4, <1>10 DEF Still
      <4>4. Without(n)' = Without(n)
        BY <1>1, <1>11 DEF Without
      <4>5. NewToCome(t)'
        BY <4>1, <4>3, <4>4, <1>1, <1>3 DEF NewToCome, AtHead
      <4> QED
        BY <4>5 DEF WillBe
    <3> QED
      BY <3>2, <3>3, <3>4
  <2> QED
    BY <2>2, <2>3
<1> QED
  BY <1>6, <1>8, <1>9, <1>13, <1>14

-----------------------------------------------------------------------------
(* What the user begins *)

\* What a request that has just been sent looks like.
LEMMA SentRequests ==
  ASSUME Types, NEW t \in Tab
  PROVE  /\ Load(t) \in Listing /\ Load(t).op = "list" /\ Load(t).tab = t
         /\ Load(t).todo = {"items", "count"} /\ DOMAIN Load(t).items = {}
         /\ \A ids \in SUBSET Note :
              /\ Mark(t, ids) \in Marking /\ Mark(t, ids).op = "mark" /\ Mark(t, ids).tab = t
              /\ Mark(t, ids).todo = {"update", "count"} /\ Mark(t, ids).ids = ids
<1>1. 0 \in Counts /\ Absent \in Lists /\ DOMAIN Absent = {}
  BY CountFacts, RowsListed DEF Types, ServerTypes
<1>2. /\ Load(t) \in Listing /\ Load(t).op = "list" /\ Load(t).tab = t
      /\ Load(t).todo = {"items", "count"} /\ DOMAIN Load(t).items = {}
  BY <1>1 DEF Load, Listing
<1>3. ASSUME NEW ids \in SUBSET Note
      PROVE  /\ Mark(t, ids) \in Marking /\ Mark(t, ids).op = "mark" /\ Mark(t, ids).tab = t
             /\ Mark(t, ids).todo = {"update", "count"} /\ Mark(t, ids).ids = ids
  BY <1>1 DEF Mark, Marking
<1> QED
  BY <1>2, <1>3

\* The list is shown for the first time and loads.
LEMMA MountStep ==
  ASSUME IInv, NEW t \in Tab, NEW q \in Req, Mount(t, q)
  PROVE  IInv'
<1> USE DEF IInv
<1>1. /\ tab[t].link = "closed" /\ tab' = [tab EXCEPT ![t].link = "connecting"]
      /\ req[q] = Free /\ req' = [req EXCEPT ![q] = Load(t)] /\ Reloads(t)
      /\ UNCHANGED <<row, writer, counted, queue>>
  BY DEF Mount, Send
<1>2. Types /\ ServerTypes /\ TabTypes
  BY DEF Types
<1>3. /\ Load(t) \in Listing /\ Load(t).op = "list" /\ Load(t).tab = t
      /\ Load(t).todo = {"items", "count"} /\ DOMAIN Load(t).items = {}
  BY <1>2, SentRequests
<1>4. /\ req' \in [Req -> {Free} \cup Listing \cup Marking]
      /\ req'[q] = Load(t) /\ \A p \in Req \ {q} : req'[p] = req[p]
  BY <1>1, <1>2, <1>3 DEF ServerTypes
<1>5. /\ tab' \in [Tab -> TabRow]
      /\ tab'[t].link = "connecting" /\ tab'[t].before = tab[t].before /\ tab'[t].items = tab[t].items
      /\ tab'[t].badge = tab[t].badge
      /\ \A s \in Tab \ {t} : tab'[s] = tab[s]
  <2>1. tab[t] \in TabRow
    BY <1>2, TabFacts
  <2> QED
    BY <2>1, <1>1, <1>2 DEF TabTypes, TabRow
<1>6. /\ stale' \in [Tab -> BOOLEAN]
      /\ \A s \in Tab : ~ stale'[s] => Calm
      /\ \A s \in Tab \ {t} : ~ stale'[s] => ~ stale[s]
  BY <1>1, <1>2, ReloadFacts
<1>7. Types'
  BY <1>1, <1>2, <1>4, <1>5, <1>6 DEF Types, ServerTypes, TabTypes
<1>8. Known'
  <2>1. \A p \in Req : req'[p].op = "list" => \A n \in DOMAIN req'[p].items : Stored(n)
    BY <1>3, <1>4 DEF Known
  <2>2. \A s \in Tab : tab'[s].items = tab[s].items
    BY <1>5
  <2> QED
    BY <2>1, <2>2, <1>1 DEF Known, Stored
<1>9. LinkOK'
  <2>1. \A s \in Tab \ {t} : tab[s].link = "offline" => stale'[s]
    BY <1>6 DEF LinkOK
  <2>2. \A s \in Tab : tab[s].link = "offline" => stale[s]
    BY DEF LinkOK
  <2>3. ~ tab[t].before /\ queue[t] = <<>>
    BY <1>1 DEF LinkOK, Joined
  <2> QED
    BY <2>1, <2>3, <1>1, <1>3, <1>4, <1>5 DEF LinkOK, Joined
<1>10. Rows' = Rows /\ Unread' = Unread /\ Now' = Now
  BY <1>1 DEF Rows, Unread, Now
<1>11. ASSUME Sure' PROVE Ordered'
  <2>1. Calm
    BY <1>6, <1>11 DEF Sure
  <2>2. Idle /\ Still /\ Ordered /\ \A m \in Note : ~ Open(m)
    BY <2>1, CalmFacts
  <2>3. /\ \A s \in Tab : queue'[s] = <<>> /\ \A k : ~ AtHead(s, k)'
        /\ \A s \in Tab \ {t} : Quiet(s)'
        /\ \A m \in Note : ~ Open(m)'
        /\ \A p \in Req \ {q} : req'[p] = Free
    BY <2>2, <1>1, <1>4, <1>5 DEF Idle, Still, Quiet, AtHead, Open
  <2>4. Alone'
    <3>1. \A s \in Tab : Len(queue'[s]) <= 1
      BY <2>3
    <3>2. \A s \in Tab : tab'[s].link # "joined"
      BY <2>3, <1>5 DEF Quiet
    <3> QED
      BY <3>1, <3>2, <2>3, <1>3, <1>4 DEF Alone
  <2>5. WritesOK' /\ EventsOK'
    BY <2>3 DEF WritesOK, EventsOK, Open
  <2>6. AnswersOK'
    BY <2>3, <1>2, <1>3, <1>4, ReqKinds DEF AnswersOK
  <2> QED
    BY <2>4, <2>5, <2>6 DEF Ordered
<1>12. Settling'
  <2> SUFFICES ASSUME NEW s \in Tab, ~ stale'[s]
               PROVE  /\ tab'[s].link # "closed" => WillBe(s)'
                      /\ \A p \in Req : req'[p].op # "mark"
    BY DEF Settling
  <2>1. Calm
    BY <1>6
  <2>2. Idle
    BY <2>1, CalmFacts
  <2>3. \A p \in Req : req'[p].op # "mark"
    BY <2>2, <1>2, <1>3, <1>4, ReqKinds DEF Idle
  <2>4. CASE s = t
    BY <2>3, <2>4, <1>3, <1>4 DEF WillBe, Loading
  <2>5. CASE s # t
    <3>1. tab[s].link # "closed" => Right(s)
      BY <2>1, <2>5, <1>6, CalmFacts
    <3> QED
      BY <3>1, <2>3, <2>5, <1>5, <1>10 DEF WillBe, Right
  <2> QED
    BY <2>4, <2>5
<1> QED
  BY <1>7, <1>8, <1>9, <1>11, <1>12

\* A mark begins, and its tab is ahead of the table.
LEMMA MarkBegins ==
  ASSUME IInv, NEW t \in Tab, NEW q \in Req, NEW ids \in SUBSET Note,
         req[q] = Free, req' = [req EXCEPT ![q] = Mark(t, ids)], Starts,
         UNCHANGED <<row, writer, counted, queue>>,
         tab[t].link # "closed", tab' \in [Tab -> TabRow],
         tab'[t].link = tab[t].link, tab'[t].before = tab[t].before,
         tab'[t].items = MarkListed(tab[t].items, ids),
         \A s \in Tab \ {t} : tab'[s] = tab[s]
  PROVE  IInv'
<1> USE DEF IInv
<1>2. Types /\ ServerTypes /\ TabTypes
  BY DEF Types
<1>3. /\ Mark(t, ids) \in Marking /\ Mark(t, ids).op = "mark" /\ Mark(t, ids).tab = t
      /\ Mark(t, ids).todo = {"update", "count"} /\ Mark(t, ids).ids = ids
  BY <1>2, SentRequests
<1>4. /\ req' \in [Req -> {Free} \cup Listing \cup Marking]
      /\ req'[q] = Mark(t, ids) /\ \A p \in Req \ {q} : req'[p] = req[p]
  BY <1>2, <1>3 DEF ServerTypes
<1>5. /\ stale' \in [Tab -> BOOLEAN]
      /\ \A s \in Tab : ~ stale'[s] => (~ stale[s] /\ Calm)
  BY <1>2, StartFacts
<1>6. Types'
  BY <1>2, <1>4, <1>5 DEF Types, ServerTypes, TabTypes
<1>7. Known'
  <2>1. \A p \in Req : req'[p].op = "list" => \A n \in DOMAIN req'[p].items : Stored(n)
    BY <1>3, <1>4 DEF Known
  <2>2. DOMAIN tab'[t].items = DOMAIN tab[t].items
    BY <1>2, TabFacts, ListFacts
  <2>3. \A s \in Tab : \A n \in DOMAIN tab'[s].items : Stored(n)
    BY <2>2 DEF Known
  <2> QED
    BY <2>1, <2>3 DEF Known, Stored
<1>8. LinkOK'
  <2>1. \A s \in Tab : stale[s] => stale'[s]
    BY <1>5
  <2> QED
    BY <2>1, <1>3, <1>4 DEF LinkOK, Joined
<1>9. Rows' = Rows /\ Unread' = Unread /\ Now' = Now
  BY DEF Rows, Unread, Now
<1>10. ASSUME Sure' PROVE Ordered'
  <2>1. Calm
    BY <1>5, <1>10 DEF Sure
  <2>2. Idle /\ Still /\ Ordered /\ \A m \in Note : ~ Open(m)
    BY <2>1, CalmFacts
  <2>3. /\ \A s \in Tab : queue'[s] = <<>> /\ \A k : ~ AtHead(s, k)'
        /\ \A s \in Tab : Quiet(s)'
        /\ \A m \in Note : ~ Open(m)'
        /\ \A p \in Req \ {q} : req'[p] = Free
    BY <2>2, <1>4 DEF Idle, Still, Quiet, AtHead, Open
  <2>4. Alone'
    <3>1. \A s \in Tab : Len(queue'[s]) <= 1
      BY <2>3
    <3>2. \A s \in Tab : tab'[s].link # "joined"
      BY <2>3 DEF Quiet
    <3> QED
      BY <3>1, <3>2, <2>3, <1>3, <1>4 DEF Alone
  <2>5. WritesOK' /\ EventsOK'
    BY <2>3 DEF WritesOK, EventsOK, Open
  <2>6. AnswersOK'
    <3>1. Still'
      BY <2>3 DEF Still
    <3> QED
      BY <3>1, <2>3, <1>2, <1>3, <1>4, ReqKinds DEF AnswersOK
  <2> QED
    BY <2>4, <2>5, <2>6 DEF Ordered
<1>11. Settling'
  <2> SUFFICES ASSUME NEW s \in Tab, ~ stale'[s]
               PROVE  /\ tab'[s].link # "closed" => WillBe(s)'
                      /\ \A p \in Req : (req'[p].op = "mark" /\ req'[p].tab = s) => Ahead(s, p)'
    BY DEF Settling
  <2>1. Calm /\ ~ stale[s]
    BY <1>5
  <2>2. Idle /\ (tab[s].link # "closed" => Right(s))
    BY <2>1, CalmFacts
  <2>3. \A p \in Req : req'[p].op = "mark" => p = q
    BY <2>2, <1>2, <1>4, ReqKinds DEF Idle
  <2>4. CASE s = t
    <3>1. Marks(s)'
      BY <2>4, <1>3, <1>4 DEF Marks
    <3>2. Ahead(s, q)'
      BY <2>2, <2>4, <1>3, <1>4, <1>9 DEF Ahead, Right
    <3> QED
      BY <3>1, <3>2, <2>3 DEF WillBe
  <2>5. CASE s # t
    <3>1. \A p \in Req : req'[p].op = "mark" => req'[p].tab # s
      BY <2>3, <2>5, <1>3, <1>4
    <3> QED
      BY <3>1, <2>2, <2>5, <1>9 DEF WillBe, Right
  <2> QED
    BY <2>4, <2>5
<1> QED
  BY <1>6, <1>7, <1>8, <1>10, <1>11

\* One item is clicked.
LEMMA MarkReadStep ==
  ASSUME IInv, NEW t \in Tab, NEW n \in Note, NEW q \in Req, MarkRead(t, n, q)
  PROVE  IInv'
<1> USE DEF IInv
<1>1. /\ n \in DOMAIN tab[t].items
      /\ tab' = [tab EXCEPT ![t].items[n] = "read", ![t].badge = IF @ = 0 THEN 0 ELSE @ - 1]
      /\ req[q] = Free /\ req' = [req EXCEPT ![q] = Mark(t, {n})] /\ Starts
      /\ UNCHANGED <<row, writer, counted, queue>>
  BY DEF MarkRead, Send
<1>2. Types /\ ServerTypes /\ TabTypes
  BY DEF Types
<1>3. tab[t] \in TabRow /\ tab[t].items \in Lists /\ tab[t].badge \in Counts
  BY <1>2, TabFacts
<1> DEFINE items == [tab[t].items EXCEPT ![n] = "read"]
           badge == IF tab[t].badge = 0 THEN 0 ELSE tab[t].badge - 1
           shown == [tab[t] EXCEPT !.items = items, !.badge = badge]
<1>4. items \in Lists /\ items = MarkListed(tab[t].items, {n})
  BY <1>1, <1>3, ListFacts, OneMarked
<1>5. badge \in Counts
  BY <1>2, <1>3, CountFacts DEF ServerTypes
<1>6. tab' = [tab EXCEPT ![t] = shown]
  BY <1>1, <1>2, <1>3 DEF TabTypes, TabRow
<1> HIDE DEF items, badge
<1>7. /\ shown \in TabRow /\ shown.link = tab[t].link /\ shown.before = tab[t].before
      /\ shown.items = items
  BY <1>3, <1>4, <1>5 DEF TabRow
<1> HIDE DEF shown
<1>8. /\ tab' \in [Tab -> TabRow] /\ tab'[t] = shown
      /\ \A s \in Tab \ {t} : tab'[s] = tab[s]
  BY <1>2, <1>6, <1>7 DEF TabTypes
<1>9. tab[t].link # "closed"
  BY <1>1 DEF LinkOK
<1>10. {n} \in SUBSET Note
  OBVIOUS
<1> QED
  BY <1>1, <1>4, <1>7, <1>8, <1>9, <1>10, MarkBegins

\* All are marked.
LEMMA MarkAllStep ==
  ASSUME IInv, NEW t \in Tab, NEW q \in Req, MarkAllRead(t, q)
  PROVE  IInv'
<1> USE DEF IInv
<1>1. /\ tab[t].badge # 0
      /\ tab' = [tab EXCEPT ![t].items = MarkListed(@, Note), ![t].badge = 0]
      /\ req[q] = Free /\ req' = [req EXCEPT ![q] = Mark(t, Note)] /\ Starts
      /\ UNCHANGED <<row, writer, counted, queue>>
  BY DEF MarkAllRead, Send
<1>2. Types /\ ServerTypes /\ TabTypes
  BY DEF Types
<1>3. tab[t] \in TabRow /\ tab[t].items \in Lists /\ 0 \in Counts
  BY <1>2, TabFacts, CountFacts DEF ServerTypes
<1> DEFINE items == MarkListed(tab[t].items, Note)
           shown == [tab[t] EXCEPT !.items = items, !.badge = 0]
<1>4. items \in Lists
  BY <1>3, ListFacts
<1>5. tab' = [tab EXCEPT ![t] = shown]
  BY <1>1, <1>2, <1>3 DEF TabTypes, TabRow
<1> HIDE DEF items
<1>6. /\ shown \in TabRow /\ shown.link = tab[t].link /\ shown.before = tab[t].before
      /\ shown.items = items
  BY <1>3, <1>4 DEF TabRow
<1> HIDE DEF shown
<1>7. /\ tab' \in [Tab -> TabRow] /\ tab'[t] = shown
      /\ \A s \in Tab \ {t} : tab'[s] = tab[s]
  BY <1>2, <1>5, <1>6 DEF TabTypes
<1>8. tab[t].link # "closed"
  BY <1>1 DEF LinkOK
<1>9. Note \in SUBSET Note
  OBVIOUS
<1> QED
  BY <1>1, <1>6, <1>7, <1>8, <1>9, MarkBegins DEF items

-----------------------------------------------------------------------------
(* The handlers *)

\* A list is answered in part.
LEMMA ListAnswer ==
  ASSUME IInv, NEW q \in Req, NEW r \in Listing, req[q].op = "list", r.tab = req[q].tab,
         req' = [req EXCEPT ![q] = r],
         UNCHANGED <<row, writer, counted, queue, tab, stale>>,
         \A n \in DOMAIN r.items : Stored(n),
         Sure => /\ "items" \notin r.todo => r.items = Rows
                 /\ "count" \notin r.todo => r.count = Now
  PROVE  IInv'
<1> USE DEF IInv
<1>1. Types /\ ServerTypes /\ TabTypes
  BY DEF Types
<1>2. r.op = "list" /\ Free.op = "none"
  BY DEF Listing, Free
<1>3. /\ req' \in [Req -> {Free} \cup Listing \cup Marking]
      /\ req'[q] = r /\ \A p \in Req \ {q} : req'[p] = req[p]
  BY <1>1 DEF ServerTypes
<1>4. \A p \in Req : /\ req'[p].op = req[p].op
                     /\ req[p].op \in {"list", "mark"} => req'[p].tab = req[p].tab
                     /\ req[p].op = "mark" => req'[p] = req[p]
                     /\ req'[p] = Free <=> req[p] = Free
  BY <1>2, <1>3
<1>5. Types'
  BY <1>1, <1>3 DEF Types, ServerTypes, TabTypes
<1>6. Known'
  <2>1. \A p \in Req : req'[p].op = "list" => \A n \in DOMAIN req'[p].items : Stored(n)
    BY <1>3 DEF Known
  <2> QED
    BY <2>1 DEF Known, Stored
<1>7. LinkOK'
  BY <1>4 DEF LinkOK, Joined
<1>8. Rows' = Rows /\ Unread' = Unread /\ Now' = Now
  BY DEF Rows, Unread, Now
<1>9. ASSUME Sure' PROVE Ordered'
  <2>1. Sure /\ Ordered
    BY <1>9 DEF Sure
  <2>2. Alone'
    BY <2>1, <1>4, ReqKinds DEF Ordered, Alone, Idle, Still, Quiet, AtHead, Open
  <2>3. WritesOK'
    BY <2>1, <1>8 DEF Ordered, WritesOK
  <2>4. EventsOK'
    BY <2>1, <1>4, <1>8 DEF Ordered, EventsOK, AtHead, Idle
  <2>5. AnswersOK'
    BY <2>1, <1>2, <1>3, <1>8 DEF Ordered, AnswersOK, Still, Quiet
  <2> QED
    BY <2>2, <2>3, <2>4, <2>5 DEF Ordered
<1>10. Settling'
  <2> SUFFICES ASSUME NEW s \in Tab, ~ stale[s]
               PROVE  /\ tab[s].link # "closed" => WillBe(s)'
                      /\ \A p \in Req : (req'[p].op = "mark" /\ req'[p].tab = s) => Ahead(s, p)'
    BY DEF Settling
  <2>1. WillBe(s) => WillBe(s)'
    <3>1. Right(s) => Right(s)'
      BY <1>8 DEF Right
    <3>2. Loading(s) => Loading(s)'
      BY <1>4 DEF Loading
    <3>3. NewToCome(s) => NewToCome(s)'
      BY <1>8 DEF NewToCome, AtHead, Without
    <3>4. ReadToCome(s) => ReadToCome(s)'
      BY <1>4, <1>8 DEF ReadToCome, AtHead, MarkListed
    <3>5. Marks(s) => Marks(s)'
      BY <1>4 DEF Marks
    <3> QED
      BY <3>1, <3>2, <3>3, <3>4, <3>5 DEF WillBe
  <2>2. \A p \in Req : (req'[p].op = "mark" /\ req'[p].tab = s) => Ahead(s, p)'
    BY <1>4, <1>8 DEF Settling, Ahead
  <2> QED
    BY <2>1, <2>2 DEF Settling
<1> QED
  BY <1>5, <1>6, <1>7, <1>9, <1>10

\* The items are read.
LEMMA ListItemsStep ==
  ASSUME IInv, NEW q \in Req, ListItems(q)
  PROVE  IInv'
<1> USE DEF IInv
<1> DEFINE r == [req[q] EXCEPT !.todo = @ \ {"items"}, !.items = Rows]
<1>1. Types /\ ServerTypes /\ TabTypes
  BY DEF Types
<1>2. req[q] \in Listing /\ req[q].op = "list"
  <2>1. req[q] # Free /\ "items" \in req[q].todo
    BY DEF ListItems, Handles
  <2>2. req[q] \notin Marking
    BY <2>1 DEF Marking
  <2> QED
    BY <2>1, <2>2, <1>1, ReqKinds
<1>3. Rows \in Lists /\ DOMAIN Rows = {n \in Note : row[n] # "absent"}
  BY <1>1, RowsListed DEF ServerTypes
<1>4. req' = [req EXCEPT ![q] = r] /\ UNCHANGED <<row, writer, counted, queue, tab, stale>>
  BY <1>1, <1>2 DEF ListItems, ServerTypes, Listing
<1>5. /\ r \in Listing /\ r.tab = req[q].tab /\ r.items = Rows /\ r.count = req[q].count
      /\ r.todo = req[q].todo \ {"items"}
  BY <1>2, <1>3 DEF Listing
<1> HIDE DEF r
<1>6. \A n \in DOMAIN r.items : Stored(n)
  BY <1>3, <1>5 DEF Known
<1>7. Sure => /\ "items" \notin r.todo => r.items = Rows
              /\ "count" \notin r.todo => r.count = Now
  BY <1>2, <1>5 DEF Ordered, AnswersOK
<1> QED
  BY <1>2, <1>4, <1>5, <1>6, <1>7, ListAnswer

\* A mark is written: what its tab shows already, the others will have to be told.
LEMMA UpdateStep ==
  ASSUME IInv, NEW q \in Req, UpdateRead(q)
  PROVE  IInv'
<1> USE DEF IInv
<1> DEFINE r == [req[q] EXCEPT !.todo = @ \ {"update"}]
           ids == req[q].ids
<1>1. Types /\ ServerTypes /\ TabTypes
  BY DEF Types
<1>2. req[q] \in Marking /\ req[q].op = "mark" /\ req[q] # Free /\ "update" \in req[q].todo
  <2>1. req[q] # Free /\ "update" \in req[q].todo
    BY DEF UpdateRead, Handles
  <2>2. req[q] \notin Listing
    BY <2>1 DEF Listing
  <2> QED
    BY <2>1, <2>2, <1>1, ReqKinds
<1>3. /\ row' = [n \in Note |-> IF n \in ids /\ row[n] = "unread" THEN "read" ELSE row[n]]
      /\ req' = [req EXCEPT ![q] = r]
      /\ UNCHANGED <<writer, counted, queue, tab, stale>>
  BY <1>1, <1>2 DEF UpdateRead, ServerTypes, Marking
<1>4. /\ r \in Marking /\ r.op = "mark" /\ r.tab = req[q].tab /\ r.ids = ids /\ r.count = req[q].count
      /\ r.todo = req[q].todo \ {"update"}
  BY <1>2 DEF Marking
<1> HIDE DEF r
<1>5. /\ req' \in [Req -> {Free} \cup Listing \cup Marking]
      /\ req'[q] = r /\ \A p \in Req \ {q} : req'[p] = req[p]
  BY <1>1, <1>3, <1>4 DEF ServerTypes
<1>6. row' \in [Note -> {"absent", "unread", "read"}]
  BY <1>1, <1>3 DEF ServerTypes
<1>7. Types'
  BY <1>1, <1>3, <1>5, <1>6 DEF Types, ServerTypes, TabTypes
<1>8. Known'
  <2>1. \A n \in Note : row'[n] # "absent" => row[n] # "absent"
    BY <1>3
  <2>2. \A p \in Req : req'[p].op = "list" => \A n \in DOMAIN req'[p].items : Stored(n)
    BY <1>4, <1>5 DEF Known
  <2> QED
    BY <2>1, <2>2, <1>3 DEF Known, Stored
<1>9. LinkOK'
  BY <1>2, <1>3, <1>4, <1>5 DEF LinkOK, Joined
<1>10. Rows' = MarkListed(Rows, ids) /\ MarkListed(Rows', ids) = Rows' /\ ids \cap Unread' = {}
  BY <1>1, <1>3, UpdatedRows DEF ServerTypes
<1> HIDE DEF ids
<1>11. ASSUME Sure
       PROVE  /\ Ordered /\ Still /\ r.todo = {"count"} /\ (\A n \in Note : ~ Open(n))
              /\ \A p \in Req \ {q} : req[p] = Free
  <2>1. Ordered
    BY <1>11
  <2>2. "count" \in req[q].todo /\ Still
    BY <2>1, <1>2 DEF Ordered, AnswersOK
  <2>3. r.todo = {"count"}
    BY <2>2, <1>2, <1>4 DEF Marking
  <2>4. (\A n \in Note : ~ Open(n)) /\ \A p \in Req \ {q} : req[p] = Free
    BY <2>1, <1>2 DEF Ordered, Alone, Idle
  <2> QED
    BY <2>1, <2>2, <2>3, <2>4
<1>12. ASSUME Sure' PROVE Ordered'
  <2>1. /\ Ordered /\ Still /\ r.todo = {"count"} /\ (\A n \in Note : ~ Open(n))
        /\ \A p \in Req \ {q} : req[p] = Free
    BY <1>3, <1>11, <1>12 DEF Sure
  <2>2. /\ \A s \in Tab : queue'[s] = <<>> /\ \A k : ~ AtHead(s, k)'
        /\ \A s \in Tab : Quiet(s)'
        /\ \A n \in Note : ~ Open(n)'
        /\ \A p \in Req \ {q} : req'[p] = Free
    BY <2>1, <1>3, <1>5 DEF Still, Quiet, AtHead, Open
  <2>3. Alone'
    <3>1. \A s \in Tab : Len(queue'[s]) <= 1
      BY <2>2
    <3>2. \A s \in Tab : tab'[s].link # "joined"
      BY <2>2 DEF Quiet
    <3> QED
      BY <3>1, <3>2, <2>2 DEF Alone
  <2>4. WritesOK' /\ EventsOK'
    BY <2>2 DEF WritesOK, EventsOK, Open
  <2>5. AnswersOK'
    <3>1. Still'
      BY <2>2 DEF Still
    <3> QED
      BY <3>1, <2>1, <2>2, <1>1, <1>4, <1>5, <1>10, ReqKinds DEF AnswersOK
  <2> QED
    BY <2>3, <2>4, <2>5 DEF Ordered
<1>13. Settling'
  <2> SUFFICES ASSUME NEW s \in Tab, ~ stale[s]
               PROVE  /\ tab[s].link # "closed" => WillBe(s)'
                      /\ \A p \in Req : (req'[p].op = "mark" /\ req'[p].tab = s) => Ahead(s, p)'
    BY <1>3 DEF Settling
  <2>1. /\ Ordered /\ Still /\ r.todo = {"count"} /\ (\A n \in Note : ~ Open(n))
        /\ \A p \in Req \ {q} : req[p] = Free
    BY <1>11 DEF Sure
  <2>2. \A p \in Req \ {q} : req'[p].op = "none" /\ req[p].op = "none"
    BY <2>1, <1>1, <1>5, ReqKinds
  <2>3. CASE s = req[q].tab
    <3>1. Marks(s)'
      BY <2>3, <1>4, <1>5 DEF Marks
    <3>2. Ahead(s, q)'
      <4>1. tab[s].items = MarkListed(Rows, ids)
        BY <2>3, <1>2 DEF Settling, Ahead, ids
      <4> QED
        BY <4>1, <1>3, <1>4, <1>5, <1>10 DEF Ahead
    <3> QED
      BY <3>1, <3>2, <2>2 DEF WillBe
  <2>4. CASE s # req[q].tab
    <3>1. \A p \in Req : (req'[p].op = "mark" /\ req'[p].tab = s) => FALSE
      BY <2>2, <2>4, <1>4, <1>5
    <3>2. ASSUME tab[s].link # "closed" PROVE WillBe(s)'
      <4>1. WillBe(s)
        BY <3>2 DEF Settling
      <4>2. ~ Loading(s) /\ ~ Marks(s)
        BY <2>2, <2>4, <1>2 DEF Loading, Marks
      <4>3. ~ NewToCome(s) /\ ~ (tab[s].link = "joined")
        BY <2>1 DEF NewToCome, Open, Still, AtHead, Quiet
      <4>4. ~ ReadToCome(s)
        BY <2>1, <2>2, <1>2 DEF ReadToCome, Still, AtHead
      <4>5. tab[s].items = Rows
        BY <4>1, <4>2, <4>3, <4>4 DEF WillBe, Right
      <4>6. ReadToCome(s)'
        BY <4>5, <2>1, <2>4, <1>3, <1>4, <1>5, <1>10 DEF ReadToCome
      <4> QED
        BY <4>6 DEF WillBe
    <3> QED
      BY <3>1, <3>2
  <2> QED
    BY <2>3, <2>4
<1> QED
  BY <1>7, <1>8, <1>9, <1>12, <1>13

\* The count of a list is read.
LEMMA ListCountStep ==
  ASSUME IInv, NEW q \in Req, CountUnread(q), req[q].op = "list"
  PROVE  IInv'
<1> USE DEF IInv
<1> DEFINE r == [req[q] EXCEPT !.todo = @ \ {"count"}, !.count = Now]
<1>1. Types /\ ServerTypes /\ TabTypes
  BY DEF Types
<1>2. req[q] \in Listing
  BY <1>1, ReqKinds
<1>3. Now \in Counts
  BY <1>1, CountFacts DEF ServerTypes
<1>4. req' = [req EXCEPT ![q] = r] /\ UNCHANGED <<row, writer, counted, queue, tab, stale>>
  BY <1>1, <1>2 DEF CountUnread, ServerTypes, Listing, Now
<1>5. /\ r \in Listing /\ r.tab = req[q].tab /\ r.items = req[q].items /\ r.count = Now
      /\ r.todo = req[q].todo \ {"count"}
  BY <1>2, <1>3 DEF Listing
<1> HIDE DEF r
<1>6. \A n \in DOMAIN r.items : Stored(n)
  BY <1>5 DEF Known
<1>7. Sure => /\ "items" \notin r.todo => r.items = Rows
              /\ "count" \notin r.todo => r.count = Now
  BY <1>5 DEF Ordered, AnswersOK
<1> QED
  BY <1>2, <1>4, <1>5, <1>6, <1>7, ListAnswer

\* The count of a mark is read, and all tabs are told of the mark.
LEMMA MarkCountStep ==
  ASSUME IInv, NEW q \in Req, CountUnread(q), req[q].op = "mark"
  PROVE  IInv'
<1> USE DEF IInv
<1> DEFINE r == [req[q] EXCEPT !.todo = @ \ {"count"}, !.count = Now]
           event == [type |-> "read", ids |-> req[q].ids, count |-> Now]
<1>1. Types /\ ServerTypes /\ TabTypes
  BY DEF Types
<1>2. req[q] \in Marking /\ req[q] # Free /\ "count" \in req[q].todo /\ "update" \notin req[q].todo
  BY <1>1, ReqKinds DEF CountUnread, Handles
<1>3. Now \in Counts
  BY <1>1, CountFacts DEF ServerTypes
<1>4. /\ req' = [req EXCEPT ![q] = r] /\ Emit(event)
      /\ UNCHANGED <<row, writer, counted, tab, stale>>
  BY <1>1, <1>2 DEF CountUnread, EmitRead, ServerTypes, Marking, Now
<1>5. /\ r \in Marking /\ r.op = "mark" /\ r.tab = req[q].tab /\ r.ids = req[q].ids
      /\ r.count = Now /\ r.todo = {}
  BY <1>2, <1>3 DEF Marking
<1>6. event \in Event /\ event.type = "read" /\ event.ids = req[q].ids /\ event.count = Now
  BY <1>2, <1>3 DEF Event, Marking
<1> HIDE DEF r, event
<1>7. /\ req' \in [Req -> {Free} \cup Listing \cup Marking]
      /\ req'[q] = r /\ \A p \in Req \ {q} : req'[p] = req[p]
  BY <1>1, <1>4, <1>5 DEF ServerTypes
<1>8. /\ queue' \in [Tab -> Seq(Event)]
      /\ \A t \in Tab : /\ Said(queue'[t]) \subseteq Said(queue[t]) \cup {event}
                        /\ ~ Joined(t) => queue'[t] = queue[t]
                        /\ Joined(t) /\ queue[t] = <<>> =>
                             queue'[t] # <<>> /\ Head(queue'[t]) = event /\ Len(queue'[t]) = 1
  BY <1>1, <1>4, <1>6, EmitFacts
<1>9. Types'
  BY <1>1, <1>4, <1>7, <1>8 DEF Types, ServerTypes, TabTypes
<1>10. Known'
  <2>1. \A p \in Req : req'[p].op = "list" => \A n \in DOMAIN req'[p].items : Stored(n)
    BY <1>5, <1>7 DEF Known
  <2>2. \A t \in Tab : \A e \in Said(queue'[t]) : e.type = "new" => Stored(e.note)
    BY <1>6, <1>8 DEF Known
  <2> QED
    BY <2>1, <2>2, <1>4 DEF Known, Stored
<1>11. LinkOK'
  BY <1>4, <1>5, <1>7, <1>8 DEF LinkOK, Joined
<1>12. Rows' = Rows /\ Unread' = Unread /\ Now' = Now
  BY <1>4 DEF Rows, Unread, Now
<1>13. ASSUME Sure
       PROVE  /\ Ordered /\ Still /\ (\A n \in Note : ~ Open(n))
              /\ req[q].todo = {"count"} /\ req[q].ids \cap Unread = {}
              /\ \A p \in Req \ {q} : req[p] = Free
  <2>1. Ordered
    BY <1>13
  <2>2. Still /\ req[q].ids \cap Unread = {}
    BY <2>1, <1>2 DEF Ordered, AnswersOK
  <2>3. req[q].todo = {"count"}
    BY <1>2 DEF Marking
  <2>4. (\A n \in Note : ~ Open(n)) /\ \A p \in Req \ {q} : req[p] = Free
    BY <2>1, <1>2 DEF Ordered, Alone, Idle
  <2> QED
    BY <2>1, <2>2, <2>3, <2>4
<1>14. ASSUME Sure, NEW t \in Tab
       PROVE  \/ queue'[t] = <<>>
              \/ queue'[t] # <<>> /\ Head(queue'[t]) = event /\ Len(queue'[t]) = 1
  BY <1>8, <1>13, <1>14 DEF Still
<1>15. ASSUME Sure' PROVE Ordered'
  <2>1. Sure
    BY <1>4, <1>15 DEF Sure
  <2>2. /\ Ordered /\ Still /\ (\A n \in Note : ~ Open(n))
        /\ req[q].todo = {"count"} /\ req[q].ids \cap Unread = {}
        /\ \A p \in Req \ {q} : req[p] = Free
    BY <2>1, <1>13
  <2>3. /\ \A n \in Note : ~ Open(n)'
        /\ \A t \in Tab : Quiet(t)'
        /\ \A p \in Req \ {q} : req'[p] = Free
    BY <2>2, <1>4, <1>7 DEF Still, Quiet, Open
  <2>4. \A t \in Tab : Len(queue'[t]) <= 1 /\ ~ AtHead(t, "connect")' /\ ~ AtHead(t, "new")'
    <3> SUFFICES ASSUME NEW t \in Tab
                 PROVE  Len(queue'[t]) <= 1 /\ ~ AtHead(t, "connect")' /\ ~ AtHead(t, "new")'
      OBVIOUS
    <3>1. CASE queue'[t] = <<>>
      BY <3>1 DEF AtHead
    <3>2. CASE queue'[t] # <<>> /\ Head(queue'[t]) = event /\ Len(queue'[t]) = 1
      BY <3>2, <1>6 DEF AtHead
    <3> QED
      BY <3>1, <3>2, <2>1, <1>14
  <2>5. Alone'
    <3>1. \A t \in Tab : tab'[t].link # "joined"
      BY <2>3 DEF Quiet
    <3> QED
      BY <3>1, <2>3, <2>4 DEF Alone
  <2>6. WritesOK'
    BY <2>3 DEF WritesOK, Open
  <2>7. EventsOK'
    <3>1. \A t \in Tab : AtHead(t, "read")' => Head(queue'[t]) = event
      BY <2>1, <1>14 DEF AtHead
    <3>2. \A p \in Req : req'[p].op = "mark" => "update" \notin req'[p].todo
      BY <2>3, <1>1, <1>5, <1>7, ReqKinds
    <3> QED
      BY <3>1, <3>2, <2>2, <2>4, <1>6, <1>12 DEF EventsOK
  <2>8. AnswersOK'
    BY <2>2, <2>3, <1>1, <1>5, <1>7, <1>12, ReqKinds DEF AnswersOK
  <2> QED
    BY <2>5, <2>6, <2>7, <2>8 DEF Ordered
<1>16. Settling'
  <2> SUFFICES ASSUME NEW s \in Tab, ~ stale[s]
               PROVE  /\ tab[s].link # "closed" => WillBe(s)'
                      /\ \A p \in Req : (req'[p].op = "mark" /\ req'[p].tab = s) => Ahead(s, p)'
    BY <1>4 DEF Settling
  <2>1. Sure
    BY DEF Sure
  <2>2. /\ Ordered /\ Still /\ (\A n \in Note : ~ Open(n))
        /\ req[q].todo = {"count"} /\ req[q].ids \cap Unread = {}
        /\ \A p \in Req \ {q} : req[p] = Free
    BY <2>1, <1>13
  <2>3. \A p \in Req \ {q} : req'[p].op = "none" /\ req[p].op = "none"
    BY <2>2, <1>1, <1>7, ReqKinds
  <2>4. CASE s = req[q].tab
    <3>1. Marks(s)'
      BY <2>4, <1>5, <1>7 DEF Marks
    <3>2. Ahead(s, q)'
      <4>1. tab[s].items = MarkListed(Rows, req[q].ids)
        BY <2>4 DEF Settling, Ahead
      <4> QED
        BY <4>1, <1>4, <1>5, <1>7, <1>12 DEF Ahead
    <3> QED
      BY <3>1, <3>2, <2>3 DEF WillBe
  <2>5. CASE s # req[q].tab
    <3>1. \A p \in Req : (req'[p].op = "mark" /\ req'[p].tab = s) => FALSE
      BY <2>3, <2>5, <1>5, <1>7
    <3>2. ASSUME tab[s].link # "closed" PROVE WillBe(s)'
      <4>1. WillBe(s)
        BY <3>2 DEF Settling
      <4>2. ~ Loading(s) /\ ~ Marks(s)
        BY <2>3, <2>5 DEF Loading, Marks
      <4>3. ~ NewToCome(s) /\ ~ (tab[s].link = "joined")
        BY <2>2 DEF NewToCome, Open, Still, AtHead, Quiet
      <4>4. CASE Right(s)
        BY <4>4, <1>4, <1>12 DEF WillBe, Right
      <4>5. CASE ReadToCome(s)
        <5>1. MarkListed(tab[s].items, req[q].ids) = Rows
          BY <4>5, <2>2, <2>3 DEF ReadToCome, Still, AtHead
        <5>2. Joined(s)
          <6>1. tab[s].link \in {"closed", "connecting", "joined", "live", "offline"}
            BY <1>1, TabFacts
          <6> QED
            BY <6>1, <2>2, <3>2 DEF Still, Quiet, LinkOK, Joined
        <5>3. queue'[s] # <<>> /\ Head(queue'[s]) = event
          BY <5>2, <2>2, <1>8 DEF Still
        <5>4. ReadToCome(s)'
          BY <5>1, <5>3, <1>4, <1>6, <1>12 DEF ReadToCome, AtHead
        <5> QED
          BY <5>4 DEF WillBe
      <4> QED
        BY <4>1, <4>2, <4>3, <4>4, <4>5 DEF WillBe
    <3> QED
      BY <3>1, <3>2
  <2> QED
    BY <2>4, <2>5
<1> QED
  BY <1>9, <1>10, <1>11, <1>15, <1>16

-----------------------------------------------------------------------------
(* Responses *)

\* With a request less, what is ordered stays so.
LEMMA OneLess ==
  ASSUME Types, Ordered, NEW q \in Req, req' = [req EXCEPT ![q] = Free],
         UNCHANGED <<row, writer, counted, queue>>,
         \A t \in Tab : tab'[t].link = tab[t].link /\ tab'[t].before = tab[t].before
  PROVE  Ordered'
<1>1. /\ req'[q] = Free /\ Free.op = "none" /\ \A p \in Req \ {q} : req'[p] = req[p]
  BY DEF Types, ServerTypes, Free
<1>2. \A p \in Req : req'[p] # Free => (p # q /\ req'[p] = req[p])
  BY <1>1
<1>3. \A p \in Req : req'[p].op \in {"list", "mark"} => (p # q /\ req'[p] = req[p])
  BY <1>1
<1>4. Rows' = Rows /\ Unread' = Unread /\ Now' = Now
  BY DEF Rows, Unread, Now
<1>5. (Idle => Idle') /\ (Still => Still') /\ \A t \in Tab : Quiet(t)' <=> Quiet(t)
  BY <1>2 DEF Idle, Still, Quiet
<1>6. Alone'
  <2>1. \A n \in Note : Open(n)' <=> Open(n)
    BY DEF Open
  <2>2. \A t \in Tab, k \in {"connect", "new", "read"} : AtHead(t, k)' <=> AtHead(t, k)
    BY DEF AtHead
  <2> QED
    BY <2>1, <2>2, <1>2, <1>5 DEF Ordered, Alone
<1>7. WritesOK'
  BY <1>4 DEF Ordered, WritesOK
<1>8. EventsOK'
  BY <1>3, <1>4, <1>5 DEF Ordered, EventsOK, AtHead
<1>9. AnswersOK'
  BY <1>3, <1>4, <1>5 DEF Ordered, AnswersOK
<1> QED
  BY <1>6, <1>7, <1>8, <1>9 DEF Ordered

\* What other tabs wait for does not depend on a request of this one that is over.
LEMMA OthersWait ==
  ASSUME Types, NEW q \in Req, NEW s \in Tab, req' = [req EXCEPT ![q] = Free],
         UNCHANGED <<row, writer, counted, queue>>, tab'[s] = tab[s],
         req[q].op \in {"list", "mark"}, req[q].tab # s,
         req[q].op = "mark" => req[q].todo # {"count"}
  PROVE  /\ WillBe(s) => WillBe(s)'
         /\ \A p \in Req : (req'[p].op = "mark" /\ req'[p].tab = s) =>
                             /\ req[p].op = "mark" /\ req[p].tab = s
                             /\ Ahead(s, p) => Ahead(s, p)'
<1>1. /\ req'[q] = Free /\ Free.op = "none" /\ \A p \in Req \ {q} : req'[p] = req[p]
  BY DEF Types, ServerTypes, Free
<1>2. Rows' = Rows /\ Unread' = Unread /\ Now' = Now
  BY DEF Rows, Unread, Now
<1>3. Right(s) => Right(s)'
  BY <1>2 DEF Right
<1>4. ASSUME Loading(s) PROVE Loading(s)'
  <2>1. PICK p \in Req : req[p].op = "list" /\ req[p].tab = s
    BY <1>4 DEF Loading
  <2>2. p # q
    BY <2>1
  <2>3. req'[p] = req[p]
    BY <2>2, <1>1
  <2> QED
    BY <2>1, <2>3 DEF Loading
<1>5. NewToCome(s) => NewToCome(s)'
  <2>1. \A n : Without(n)' = Without(n)
    BY <1>2 DEF Without
  <2>2. writer' = writer /\ queue'[s] = queue[s]
    OBVIOUS
  <2> QED
    BY <2>1, <2>2 DEF NewToCome, AtHead
<1>6. ReadToCome(s) => ReadToCome(s)'
  BY <1>1, <1>2 DEF ReadToCome, AtHead, MarkListed
<1>7. Marks(s) => Marks(s)'
  BY <1>1 DEF Marks
<1>8. \A p \in Req : (req'[p].op = "mark" /\ req'[p].tab = s) => p # q
  BY <1>1
<1> QED
  BY <1>1, <1>2, <1>3, <1>4, <1>5, <1>6, <1>7, <1>8 DEF WillBe, Ahead

\* A tab takes what its request was answered.
LEMMA RespondStep ==
  ASSUME IInv, NEW q \in Req, Respond(q)
  PROVE  IInv'
<1> USE DEF IInv
<1> DEFINE t == req[q].tab
           shown == [tab[t] EXCEPT !.badge = req[q].count,
                                   !.items = IF req[q].op = "list" THEN req[q].items ELSE @]
<1>1. Types /\ ServerTypes /\ TabTypes
  BY DEF Types
<1>2. /\ req[q] # Free /\ req[q].todo = {} /\ req' = [req EXCEPT ![q] = Free]
      /\ UNCHANGED <<row, writer, counted, queue, stale>>
  BY DEF Respond
<1>3. /\ req[q].op \in {"list", "mark"} /\ t \in Tab /\ req[q].count \in Counts
      /\ req[q].op = "list" => req[q].items \in Lists
  BY <1>1, <1>2, ReqKinds DEF Listing, Marking
<1>4. tab[t] \in TabRow /\ tab[t].items \in Lists
  BY <1>1, <1>3, TabFacts
<1>5. tab' = [tab EXCEPT ![t] = shown]
  BY <1>1, <1>3, <1>4 DEF Respond, TabTypes, TabRow
<1>6. /\ shown \in TabRow /\ shown.link = tab[t].link /\ shown.before = tab[t].before
      /\ shown.badge = req[q].count
      /\ shown.items = IF req[q].op = "list" THEN req[q].items ELSE tab[t].items
  BY <1>3, <1>4 DEF TabRow
<1> HIDE DEF shown
<1>7. /\ tab' \in [Tab -> TabRow] /\ tab'[t] = shown
      /\ \A s \in Tab \ {t} : tab'[s] = tab[s]
  BY <1>1, <1>3, <1>5, <1>6 DEF TabTypes
<1>8. /\ req' \in [Req -> {Free} \cup Listing \cup Marking]
      /\ req'[q] = Free /\ Free.op = "none" /\ \A p \in Req \ {q} : req'[p] = req[p]
  BY <1>1, <1>2 DEF ServerTypes, Free
<1>9. Types'
  BY <1>1, <1>2, <1>7, <1>8 DEF Types, ServerTypes, TabTypes
<1>10. Known'
  <2>1. \A p \in Req : req'[p].op = "list" => \A n \in DOMAIN req'[p].items : Stored(n)
    BY <1>8 DEF Known
  <2>2. \A s \in Tab : \A n \in DOMAIN tab'[s].items : Stored(n)
    BY <1>3, <1>6, <1>7 DEF Known
  <2> QED
    BY <2>1, <2>2, <1>2 DEF Known, Stored
<1>11. tab[t].link # "closed"
  BY <1>3 DEF LinkOK
<1>12. \A s \in Tab : tab'[s].link = tab[s].link /\ tab'[s].before = tab[s].before
  BY <1>6, <1>7
<1>13. LinkOK'
  <2>1. \A s \in Tab : tab[s].link = "closed" => tab'[s] = tab[s]
    BY <1>7, <1>11
  <2> QED
    BY <2>1, <1>2, <1>8, <1>12 DEF LinkOK, Joined
<1>14. Sure' => Ordered'
  BY <1>1, <1>2, <1>12, OneLess DEF Sure
<1>15. Rows' = Rows /\ Unread' = Unread /\ Now' = Now
  BY <1>2 DEF Rows, Unread, Now
<1>16. Settling'
  <2> SUFFICES ASSUME NEW s \in Tab, ~ stale[s]
               PROVE  /\ tab'[s].link # "closed" => WillBe(s)'
                      /\ \A p \in Req : (req'[p].op = "mark" /\ req'[p].tab = s) => Ahead(s, p)'
    BY <1>2 DEF Settling
  <2>1. Ordered
    BY DEF Sure
  <2>2. CASE s = t
    <3>1. \A p \in Req : req'[p].op # "mark"
      BY <2>1, <1>2, <1>8 DEF Ordered, Alone
    <3>2. shown.badge = Now
      BY <2>1, <1>2, <1>3, <1>6 DEF Ordered, AnswersOK
    <3>3. shown.items = Rows
      <4>1. CASE req[q].op = "list"
        BY <4>1, <2>1, <1>2, <1>6 DEF Ordered, AnswersOK
      <4>2. CASE req[q].op = "mark"
        <5>1. tab[s].items = MarkListed(Rows, req[q].ids)
          BY <4>2, <2>2 DEF Settling, Ahead
        <5>2. req[q].ids \cap Unread = {}
          BY <4>2, <2>1, <1>2 DEF Ordered, AnswersOK
        <5>3. MarkListed(Rows, req[q].ids) = Rows
          BY <5>2, <1>1, MarkedAlready DEF ServerTypes
        <5> QED
          BY <5>1, <5>3, <4>2, <2>2, <1>6
      <4> QED
        BY <4>1, <4>2, <1>3
    <3>4. Right(s)'
      BY <3>2, <3>3, <2>2, <1>7, <1>15 DEF Right
    <3> QED
      BY <3>1, <3>4 DEF WillBe
  <2>3. CASE s # t
    <3>1. /\ WillBe(s) => WillBe(s)'
          /\ \A p \in Req : (req'[p].op = "mark" /\ req'[p].tab = s) =>
                              /\ req[p].op = "mark" /\ req[p].tab = s
                              /\ Ahead(s, p) => Ahead(s, p)'
      BY <2>3, <1>1, <1>2, <1>3, <1>7, OthersWait
    <3> QED
      BY <3>1, <2>3, <1>7 DEF Settling
  <2> QED
    BY <2>2, <2>3
<1> QED
  BY <1>9, <1>10, <1>13, <1>14, <1>16

\* A list is not answered: its tab knows that it may be stale.
LEMMA ListFails ==
  ASSUME IInv, NEW q \in Req, req[q].op = "list", req' = [req EXCEPT ![q] = Free],
         stale' = [stale EXCEPT ![req[q].tab] = TRUE],
         UNCHANGED <<row, writer, counted, queue, tab>>
  PROVE  IInv'
<1> USE DEF IInv
<1>1. Types /\ ServerTypes /\ TabTypes
  BY DEF Types
<1>2. req[q].tab \in Tab
  BY <1>1, ReqKinds DEF Listing
<1>3. /\ stale' \in [Tab -> BOOLEAN] /\ stale'[req[q].tab]
      /\ \A s \in Tab \ {req[q].tab} : stale'[s] = stale[s]
  BY <1>1, <1>2 DEF TabTypes
<1>4. /\ req' \in [Req -> {Free} \cup Listing \cup Marking]
      /\ req'[q] = Free /\ Free.op = "none" /\ \A p \in Req \ {q} : req'[p] = req[p]
  BY <1>1 DEF ServerTypes, Free
<1>5. Types'
  BY <1>1, <1>3, <1>4 DEF Types, ServerTypes, TabTypes
<1>6. Known'
  <2>1. \A p \in Req : req'[p].op = "list" => \A n \in DOMAIN req'[p].items : Stored(n)
    BY <1>4 DEF Known
  <2> QED
    BY <2>1 DEF Known, Stored
<1>7. LinkOK'
  <2>1. \A s \in Tab : stale[s] => stale'[s]
    BY <1>3
  <2> QED
    BY <2>1, <1>4 DEF LinkOK, Joined
<1>8. Sure' => Ordered'
  <2>1. Sure' => Sure
    BY <1>3 DEF Sure
  <2> QED
    BY <2>1, <1>1, OneLess
<1>9. Settling'
  <2> SUFFICES ASSUME NEW s \in Tab, ~ stale'[s]
               PROVE  /\ tab[s].link # "closed" => WillBe(s)'
                      /\ \A p \in Req : (req'[p].op = "mark" /\ req'[p].tab = s) => Ahead(s, p)'
    BY DEF Settling
  <2>1. s # req[q].tab /\ ~ stale[s]
    BY <1>3
  <2>2. /\ WillBe(s) => WillBe(s)'
        /\ \A p \in Req : (req'[p].op = "mark" /\ req'[p].tab = s) =>
                            /\ req[p].op = "mark" /\ req[p].tab = s
                            /\ Ahead(s, p) => Ahead(s, p)'
    BY <2>1, <1>1, OthersWait
  <2> QED
    BY <2>1, <2>2 DEF Settling
<1> QED
  BY <1>5, <1>6, <1>7, <1>8, <1>9

\* A mark is not answered: its tab loads the list, and the others may be stale if
\* they were to be told.
LEMMA MarkFails ==
  ASSUME IInv, NEW q \in Req, req[q].op = "mark", req' = [req EXCEPT ![q] = Load(req[q].tab)],
         stale' = [s \in Tab |-> stale[s] \/ (req[q].todo = {"count"} /\ s # req[q].tab)],
         UNCHANGED <<row, writer, counted, queue, tab>>
  PROVE  IInv'
<1> USE DEF IInv
<1> DEFINE t == req[q].tab
<1>1. Types /\ ServerTypes /\ TabTypes
  BY DEF Types
<1>2. t \in Tab /\ req[q] # Free /\ req[q].op = "mark"
  BY <1>1, ReqKinds DEF Marking
<1>3. /\ Load(t) \in Listing /\ Load(t).op = "list" /\ Load(t).tab = t
      /\ Load(t).todo = {"items", "count"} /\ DOMAIN Load(t).items = {}
  BY <1>1, <1>2, SentRequests
<1>4. /\ req' \in [Req -> {Free} \cup Listing \cup Marking]
      /\ req'[q] = Load(t) /\ \A p \in Req \ {q} : req'[p] = req[p]
  BY <1>1, <1>3 DEF ServerTypes
<1>5. /\ stale' \in [Tab -> BOOLEAN] /\ \A s \in Tab : stale[s] => stale'[s]
      /\ req[q].todo = {"count"} => \A s \in Tab \ {t} : stale'[s]
  <2>1. \A s \in Tab : (stale[s] \/ (req[q].todo = {"count"} /\ s # t)) \in BOOLEAN
    OBVIOUS
  <2> QED
    BY <2>1
<1>6. Types'
  BY <1>1, <1>4, <1>5 DEF Types, ServerTypes, TabTypes
<1>7. Known'
  <2>1. \A p \in Req : req'[p].op = "list" => \A n \in DOMAIN req'[p].items : Stored(n)
    BY <1>3, <1>4 DEF Known
  <2> QED
    BY <2>1 DEF Known, Stored
<1>8. tab[t].link # "closed"
  BY <1>2 DEF LinkOK
<1>9. LinkOK'
  <2>1. \A s \in Tab : tab[s].link = "closed" => \A p \in Req : req'[p].op \in {"list", "mark"} => req'[p].tab # s
    BY <1>3, <1>4, <1>8 DEF LinkOK
  <2> QED
    BY <2>1, <1>5 DEF LinkOK, Joined
<1>10. Rows' = Rows /\ Unread' = Unread /\ Now' = Now
  BY DEF Rows, Unread, Now
<1>11. ASSUME Sure
       PROVE  /\ Ordered /\ (\A n \in Note : ~ Open(n)) /\ (\A s \in Tab : Quiet(s))
              /\ \A p \in Req \ {q} : req[p] = Free
  <2>1. Ordered
    BY <1>11
  <2>2. \A n \in Note : ~ Open(n)
    BY <2>1, <1>2 DEF Ordered, Alone, Idle
  <2>3. \A s \in Tab : Quiet(s)
    BY <2>1, <1>2 DEF Ordered, Alone
  <2>4. \A p \in Req \ {q} : req[p] = Free
    BY <2>1, <1>2 DEF Ordered, Alone
  <2> QED
    BY <2>1, <2>2, <2>3, <2>4
<1>12. ASSUME Sure' PROVE Ordered'
  <2>1. /\ Ordered /\ (\A n \in Note : ~ Open(n)) /\ (\A s \in Tab : Quiet(s))
        /\ \A p \in Req \ {q} : req[p] = Free
    BY <1>5, <1>11, <1>12 DEF Sure
  <2>2. /\ \A n \in Note : ~ Open(n)'
        /\ \A s \in Tab : Quiet(s)' /\ tab'[s].link # "joined"
        /\ \A p \in Req \ {q} : req'[p] = Free /\ Free.op = "none"
    BY <2>1, <1>4 DEF Quiet, Open, Free
  <2>3. \A s \in Tab : ~ AtHead(s, "new") /\ ~ AtHead(s, "connect")
    BY <2>1, <2>2, <1>2 DEF Ordered, EventsOK, Idle, Alone
  <2>4. \A s \in Tab : ~ AtHead(s, "new")' /\ ~ AtHead(s, "connect")'
    BY <2>3 DEF AtHead
  <2>5. Alone'
    BY <2>1, <2>2, <2>4 DEF Ordered, Alone
  <2>6. WritesOK'
    BY <2>2 DEF WritesOK, Open
  <2>7. EventsOK'
    <3>1. \A p \in Req : req'[p].op # "mark"
      BY <2>2, <1>3, <1>4
    <3> QED
      BY <3>1, <2>1, <2>4, <1>10 DEF Ordered, EventsOK, AtHead
  <2>8. AnswersOK'
    BY <2>2, <1>3, <1>4 DEF AnswersOK
  <2> QED
    BY <2>5, <2>6, <2>7, <2>8 DEF Ordered
<1>13. Settling'
  <2> SUFFICES ASSUME NEW s \in Tab, ~ stale'[s]
               PROVE  /\ tab[s].link # "closed" => WillBe(s)'
                      /\ \A p \in Req : req'[p].op # "mark"
    BY DEF Settling
  <2>1. ~ stale[s] /\ Sure
    BY <1>5 DEF Sure
  <2>2. /\ Ordered /\ (\A n \in Note : ~ Open(n)) /\ (\A p \in Tab : Quiet(p))
        /\ \A p \in Req \ {q} : req[p] = Free /\ Free.op = "none"
    BY <2>1, <1>11 DEF Free
  <2>3. \A p \in Req : req'[p].op # "mark"
    BY <2>2, <1>3, <1>4
  <2>4. CASE s = t
    BY <2>3, <2>4, <1>3, <1>4 DEF WillBe, Loading
  <2>5. CASE s # t
    <3>1. req[q].todo # {"count"}
      BY <2>5, <1>5
    <3>2. ~ Loading(s) /\ ~ Marks(s)
      BY <2>2, <2>5, <1>2 DEF Loading, Marks
    <3>3. Right(s) => Right(s)'
      BY <1>10 DEF Right
    <3>4. NewToCome(s) => NewToCome(s)'
      BY <1>10 DEF NewToCome, AtHead, Without
    <3>5. ReadToCome(s) => ReadToCome(s)'
      BY <2>2, <3>1, <1>10 DEF ReadToCome, AtHead, MarkListed
    <3>6. tab[s].link # "closed" => WillBe(s)
      BY <2>1 DEF Settling
    <3> QED
      BY <2>3, <3>2, <3>3, <3>4, <3>5, <3>6 DEF WillBe
  <2> QED
    BY <2>4, <2>5
<1> QED
  BY <1>6, <1>7, <1>9, <1>12, <1>13

\* A request fails.
LEMMA FailedStep ==
  ASSUME IInv, NEW q \in Req, Failed(q), UNCHANGED <<row, writer, counted, queue, tab>>
  PROVE  IInv'
<1>1. CASE req[q].op = "mark"
  <2>1. /\ req' = [req EXCEPT ![q] = Load(req[q].tab)]
        /\ stale' = [s \in Tab |-> stale[s] \/ (req[q].todo = {"count"} /\ s # req[q].tab)]
    BY <1>1 DEF Failed
  <2> QED
    BY <2>1, <1>1, MarkFails
<1>2. CASE req[q].op = "list"
  BY <1>2, ListFails DEF Failed
<1> QED
  BY <1>1, <1>2 DEF Failed

-----------------------------------------------------------------------------
(* The connection *)

\* What happens to one tab alone does not change what another waits for.
LEMMA ElsewhereKept ==
  ASSUME NEW s \in Tab, UNCHANGED <<row, writer, req>>, queue'[s] = queue[s],
         tab'[s] = tab[s]
  PROVE  /\ WillBe(s) => WillBe(s)'
         /\ \A p \in Req : Ahead(s, p) => Ahead(s, p)'
<1>1. Rows' = Rows /\ Unread' = Unread /\ Now' = Now
  BY DEF Rows, Unread, Now
<1>2. \A n : Without(n)' = Without(n)
  BY <1>1 DEF Without
<1>3. writer' = writer /\ req' = req
  OBVIOUS
<1>4. Right(s) => Right(s)'
  BY <1>1 DEF Right
<1>5. Loading(s) => Loading(s)'
  BY <1>3 DEF Loading
<1>6. NewToCome(s) => NewToCome(s)'
  BY <1>2, <1>3 DEF NewToCome, AtHead
<1>7. ReadToCome(s) => ReadToCome(s)'
  BY <1>1, <1>3 DEF ReadToCome, AtHead, MarkListed
<1>8. Marks(s) => Marks(s)'
  BY <1>3 DEF Marks
<1>9. \A p \in Req : Ahead(s, p) => Ahead(s, p)'
  BY <1>1, <1>3 DEF Ahead, MarkListed
<1> QED
  BY <1>4, <1>5, <1>6, <1>7, <1>8, <1>9 DEF WillBe

\* What is known does not depend on links.
LEMMA LinkChanges ==
  ASSUME Types, Known, UNCHANGED <<row, writer, req>>,
         \A s \in Tab : DOMAIN tab'[s].items = DOMAIN tab[s].items,
         \A s \in Tab : \A e \in Said(queue'[s]) : e \in Said(queue[s]) \/ e.type = "connect"
  PROVE  Known'
<1>1. \A s \in Tab : \A e \in Said(queue'[s]) : e.type = "new" => Stored(e.note)
  BY DEF Known
<1> QED
  BY <1>1 DEF Known, Stored

\* The server lets a tab in, whose list is loading or was right when it was alone.
LEMMA JoinStep ==
  ASSUME IInv, NEW t \in Tab, Join(t)
  PROVE  IInv'
<1> USE DEF IInv
<1> DEFINE hello == [type |-> "connect"]
<1>1. /\ tab[t].link \in {"connecting", "offline"} /\ tab' = [tab EXCEPT ![t].link = "joined"]
      /\ queue' = [queue EXCEPT ![t] = <<hello>>]
      /\ UNCHANGED <<row, writer, counted, req>>
  BY DEF Join
<1>2. Types /\ ServerTypes /\ TabTypes
  BY DEF Types
<1>3. /\ tab' \in [Tab -> TabRow]
      /\ tab'[t].link = "joined" /\ tab'[t].before = tab[t].before
      /\ tab'[t].items = tab[t].items /\ tab'[t].badge = tab[t].badge
      /\ \A s \in Tab \ {t} : tab'[s] = tab[s]
  <2>1. tab[t] \in TabRow
    BY <1>2, TabFacts
  <2> QED
    BY <2>1, <1>1, <1>2 DEF TabTypes, TabRow
<1>4. /\ hello \in Event /\ hello.type = "connect" /\ <<hello>> \in Seq(Event)
      /\ <<hello>> # <<>> /\ Head(<<hello>>) = hello /\ Len(<<hello>>) = 1
      /\ Said(<<hello>>) = {hello}
  <2>1. hello \in Event /\ hello.type = "connect"
    BY DEF Event
  <2> HIDE DEF hello
  <2>2. <<hello>> \in Seq(Event) /\ <<hello>> # <<>> /\ Head(<<hello>>) = hello /\ Len(<<hello>>) = 1
    BY <2>1
  <2>3. Said(<<hello>>) = {hello}
    BY DEF Said
  <2> QED
    BY <2>1, <2>2, <2>3
<1> HIDE DEF hello
<1>5. /\ queue' \in [Tab -> Seq(Event)] /\ queue'[t] = <<hello>>
      /\ \A s \in Tab \ {t} : queue'[s] = queue[s]
  BY <1>1, <1>2, <1>4 DEF TabTypes
<1>6. stale' \in [Tab -> BOOLEAN]
  <2>1. \A s \in Tab : (IF Calm THEN stale[s] /\ s # t ELSE TRUE) \in BOOLEAN
    BY <1>2 DEF TabTypes
  <2> QED
    BY <2>1, <1>2 DEF Join, TabTypes
<1>7. Types'
  BY <1>1, <1>2, <1>3, <1>5, <1>6 DEF Types, ServerTypes, TabTypes
<1>8. Known'
  <2>1. \A s \in Tab : tab'[s].items = tab[s].items
    BY <1>3
  <2>2. \A s \in Tab : \A e \in Said(queue'[s]) : e \in Said(queue[s]) \/ e.type = "connect"
    BY <1>4, <1>5
  <2> QED
    BY <2>1, <2>2, <1>1, <1>2, LinkChanges
<1>9. \A s \in Tab \ {t} : stale[s] => stale'[s]
  BY <1>2 DEF Join, TabTypes
<1>10. LinkOK'
  BY <1>1, <1>3, <1>5, <1>9 DEF LinkOK, Joined
<1>11. tab[t].link = "offline" => (Sure' => Calm)
  BY DEF Join, Sure
<1>12. tab[t].link = "connecting" => stale' = stale
  BY DEF Join
<1>13. ASSUME Sure'
       PROVE  /\ \A n \in Note : ~ Open(n)
              /\ \A s \in Tab \ {t} : queue[s] = <<>> /\ Quiet(s)
              /\ \A q \in Req : req[q] # Free => req[q].op = "list" /\ req[q].tab = t
              /\ tab[t].before => Idle
              /\ Ordered
  <2>1. CASE tab[t].link = "offline"
    <3>1. Calm
      BY <2>1, <1>11, <1>13
    <3> QED
      BY <3>1, CalmFacts DEF Idle, Still
  <2>2. CASE tab[t].link = "connecting"
    <3>1. Ordered /\ ~ tab[t].before /\ ~ Quiet(t)
      BY <2>2, <1>12, <1>13 DEF Sure, LinkOK, Quiet
    <3>2. \A n \in Note : ~ Open(n)
      BY <3>1 DEF Ordered, Alone, Still
    <3> QED
      BY <3>1, <3>2 DEF Ordered, Alone
  <2> QED
    BY <2>1, <2>2, <1>1
<1>14. queue[t] = <<>>
  BY <1>1 DEF LinkOK, Joined
<1>15. Rows' = Rows /\ Unread' = Unread /\ Now' = Now
  BY <1>1 DEF Rows, Unread, Now
<1>16. ASSUME Sure' PROVE Ordered'
  <2>1. /\ \A n \in Note : ~ Open(n)
        /\ \A s \in Tab \ {t} : queue[s] = <<>> /\ Quiet(s)
        /\ \A q \in Req : req[q] # Free => req[q].op = "list" /\ req[q].tab = t
        /\ tab[t].before => Idle
        /\ Ordered
    BY <1>13, <1>16
  <2>2. /\ \A n \in Note : ~ Open(n)'
        /\ \A s \in Tab \ {t} : /\ queue'[s] = <<>> /\ Quiet(s)' /\ tab'[s].link # "joined"
                                /\ \A k : ~ AtHead(s, k)'
        /\ AtHead(t, "connect")' /\ ~ AtHead(t, "new")' /\ ~ AtHead(t, "read")'
    BY <2>1, <1>1, <1>3, <1>4, <1>5 DEF Open, Quiet, AtHead
  <2>3. \A s \in Tab : Len(queue'[s]) <= 1
    BY <2>2, <1>4, <1>5
  <2>4. tab'[t].before => Idle'
    BY <2>1, <1>1, <1>3 DEF Idle
  <2>5. Alone'
    BY <2>1, <2>2, <2>3, <2>4, <1>1, <1>3 DEF Ordered, Alone
  <2>6. WritesOK' /\ EventsOK'
    BY <2>2 DEF WritesOK, EventsOK, Open
  <2>7. AnswersOK'
    <3>1. \A q \in Req : req[q].op # "mark"
      BY <2>1, <1>2, ReqKinds
    <3> QED
      BY <3>1, <2>1, <1>1, <1>15 DEF Ordered, AnswersOK
  <2> QED
    BY <2>5, <2>6, <2>7 DEF Ordered
<1>17. Settling'
  <2> SUFFICES ASSUME NEW s \in Tab, ~ stale'[s]
               PROVE  /\ tab'[s].link # "closed" => WillBe(s)'
                      /\ \A q \in Req : req[q].op # "mark"
    BY <1>1 DEF Settling
  <2>1. /\ \A n \in Note : ~ Open(n)
        /\ \A p \in Tab \ {t} : queue[p] = <<>> /\ Quiet(p)
        /\ \A q \in Req : req[q] # Free => req[q].op = "list" /\ req[q].tab = t
    BY <1>13 DEF Sure
  <2>2. \A q \in Req : req[q].op # "mark"
    BY <2>1, <1>2, ReqKinds
  <2>3. CASE s = t /\ tab[t].link = "offline"
    <3>1. tab'[t].link = "joined" /\ tab'[t].before
      BY <2>3, <1>3 DEF LinkOK
    <3> QED
      BY <3>1, <2>2, <2>3 DEF WillBe
  <2>4. CASE s # t \/ tab[t].link = "connecting"
    <3>1. ~ stale[s]
      BY <2>4, <1>9, <1>12
    <3>2. tab[s].link # "closed" => WillBe(s)
      BY <3>1 DEF Settling
    <3>3. tab'[s].link # "closed" => tab[s].link # "closed"
      BY <1>1, <1>3
    <3>4. queue[s] = <<>> /\ tab[s].link # "joined"
      BY <2>1, <2>4, <1>1, <1>14 DEF Quiet
    <3>5. tab[s].link # "closed" => Right(s) \/ Loading(s)
      BY <3>2, <3>4, <2>1, <2>2 DEF WillBe, NewToCome, ReadToCome, Marks, AtHead, Open
    <3>6. Right(s) => Right(s)'
      BY <1>3, <1>15 DEF Right
    <3>7. Loading(s) => Loading(s)'
      BY <1>1 DEF Loading
    <3> QED
      BY <2>2, <3>3, <3>5, <3>6, <3>7 DEF WillBe
  <2> QED
    BY <2>3, <2>4, <1>1
<1> QED
  BY <1>7, <1>8, <1>10, <1>16, <1>17

\* A connection is lost, and what was under way on it.
LEMMA DisconnectStep ==
  ASSUME IInv, NEW t \in Tab, Disconnect(t)
  PROVE  IInv'
<1> USE DEF IInv
<1> DEFINE link == IF tab[t].before THEN "offline" ELSE "connecting"
<1>1. /\ Joined(t) /\ tab' = [tab EXCEPT ![t].link = link]
      /\ queue' = [queue EXCEPT ![t] = <<>>] /\ stale' = [stale EXCEPT ![t] = TRUE]
      /\ UNCHANGED <<row, writer, counted, req>>
  BY DEF Disconnect
<1>2. Types /\ ServerTypes /\ TabTypes
  BY DEF Types
<1>3. /\ tab' \in [Tab -> TabRow]
      /\ tab'[t].link = link /\ tab'[t].before = tab[t].before
      /\ tab'[t].items = tab[t].items /\ tab'[t].badge = tab[t].badge
      /\ \A s \in Tab \ {t} : tab'[s] = tab[s]
  <2>1. tab[t] \in TabRow /\ link \in {"offline", "connecting"}
    BY <1>2, TabFacts
  <2> HIDE DEF link
  <2> QED
    BY <2>1, <1>1, <1>2 DEF TabTypes, TabRow
<1>4. /\ queue' \in [Tab -> Seq(Event)] /\ queue'[t] = <<>>
      /\ \A s \in Tab \ {t} : queue'[s] = queue[s]
  BY <1>1, <1>2 DEF TabTypes
<1>5. /\ stale' \in [Tab -> BOOLEAN] /\ stale'[t]
      /\ \A s \in Tab \ {t} : stale'[s] = stale[s]
  BY <1>1, <1>2 DEF TabTypes
<1>6. Types'
  BY <1>1, <1>2, <1>3, <1>4, <1>5 DEF Types, ServerTypes, TabTypes
<1>7. Known'
  <2>1. \A s \in Tab : tab'[s].items = tab[s].items
    BY <1>3
  <2>2. Said(<<>>) = {}
    BY DEF Said
  <2>3. \A s \in Tab : \A e \in Said(queue'[s]) : e \in Said(queue[s]) \/ e.type = "connect"
    BY <2>2, <1>4
  <2> QED
    BY <2>1, <2>3, <1>1, <1>2, LinkChanges
<1>8. LinkOK'
  BY <1>1, <1>3, <1>4, <1>5 DEF LinkOK, Joined
<1>9. ASSUME Sure' PROVE Ordered'
  <2>1. Ordered
    BY <1>5, <1>9 DEF Sure
  <2>2. Quiet(t) => Quiet(t)'
    <3>1. Quiet(t) => tab[t].before
      BY <1>1 DEF Quiet, Joined, LinkOK
    <3> QED
      BY <3>1, <1>3 DEF Quiet
  <2>3. \A s \in Tab : /\ Quiet(s) => Quiet(s)'
                       /\ queue[s] = <<>> => queue'[s] = <<>>
                       /\ Len(queue'[s]) <= 1
                       /\ tab'[s].link = "joined" => (s # t /\ tab[s].link = "joined" /\ tab'[s] = tab[s])
                       /\ \A k : AtHead(s, k)' => (s # t /\ AtHead(s, k) /\ queue'[s] = queue[s])
    BY <2>1, <2>2, <1>3, <1>4 DEF Ordered, Alone, Quiet, AtHead
  <2>4. (Still => Still') /\ (Idle => Idle') /\ \A n \in Note : Open(n)' <=> Open(n)
    BY <2>3, <1>1 DEF Still, Idle, Open
  <2>5. \A s \in Tab : tab'[s].link = "joined" =>
                         AtHead(s, "connect")' /\ (tab'[s].before => Idle')
    <3> SUFFICES ASSUME NEW s \in Tab, tab'[s].link = "joined"
                 PROVE  AtHead(s, "connect")' /\ (tab'[s].before => Idle')
      OBVIOUS
    <3>1. s # t /\ tab[s].link = "joined" /\ tab'[s] = tab[s]
      BY <2>3
    <3> QED
      BY <3>1, <2>1, <2>4, <1>4 DEF Ordered, Alone, AtHead
  <2>6. \A s \in Tab : AtHead(s, "connect")' => tab'[s].link = "joined"
    BY <2>1, <2>3, <1>3 DEF Ordered, Alone
  <2>7. \A s \in Tab : ~ Quiet(s)' => /\ \A p \in Tab \ {s} : queue'[p] = <<>> /\ Quiet(p)'
                                      /\ \A q \in Req : req'[q] # Free => req'[q].op = "list" /\ req'[q].tab = s
    BY <2>1, <2>3, <1>1 DEF Ordered, Alone
  <2>8. Alone'
    BY <2>1, <2>3, <2>4, <2>5, <2>6, <2>7, <1>1 DEF Ordered, Alone
  <2>9. Rows' = Rows /\ Unread' = Unread /\ Now' = Now
    BY <1>1 DEF Rows, Unread, Now
  <2>10. WritesOK' /\ AnswersOK'
    BY <2>1, <2>4, <2>9, <1>1 DEF Ordered, WritesOK, AnswersOK
  <2>11. EventsOK'
    BY <2>1, <2>3, <2>4, <2>9, <1>1 DEF Ordered, EventsOK
  <2> QED
    BY <2>8, <2>10, <2>11 DEF Ordered
<1>10. Settling'
  <2> SUFFICES ASSUME NEW s \in Tab, ~ stale'[s]
               PROVE  /\ tab'[s].link # "closed" => WillBe(s)'
                      /\ \A p \in Req : (req[p].op = "mark" /\ req[p].tab = s) => Ahead(s, p)'
    BY <1>1 DEF Settling
  <2>1. s # t /\ ~ stale[s]
    BY <1>5
  <2> QED
    BY <2>1, <1>1, <1>3, <1>4, ElsewhereKept DEF Settling
<1> QED
  BY <1>6, <1>7, <1>8, <1>9, <1>10

-----------------------------------------------------------------------------
(* Events *)

\* What is true when a tab handles an event.
LEMMA TakenFacts ==
  ASSUME IInv, NEW t \in Tab, queue[t] # <<>>, queue' = [queue EXCEPT ![t] = Tail(@)]
  PROVE  /\ queue' \in [Tab -> Seq(Event)]
         /\ \A s \in Tab : Said(queue'[s]) \subseteq Said(queue[s])
         /\ \A s \in Tab \ {t} : queue'[s] = queue[s]
         /\ Head(queue[t]) \in Event /\ Head(queue[t]) \in Said(queue[t])
         /\ Joined(t)
         /\ Sure => /\ Ordered /\ queue'[t] = <<>>
                    /\ \A n \in Note : ~ Open(n)
                    /\ Head(queue[t]).type # "connect" => Quiet(t)
<1> USE DEF IInv
<1>1. queue \in [Tab -> Seq(Event)] /\ queue[t] \in Seq(Event)
  BY DEF Types, TabTypes
<1>2. /\ Tail(queue[t]) \in Seq(Event) /\ Said(Tail(queue[t])) \subseteq Said(queue[t])
      /\ Head(queue[t]) \in Event /\ Head(queue[t]) \in Said(queue[t])
      /\ Len(queue[t]) <= 1 => Tail(queue[t]) = <<>>
  BY <1>1, HandledFacts
<1>3. queue'[t] = Tail(queue[t]) /\ \A s \in Tab \ {t} : queue'[s] = queue[s]
  BY <1>1
<1>4. queue' \in [Tab -> Seq(Event)]
  BY <1>1, <1>2
<1>5. Joined(t)
  BY DEF LinkOK
<1>6. ASSUME Sure
      PROVE  /\ Ordered /\ queue'[t] = <<>> /\ \A n \in Note : ~ Open(n)
             /\ Head(queue[t]).type # "connect" => Quiet(t)
  <2>1. Ordered
    BY <1>6
  <2>2. queue'[t] = <<>>
    BY <2>1, <1>2, <1>3 DEF Ordered, Alone
  <2>3. \A n \in Note : ~ Open(n)
    BY <2>1 DEF Ordered, Alone, Still
  <2>4. Head(queue[t]).type # "connect" => Quiet(t)
    BY <2>1, <1>5 DEF Ordered, Alone, AtHead, Quiet, Joined
  <2> QED
    BY <2>1, <2>2, <2>3, <2>4
<1> QED
  BY <1>2, <1>3, <1>4, <1>5, <1>6

\* A tab hears that it is connected: it loads if it was connected before.
LEMMA ConnectStep ==
  ASSUME IInv, NEW t \in Tab, NEW q \in Req, HandleConnect(t, q)
  PROVE  IInv'
<1> USE DEF IInv
<1>1. /\ queue[t] # <<>> /\ Head(queue[t]).type = "connect"
      /\ queue' = [queue EXCEPT ![t] = Tail(@)]
      /\ tab' = [tab EXCEPT ![t].link = "live", ![t].before = TRUE]
      /\ UNCHANGED <<row, writer, counted, stale>>
  BY DEF HandleConnect
<1>2. Types /\ ServerTypes /\ TabTypes
  BY DEF Types
<1>3. /\ tab' \in [Tab -> TabRow]
      /\ tab'[t].link = "live" /\ tab'[t].before
      /\ tab'[t].items = tab[t].items /\ tab'[t].badge = tab[t].badge
      /\ \A s \in Tab \ {t} : tab'[s] = tab[s]
  <2>1. tab[t] \in TabRow
    BY <1>2, TabFacts
  <2> QED
    BY <2>1, <1>1, <1>2 DEF TabTypes, TabRow
<1>4. /\ queue' \in [Tab -> Seq(Event)]
      /\ \A s \in Tab : Said(queue'[s]) \subseteq Said(queue[s])
      /\ \A s \in Tab \ {t} : queue'[s] = queue[s]
      /\ Joined(t)
      /\ Sure => /\ Ordered /\ queue'[t] = <<>>
                 /\ \A n \in Note : ~ Open(n)
  BY <1>1, TakenFacts
<1>5. /\ Load(t) \in Listing /\ Load(t).op = "list" /\ Load(t).tab = t
      /\ Load(t).todo = {"items", "count"} /\ DOMAIN Load(t).items = {}
  BY <1>2, SentRequests
<1>6. \/ tab[t].before /\ req[q] = Free /\ req' = [req EXCEPT ![q] = Load(t)]
      \/ ~ tab[t].before /\ req' = req
  BY DEF HandleConnect, Send
<1>7. /\ req' \in [Req -> {Free} \cup Listing \cup Marking]
      /\ tab[t].before => req'[q] = Load(t)
      /\ \A p \in Req : req'[p] = req[p] \/ (p = q /\ tab[t].before /\ req'[p] = Load(t))
  BY <1>2, <1>5, <1>6 DEF ServerTypes
<1>8. Types'
  BY <1>1, <1>2, <1>3, <1>4, <1>7 DEF Types, ServerTypes, TabTypes
<1>9. Known'
  <2>1. \A p \in Req : req'[p].op = "list" => \A n \in DOMAIN req'[p].items : Stored(n)
    BY <1>5, <1>7 DEF Known
  <2>2. \A s \in Tab : tab'[s].items = tab[s].items
    BY <1>3
  <2>3. \A s \in Tab : \A e \in Said(queue'[s]) : e.type = "new" => Stored(e.note)
    BY <1>4 DEF Known
  <2> QED
    BY <2>1, <2>2, <2>3, <1>1 DEF Known, Stored
<1>10. LinkOK'
  <2>1. tab[t].link # "closed"
    BY <1>4 DEF Joined
  <2>2. \A s \in Tab : tab'[s].link = "closed" =>
                         \A p \in Req : req'[p].op \in {"list", "mark"} => req'[p].tab # s
    BY <1>3, <1>5, <1>7 DEF LinkOK
  <2> QED
    BY <2>2, <1>1, <1>3, <1>4 DEF LinkOK, Joined
<1>11. Rows' = Rows /\ Unread' = Unread /\ Now' = Now
  BY <1>1 DEF Rows, Unread, Now
<1>12. ASSUME Sure
       PROVE  /\ Ordered /\ (\A n \in Note : ~ Open(n)) /\ tab[t].link = "joined"
              /\ \A s \in Tab \ {t} : queue[s] = <<>> /\ Quiet(s)
              /\ \A p \in Req : req[p] # Free => req[p].op = "list" /\ req[p].tab = t
              /\ tab[t].before => Idle
  <2>1. Ordered /\ (\A n \in Note : ~ Open(n)) /\ AtHead(t, "connect")
    BY <1>1, <1>4, <1>12 DEF AtHead
  <2>2. tab[t].link = "joined" /\ ~ Quiet(t)
    BY <2>1 DEF Ordered, Alone, Quiet
  <2> QED
    BY <2>1, <2>2 DEF Ordered, Alone
<1>13. ASSUME Sure PROVE \A p \in Req : req[p].op # "mark" /\ req'[p].op # "mark"
  BY <1>2, <1>5, <1>7, <1>12, <1>13, ReqKinds
<1>14. ASSUME Sure' PROVE Ordered'
  <2>1. Sure
    BY <1>1, <1>14 DEF Sure
  <2>2. /\ Ordered /\ (\A n \in Note : ~ Open(n)) /\ queue'[t] = <<>>
        /\ \A s \in Tab \ {t} : queue[s] = <<>> /\ Quiet(s)
        /\ tab[t].before => Idle
    BY <2>1, <1>4, <1>12
  <2>3. /\ \A n \in Note : ~ Open(n)'
        /\ \A s \in Tab : queue'[s] = <<>> /\ Quiet(s)' /\ \A k : ~ AtHead(s, k)'
    BY <2>2, <1>1, <1>3, <1>4 DEF Open, Quiet, AtHead
  <2>4. \A p, r \in Req : (req'[p] # Free /\ req'[r] # Free) => p = r
    <3>1. CASE tab[t].before
      BY <3>1, <2>2, <1>7 DEF Idle
    <3>2. CASE ~ tab[t].before
      BY <3>2, <2>2, <1>6 DEF Ordered, Alone
    <3> QED
      BY <3>1, <3>2
  <2>5. Alone'
    <3>1. \A s \in Tab : Len(queue'[s]) <= 1
      BY <2>3
    <3>2. \A s \in Tab : tab'[s].link # "joined"
      BY <2>3 DEF Quiet
    <3> QED
      BY <3>1, <3>2, <2>3, <2>4 DEF Alone
  <2>6. WritesOK' /\ EventsOK'
    BY <2>3 DEF WritesOK, EventsOK, Open
  <2>7. AnswersOK'
    BY <2>1, <2>2, <1>5, <1>7, <1>11, <1>13 DEF Ordered, AnswersOK
  <2> QED
    BY <2>5, <2>6, <2>7 DEF Ordered
<1>15. Settling'
  <2> SUFFICES ASSUME NEW s \in Tab, ~ stale[s]
               PROVE  /\ tab'[s].link # "closed" => WillBe(s)'
                      /\ \A p \in Req : req'[p].op # "mark"
    BY <1>1 DEF Settling
  <2>1. Sure
    BY DEF Sure
  <2>2. /\ (\A n \in Note : ~ Open(n)) /\ tab[t].link = "joined"
        /\ \A p \in Tab \ {t} : queue[p] = <<>> /\ Quiet(p)
    BY <2>1, <1>12
  <2>3. \A p \in Req : req[p].op # "mark" /\ req'[p].op # "mark"
    BY <2>1, <1>13
  <2>4. CASE s = t /\ tab[t].before
    <3>1. Loading(s)'
      BY <2>4, <1>5, <1>7 DEF Loading
    <3> QED
      BY <3>1, <2>3 DEF WillBe
  <2>5. CASE s # t \/ ~ tab[t].before
    <3>1. tab'[s].link # "closed" => WillBe(s)
      BY <2>2, <1>3 DEF Settling
    <3>2. ~ AtHead(s, "new") /\ ~ AtHead(s, "read")
      BY <2>2, <1>1 DEF AtHead
    <3>3. ~ (tab[s].link = "joined" /\ tab[s].before)
      BY <2>2, <2>5 DEF Quiet
    <3>4. tab'[s].link # "closed" => Right(s) \/ Loading(s)
      BY <3>1, <3>2, <3>3, <2>2, <2>3 DEF WillBe, NewToCome, ReadToCome, Marks, Open
    <3>5. Right(s) => Right(s)'
      BY <1>3, <1>11 DEF Right
    <3>6. Loading(s) => Loading(s)'
      <4>1. CASE tab[t].before
        <5>1. Idle /\ Free.op = "none"
          BY <4>1, <2>1, <1>12 DEF Free
        <5> QED
          BY <5>1 DEF Idle, Loading
      <4>2. CASE ~ tab[t].before
        BY <4>2, <1>6 DEF Loading
      <4> QED
        BY <4>1, <4>2
    <3> QED
      BY <2>3, <3>4, <3>5, <3>6 DEF WillBe
  <2> QED
    BY <2>4, <2>5
<1> QED
  BY <1>8, <1>9, <1>10, <1>14, <1>15

\* With an event less, what is ordered stays so.
LEMMA OneHandled ==
  ASSUME Ordered, NEW t \in Tab, UNCHANGED <<row, writer, counted, req>>,
         Quiet(t), queue'[t] = <<>>, \A s \in Tab \ {t} : queue'[s] = queue[s],
         \A s \in Tab : tab'[s].link = tab[s].link /\ tab'[s].before = tab[s].before
  PROVE  Ordered'
<1>1. Rows' = Rows /\ Unread' = Unread /\ Now' = Now
  BY DEF Rows, Unread, Now
<1>2. \A s \in Tab : /\ Quiet(s)' <=> Quiet(s)
                     /\ queue[s] = <<>> => queue'[s] = <<>>
                     /\ Len(queue'[s]) <= 1
                     /\ \A k : AtHead(s, k)' => (AtHead(s, k) /\ queue'[s] = queue[s])
  BY DEF Quiet, AtHead, Ordered, Alone
<1>3. (Still => Still') /\ (Idle' <=> Idle) /\ \A n \in Note : Open(n)' <=> Open(n)
  BY <1>2 DEF Still, Idle, Open
<1>4. \A s \in Tab : tab'[s].link = "joined" =>
                       AtHead(s, "connect")' /\ (tab'[s].before => Idle')
  <2> SUFFICES ASSUME NEW s \in Tab, tab'[s].link = "joined"
               PROVE  AtHead(s, "connect")' /\ (tab'[s].before => Idle')
    OBVIOUS
  <2>1. tab[s].link = "joined" /\ s # t
    BY DEF Quiet
  <2> QED
    BY <2>1, <1>3 DEF Ordered, Alone, AtHead
<1>5. Alone'
  BY <1>2, <1>3, <1>4 DEF Ordered, Alone
<1>6. WritesOK' /\ AnswersOK'
  BY <1>1, <1>3 DEF Ordered, WritesOK, AnswersOK
<1>7. EventsOK'
  BY <1>1, <1>2, <1>3 DEF Ordered, EventsOK
<1> QED
  BY <1>5, <1>6, <1>7 DEF Ordered

\* What a tab shows after an event.
LEMMA ShownFacts ==
  ASSUME Types, NEW t \in Tab, NEW items \in Lists, NEW badge \in Counts,
         tab' = [tab EXCEPT ![t].items = items, ![t].badge = badge]
  PROVE  /\ tab' \in [Tab -> TabRow]
         /\ tab'[t].items = items /\ tab'[t].badge = badge
         /\ \A s \in Tab : tab'[s].link = tab[s].link /\ tab'[s].before = tab[s].before
         /\ \A s \in Tab \ {t} : tab'[s] = tab[s]
<1>1. tab[t] \in TabRow /\ tab \in [Tab -> TabRow]
  BY DEF Types, TabTypes
<1> QED
  BY <1>1 DEF TabRow

\* A tab hears of a notification.
LEMMA HandleNewStep ==
  ASSUME IInv, NEW t \in Tab, HandleNew(t)
  PROVE  IInv'
<1> USE DEF IInv
<1> DEFINE e == Head(queue[t])
           items == [n \in DOMAIN tab[t].items \cup {e.note} |->
                       IF n = e.note THEN "unread" ELSE tab[t].items[n]]
<1>1. /\ queue[t] # <<>> /\ e.type = "new" /\ queue' = [queue EXCEPT ![t] = Tail(@)]
      /\ UNCHANGED <<row, writer, counted, req, stale>>
  BY DEF HandleNew
<1>2. Types /\ ServerTypes /\ TabTypes
  BY DEF Types
<1>3. /\ queue' \in [Tab -> Seq(Event)]
      /\ \A s \in Tab : Said(queue'[s]) \subseteq Said(queue[s])
      /\ \A s \in Tab \ {t} : queue'[s] = queue[s]
      /\ e \in Event /\ e \in Said(queue[t]) /\ Joined(t)
      /\ Sure => /\ Ordered /\ queue'[t] = <<>> /\ Quiet(t)
                 /\ \A n \in Note : ~ Open(n)
  BY <1>1, TakenFacts
<1>4. e.note \in Note /\ e.count \in Counts
  BY <1>1, <1>3 DEF Event
<1>5. tab[t] \in TabRow /\ tab[t].items \in Lists
  BY <1>2, TabFacts
<1>6. items \in Lists /\ DOMAIN items = DOMAIN tab[t].items \cup {e.note}
  BY <1>4, <1>5, ListFacts
<1>7. tab' = [tab EXCEPT ![t].items = items, ![t].badge = e.count]
  BY <1>2, <1>5 DEF HandleNew, TabTypes, TabRow
<1>8. Stored(e.note)
  BY <1>1, <1>3 DEF Known
<1>9. AtHead(t, "new")
  BY <1>1 DEF AtHead
<1>10. ASSUME Sure
       PROVE Idle /\ e.count = Now /\ row[e.note] = "unread"
  BY <1>3, <1>9, <1>10 DEF Ordered, EventsOK
<1>11. ASSUME Sure, tab[t].items = Rows \/ tab[t].items = Without(e.note) PROVE items = Rows
  BY <1>2, <1>4, <1>10, <1>11, NewListed DEF ServerTypes
<1> HIDE DEF items
<1>12. /\ tab' \in [Tab -> TabRow]
       /\ tab'[t].items = items /\ tab'[t].badge = e.count
       /\ \A s \in Tab : tab'[s].link = tab[s].link /\ tab'[s].before = tab[s].before
       /\ \A s \in Tab \ {t} : tab'[s] = tab[s]
  BY <1>2, <1>4, <1>6, <1>7, ShownFacts
<1>13. Types'
  BY <1>1, <1>2, <1>3, <1>12 DEF Types, ServerTypes, TabTypes
<1>14. Known'
  <2>1. \A s \in Tab : \A n \in DOMAIN tab'[s].items : Stored(n)
    BY <1>6, <1>8, <1>12 DEF Known
  <2>2. \A s \in Tab : \A d \in Said(queue'[s]) : d.type = "new" => Stored(d.note)
    BY <1>3 DEF Known
  <2> QED
    BY <2>1, <2>2, <1>1 DEF Known, Stored
<1>15. LinkOK'
  <2>1. tab[t].link # "closed"
    BY <1>3 DEF Joined
  <2> QED
    BY <2>1, <1>1, <1>3, <1>12 DEF LinkOK, Joined
<1>16. Sure' => Ordered'
  BY <1>1, <1>3, <1>12, OneHandled DEF Sure
<1>17. Rows' = Rows /\ Unread' = Unread /\ Now' = Now
  BY <1>1 DEF Rows, Unread, Now
<1>18. Settling'
  <2> SUFFICES ASSUME NEW s \in Tab, ~ stale[s]
               PROVE  /\ tab'[s].link # "closed" => WillBe(s)'
                      /\ \A p \in Req : (req[p].op = "mark" /\ req[p].tab = s) => Ahead(s, p)'
    BY <1>1 DEF Settling
  <2>1. Sure
    BY DEF Sure
  <2>2. CASE s = t
    <3>1. \A p \in Req : req[p].op \notin {"list", "mark"}
      BY <2>1, <1>2, <1>10, ReqKinds DEF Idle
    <3>2. WillBe(s) /\ tab[s].link # "joined"
      BY <2>1, <2>2, <1>3 DEF Settling, Joined, Quiet
    <3>3. ~ AtHead(s, "read") /\ \A n \in Note : writer[n] # "committed"
      BY <2>1, <2>2, <1>1, <1>3 DEF AtHead, Open
    <3>4. Right(s) \/ (AtHead(s, "new") /\ tab[s].items = Without(e.note))
      BY <2>2, <3>1, <3>2, <3>3 DEF WillBe, Loading, NewToCome, ReadToCome, Marks
    <3>5. items = Rows
      BY <2>1, <2>2, <3>4, <1>11 DEF Right
    <3>6. Right(s)'
      BY <2>1, <2>2, <3>5, <1>10, <1>12, <1>17 DEF Right
    <3> QED
      BY <3>1, <3>6 DEF WillBe
  <2>3. CASE s # t
    BY <2>3, <1>1, <1>3, <1>12, ElsewhereKept DEF Settling
  <2> QED
    BY <2>2, <2>3
<1> QED
  BY <1>13, <1>14, <1>15, <1>16, <1>18

\* A tab hears of a mark.
LEMMA HandleReadStep ==
  ASSUME IInv, NEW t \in Tab, HandleRead(t)
  PROVE  IInv'
<1> USE DEF IInv
<1> DEFINE e == Head(queue[t])
           items == MarkListed(tab[t].items, e.ids)
<1>1. /\ queue[t] # <<>> /\ e.type = "read" /\ queue' = [queue EXCEPT ![t] = Tail(@)]
      /\ UNCHANGED <<row, writer, counted, req, stale>>
  BY DEF HandleRead
<1>2. Types /\ ServerTypes /\ TabTypes
  BY DEF Types
<1>3. /\ queue' \in [Tab -> Seq(Event)]
      /\ \A s \in Tab : Said(queue'[s]) \subseteq Said(queue[s])
      /\ \A s \in Tab \ {t} : queue'[s] = queue[s]
      /\ e \in Event /\ Joined(t)
      /\ Sure => /\ Ordered /\ queue'[t] = <<>> /\ Quiet(t)
                 /\ \A n \in Note : ~ Open(n)
  BY <1>1, TakenFacts
<1>4. e.count \in Counts
  BY <1>1, <1>3 DEF Event
<1>5. tab[t] \in TabRow /\ tab[t].items \in Lists
  BY <1>2, TabFacts
<1>6. items \in Lists /\ DOMAIN items = DOMAIN tab[t].items
  BY <1>5, ListFacts
<1>7. tab' = [tab EXCEPT ![t].items = items, ![t].badge = e.count]
  BY <1>2, <1>5 DEF HandleRead, TabTypes, TabRow
<1>8. AtHead(t, "read")
  BY <1>1 DEF AtHead
<1>9. ASSUME Sure
      PROVE  /\ e.count = Now /\ e.ids \cap Unread = {}
             /\ \A p \in Req : req[p].op = "mark" => "update" \notin req[p].todo
  BY <1>3, <1>8, <1>9 DEF Ordered, EventsOK
<1>10. ASSUME Sure, tab[t].items = Rows PROVE items = Rows
  BY <1>2, <1>9, <1>10, MarkedAlready DEF ServerTypes
<1>11. /\ tab' \in [Tab -> TabRow]
       /\ tab'[t].items = items /\ tab'[t].badge = e.count
       /\ \A s \in Tab : tab'[s].link = tab[s].link /\ tab'[s].before = tab[s].before
       /\ \A s \in Tab \ {t} : tab'[s] = tab[s]
  <2> HIDE DEF items
  <2> QED
    BY <1>2, <1>4, <1>6, <1>7, ShownFacts
<1>12. Types'
  BY <1>1, <1>2, <1>3, <1>11 DEF Types, ServerTypes, TabTypes
<1>13. Known'
  <2>1. \A s \in Tab : DOMAIN tab'[s].items = DOMAIN tab[s].items
    BY <1>6, <1>11
  <2> QED
    BY <2>1, <1>1, <1>2, <1>3, LinkChanges
<1>14. LinkOK'
  <2>1. tab[t].link # "closed"
    BY <1>3 DEF Joined
  <2> QED
    BY <2>1, <1>1, <1>3, <1>11 DEF LinkOK, Joined
<1>15. Sure' => Ordered'
  BY <1>1, <1>3, <1>11, OneHandled DEF Sure
<1>16. Rows' = Rows /\ Unread' = Unread /\ Now' = Now
  BY <1>1 DEF Rows, Unread, Now
<1>17. Settling'
  <2> SUFFICES ASSUME NEW s \in Tab, ~ stale[s]
               PROVE  /\ tab'[s].link # "closed" => WillBe(s)'
                      /\ \A p \in Req : (req[p].op = "mark" /\ req[p].tab = s) => Ahead(s, p)'
    BY <1>1 DEF Settling
  <2>1. Sure
    BY DEF Sure
  <2>2. CASE s = t
    <3>1. WillBe(s) /\ tab[s].link # "joined"
      BY <2>1, <2>2, <1>3 DEF Settling, Joined, Quiet
    <3>2. ~ AtHead(s, "new") /\ \A n \in Note : writer[n] # "committed"
      BY <2>1, <2>2, <1>1, <1>3 DEF AtHead, Open
    <3>3. \A p \in Req : req[p].op = "mark" => req[p].todo # {"count"}
      BY <2>1, <1>1, <1>3 DEF Ordered, AnswersOK, Still
    <3>4. \/ Right(s) \/ Loading(s) \/ Marks(s)
          \/ MarkListed(tab[s].items, e.ids) = Rows
      BY <2>2, <3>1, <3>2, <3>3 DEF WillBe, NewToCome, ReadToCome
    <3>5. items = Rows => Right(s)'
      BY <2>1, <2>2, <1>9, <1>11, <1>16 DEF Right
    <3>6. Right(s) => Right(s)'
      BY <2>1, <2>2, <3>5, <1>10 DEF Right
    <3>7. (Loading(s) => Loading(s)') /\ (Marks(s) => Marks(s)')
      BY <1>1 DEF Loading, Marks
    <3>8. WillBe(s)'
      BY <2>2, <3>4, <3>5, <3>6, <3>7 DEF WillBe
    <3>9. ASSUME NEW p \in Req, req[p].op = "mark", req[p].tab = s PROVE Ahead(s, p)'
      <4>1. tab[s].items = MarkListed(Rows, req[p].ids)
        BY <3>9 DEF Settling, Ahead
      <4>2. req[p].ids \cap Unread = {}
        BY <2>1, <3>9, <1>3, <1>9 DEF Ordered, AnswersOK
      <4>3. MarkListed(Rows, req[p].ids) = Rows
        BY <4>2, <1>2, MarkedAlready DEF ServerTypes
      <4>4. items = Rows
        BY <4>1, <4>3, <2>1, <2>2, <1>10
      <4>5. tab'[s].items = Rows /\ req'[p] = req[p]
        BY <4>4, <2>2, <1>1, <1>11
      <4> QED
        BY <4>3, <4>5, <1>16 DEF Ahead, MarkListed
    <3> QED
      BY <3>8, <3>9
  <2>3. CASE s # t
    BY <2>3, <1>1, <1>3, <1>11, ElsewhereKept DEF Settling
  <2> QED
    BY <2>2, <2>3
<1> QED
  BY <1>12, <1>13, <1>14, <1>15, <1>17

-----------------------------------------------------------------------------
(* The theorems *)

\* Nothing happens.
LEMMA StutterStep ==
  ASSUME IInv, UNCHANGED vars
  PROVE  IInv'
<1> USE DEF IInv
<1>1. UNCHANGED <<row, writer, counted, req, queue, tab, stale>>
  BY DEF vars
<1>2. Rows' = Rows /\ Unread' = Unread /\ Now' = Now
  BY <1>1 DEF Rows, Unread, Now
<1>3. Types' /\ Known' /\ LinkOK'
  BY <1>1 DEF Types, ServerTypes, TabTypes, Known, Stored, LinkOK, Joined
<1>4. Sure' => Ordered'
  <2>1. Sure' => Ordered
    BY <1>1 DEF Sure
  <2>2. Alone => Alone'
    BY <1>1 DEF Alone, Open, Idle, Still, Quiet, AtHead
  <2>3. (WritesOK => WritesOK') /\ (EventsOK => EventsOK') /\ (AnswersOK => AnswersOK')
    BY <1>1, <1>2 DEF WritesOK, EventsOK, AnswersOK, Idle, Still, Quiet, AtHead
  <2> QED
    BY <2>1, <2>2, <2>3 DEF Ordered
<1>5. Settling'
  BY <1>1, ElsewhereKept DEF Settling
<1> QED
  BY <1>3, <1>4, <1>5

\* Every step keeps the invariant.
LEMMA NextIInv == IInv /\ [Next]_vars => IInv'
<1> SUFFICES ASSUME IInv, [Next]_vars PROVE IInv'
  OBVIOUS
<1>1. ASSUME NEW n \in Note,
             \/ Insert(n) \/ Count(n) \/ Commit(n) \/ EmitNew(n)
             \/ RollBack(n) \/ Cascade(n)
      PROVE  IInv'
  BY <1>1, InsertStep, CountStep, CommitStep, EmitNewStep, RollBackStep, CascadeStep
<1>2. ASSUME NEW q \in Req,
             \/ ListItems(q) \/ UpdateRead(q) \/ CountUnread(q)
             \/ Respond(q) \/ NotFound(q) \/ Lose(q)
      PROVE  IInv'
  <2>1. CASE ListItems(q) \/ UpdateRead(q) \/ Respond(q)
    BY <2>1, ListItemsStep, UpdateStep, RespondStep
  <2>2. CASE CountUnread(q)
    <3>1. req[q].op = "mark" \/ req[q].op = "list"
      BY <2>2 DEF CountUnread
    <3> QED
      BY <2>2, <3>1, ListCountStep, MarkCountStep
  <2>3. CASE NotFound(q) \/ Lose(q)
    <3>1. Failed(q) /\ UNCHANGED <<row, writer, counted, queue, tab>>
      BY <2>3 DEF NotFound, Lose
    <3> QED
      BY <3>1, FailedStep
  <2> QED
    BY <1>2, <2>1, <2>2, <2>3
<1>3. ASSUME NEW t \in Tab,
             Join(t) \/ Disconnect(t) \/ HandleNew(t) \/ HandleRead(t)
      PROVE  IInv'
  BY <1>3, JoinStep, DisconnectStep, HandleNewStep, HandleReadStep
<1>4. ASSUME NEW t \in Tab, NEW q \in Req,
             Mount(t, q) \/ MarkAllRead(t, q) \/ HandleConnect(t, q)
      PROVE  IInv'
  BY <1>4, MountStep, MarkAllStep, ConnectStep
<1>5. ASSUME NEW t \in Tab, NEW q \in Req, NEW n \in Note, MarkRead(t, n, q)
      PROVE  IInv'
  BY <1>5, MarkReadStep
<1>6. CASE UNCHANGED vars
  BY <1>6, StutterStep
<1> QED
  BY <1>1, <1>2, <1>3, <1>4, <1>5, <1>6 DEF Next

\* The invariant always holds: while some tab is sure of its badge one thing happens
\* at a time, and what a sure tab still lacks is on its way to it.
THEOREM Inductive == Spec => []IInv
<1>1. Init => IInv
  BY InitIInv
<1>2. IInv /\ [Next]_vars => IInv'
  BY NextIInv
<1> QED
  BY <1>1, <1>2, PTL DEF Spec

\* Types: counts stay within the number of notifications, also the badge of a tab
\* that marks what it shows.
THEOREM TypeCorrect == Spec => []TypeOK
<1>1. IInv => TypeOK
  <2> SUFFICES ASSUME IInv PROVE TypeOK
    OBVIOUS
  <2>1. Types /\ LinkOK
    BY DEF IInv
  <2>2. \A t \in Tab : /\ tab[t].link \in {"closed", "connecting", "joined", "live", "offline"}
                       /\ tab[t].items \in Lists /\ tab[t].badge \in Counts
    BY <2>1, TabFacts
  <2>3. \A t \in Tab : /\ DOMAIN tab[t].items \subseteq Note
                       /\ tab[t].items \in [DOMAIN tab[t].items -> {"unread", "read"}]
    BY <2>2, ListFacts
  <2> QED
    BY <2>1, <2>2, <2>3 DEF Types, ServerTypes, TypeOK, LinkOK, Counts
<1>2. Spec => []IInv
  BY Inductive
<1> QED
  BY <1>1, <1>2, PTL

\* No client hears of a notification, or shows it, whose transaction has not
\* committed: notifyUser emits after the commit, and a list reads committed rows.
THEOREM NothingUncommitted == Spec => []OnlyCommitted
<1>1. IInv => OnlyCommitted
  <2> SUFFICES ASSUME IInv, NEW n \in Note, NEW t \in Tab,
                      \/ n \in DOMAIN tab[t].items
                      \/ \E k \in 1..Len(queue[t]) :
                           queue[t][k].type = "new" /\ queue[t][k].note = n
               PROVE  writer[n] \in {"committed", "ended"}
    BY DEF OnlyCommitted
  <2>1. Known
    BY DEF IInv
  <2>2. CASE n \in DOMAIN tab[t].items
    BY <2>1, <2>2 DEF Known, Stored
  <2>3. ASSUME NEW k \in 1..Len(queue[t]), queue[t][k].type = "new", queue[t][k].note = n
        PROVE  writer[n] \in {"committed", "ended"}
    <3>1. queue[t][k] \in Said(queue[t])
      BY DEF Said
    <3> QED
      BY <2>1, <2>3, <3>1 DEF Known, Stored
  <2> QED
    BY <2>2, <2>3
<1>2. Spec => []IInv
  BY Inductive
<1> QED
  BY <1>1, <1>2, PTL

\* Once all is calm, the badge and the list of a live tab that is sure are those of
\* the table: through events in onNew and onRead, answers, optimistic marks and
\* reloads after a reconnection.
THEOREM BadgesSettle == Spec => []BadgeSettles
<1>1. IInv => BadgeSettles
  <2> SUFFICES ASSUME IInv, Calm, NEW t \in Tab, tab[t].link = "live", ~ stale[t]
               PROVE  tab[t].badge = Cardinality(Unread) /\ tab[t].items = Rows
    BY DEF BadgeSettles
  <2>1. Right(t)
    BY CalmFacts
  <2> QED
    BY <2>1 DEF Right, Now
<1>2. Spec => []IInv
  BY Inductive
<1> QED
  BY <1>1, <1>2, PTL
=============================================================================

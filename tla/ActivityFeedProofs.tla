------------------------- MODULE ActivityFeedProofs -------------------------
(***************************************************************************)
(* Proofs about ActivityFeed, for any finite set of entries, any number of   *)
(* catch-ups, any limit and any number of faults.                           *)
(***************************************************************************)
EXTENDS ActivityFeed, FiniteSetTheorems, WellFoundedInduction, TLAPS

-----------------------------------------------------------------------------
(* Greatest numbers *)

\* A nonempty set of numbers has a least element.
LEMMA LeastNumber ==
  ASSUME NEW S \in SUBSET Nat, S # {}
  PROVE  \E m \in S : \A x \in S : m <= x
<1> DEFINE Less == {p \in Nat \X Nat : p[1] < p[2]}
<1>1. IsWellFoundedOn(Less, Nat)
  <2>1. OpToRel(<, Nat) = Less
    BY Zenon DEF OpToRel
  <2> QED
    BY <2>1, NatLessThanWellFounded, Zenon
<1>2. PICK m \in S : \A x \in S : ~ (<<x, m>> \in Less)
  <2> HIDE DEF Less
  <2> QED
    BY <1>1, WFMin
<1>3. ASSUME NEW x \in S, x < m PROVE FALSE
  <2>1. <<x, m>> \in Less
    BY <1>3
  <2> QED
    BY <1>2, <2>1
<1> QED
  BY <1>3

\* A bounded one also has a greatest.
LEMMA GreatestNumber ==
  ASSUME NEW n \in Nat, NEW S \in SUBSET (0..n), S # {}
  PROVE  \E m \in S : \A x \in S : x <= m
<1> DEFINE Gaps == {n - x : x \in S}
<1>1. Gaps \in SUBSET Nat /\ Gaps # {}
  OBVIOUS
<1>2. PICK g \in Gaps : \A k \in Gaps : g <= k
  <2> HIDE DEF Gaps
  <2> QED
    BY <1>1, LeastNumber
<1>3. PICK m \in S : g = n - m
  BY <1>2
<1>4. ASSUME NEW x \in S PROVE x <= m
  <2>1. n - x \in Gaps /\ x \in Int /\ m \in Int
    OBVIOUS
  <2>2. n - m <= n - x
    BY <1>2, <1>3, <2>1
  <2> QED
    BY <2>1, <2>2
<1> QED
  BY <1>4

-----------------------------------------------------------------------------
(* The invariant *)

ReqRow == [phase : {"none", "sent", "answered"}, since : 0..MaxClock,
           found : SUBSET Entry, heals : BOOLEAN]

Deed == {"writes", "hands over", "deletes"}
Item == Entry \cup {"connect"}

LogTypes ==
  /\ clock \in 1..MaxClock
  /\ stamp \in [Entry -> 0..MaxClock]
  /\ writer \in [Entry -> {"none", "inserted", "committed", "ended", "rolledBack"}]
  /\ deed \in [Entry -> Deed]
  /\ subject \in {"mine", "others", "deleted"}
  /\ toMe \subseteq Entry /\ entitled \subseteq Entry

TabTypes ==
  /\ link \in {"closed", "connecting", "joined", "live", "offline"}
  /\ before \in BOOLEAN
  /\ queue \in Seq(Item)
  /\ events \subseteq Entry
  /\ newest \in 0..MaxClock
  /\ req \in [Req -> ReqRow]

Types == LogTypes /\ TabTypes

\* What is shown, or will be unless it is lost.
InQueue == {queue[i] : i \in 1..Len(queue)} \ {"connect"}
Found == UNION {req[q].found : q \in Req}
Pending == events \cup InQueue \cup Found

\* A tab that is in its room and has not yet handled "connect" has it first in
\* its queue.
LinkOK ==
  /\ ~ InRoom => queue = <<>>
  /\ link \in {"live", "offline"} => before
  /\ link = "closed" => events = {} /\ newest = 0 /\ \A q \in Req : req[q] = Free
  /\ link = "joined" <=> (queue # <<>> /\ Head(queue) = "connect")
  /\ \A i \in 1..Len(queue) : queue[i] = "connect" => i = 1
  /\ \A e \in InQueue : writer[e] = "ended"

Rights ==
  /\ toMe \subseteq entitled
  /\ InScope => Visible \subseteq entitled
  /\ Pending \subseteq Visible \cap entitled

\* A catch-up asks for what came after an event that was shown when it was sent.
Sound(r) ==
  /\ r.phase = "none" => r = Free
  /\ r.phase = "sent" => r.found = {}
  /\ r.since = 0 \/ \E f \in events : stamp[f] = r.since
  /\ \A f \in r.found : stamp[f] > r.since
  /\ Cardinality(r.found) <= Limit

Asked == \A q \in Req : Sound(req[q])

Newest ==
  /\ \A f \in events : stamp[f] <= newest
  /\ newest = 0 \/ \E f \in events : stamp[f] = newest

Stamps == \A e \in Entry : /\ stamp[e] <= clock
                           /\ writer[e] # "none" => stamp[e] >= 1
                           /\ writer[e] = "none" => e \notin toMe

(* What follows holds until something excuses a hole. *)

\* The subject has not changed hands: all entries are the user's, or none.
Scope ==
  /\ \/ subject = "mine" /\ Visible \subseteq toMe
     \/ subject = "others" /\ Visible \cap toMe = {}
  /\ \A e \in Entry : (writer[e] = "inserted" /\ deed[e] = "writes") => (e \in toMe <=> InScope)

\* One entry is written at a time: it is the newest one.
Open(e) == writer[e] \in {"inserted", "committed"}

InOrder ==
  /\ \A e \in Entry : Open(e) => \A f \in Entry \ {e} : ~ Open(f) /\ stamp[f] < stamp[e]
  /\ \A i, j \in 1..Len(queue) : (i < j /\ queue[i] # "connect") => stamp[queue[i]] < stamp[queue[j]]

\* e is before all that the feed shows or will show, and the limit cut it off.
Old(e) == /\ Cardinality(Visible) > Limit
          /\ Pending # {}
          /\ \A f \in Pending : stamp[f] >= stamp[e]

\* An answer has left nothing out but what the limit cut off.
CutOK == \A q \in Req : \A e \in Visible \ (events \cup req[q].found) : \A g \in req[q].found :
           (req[q].since < stamp[e] /\ stamp[e] <= stamp[g]) => Old(e)

Covered(e) == \E q \in Req : \/ req[q].phase = "sent" /\ req[q].since < stamp[e]
                             \/ e \in req[q].found

\* A catch-up has failed and none has been sent since.
Unhealed == failed /\ \A q \in Req : req[q] # Free => ~ req[q].heals

\* The next catch-up will ask for e, or one has.
Beyond(e) == stamp[e] > newest \/ Covered(e)

\* e is on its way, or there will be a catch-up.
Coming(e) == \/ e \in InQueue \/ Covered(e)
             \/ writer[e] = "committed"
             \/ link = "offline"
             \/ link = "joined" /\ before
             \/ Unhealed

\* Where each entry is that the feed does not show.
Missing == (Visible \cap toMe) \ events

Whereabouts == (link # "closed" /\ ~ moved) =>
                 \A e \in Missing : Old(e) \/ (Beyond(e) /\ Coming(e))

Steady == ~ excused => Scope /\ InOrder /\ CutOK /\ Whereabouts

IInv == Types /\ LinkOK /\ Rights /\ Asked /\ Newest /\ Stamps /\ Steady

-----------------------------------------------------------------------------
(* Sets of entries *)

\* Sets of entries are finite.
LEMMA FiniteEntries ==
  ASSUME NEW s \in SUBSET Entry
  PROVE  IsFiniteSet(s) /\ Cardinality(s) \in Nat
<1> QED
  BY EntriesAssumption, FS_Subset, FS_CardinalityType

\* A nonempty set of entries has a newest one.
LEMMA NewestOne ==
  ASSUME stamp \in [Entry -> 0..MaxClock], NEW s \in SUBSET Entry, s # {}
  PROVE  \E g \in s : \A f \in s : stamp[f] <= stamp[g]
<1> DEFINE times == {stamp[e] : e \in s}
<1>1. times \in SUBSET Nat /\ times # {} /\ times \in SUBSET (0..MaxClock)
  OBVIOUS
<1>2. PICK m \in times : \A x \in times : x <= m
  <2> HIDE DEF times
  <2> QED
    BY <1>1, ClockAssumption, GreatestNumber
<1>3. PICK g \in s : stamp[g] = m
  BY <1>2
<1>4. ASSUME NEW f \in s PROVE stamp[f] <= stamp[g]
  BY <1>2, <1>3
<1> QED
  BY <1>4

\* The newest Limit of more than Limit entries can be told.
LEMMA NewestOnes ==
  ASSUME stamp \in [Entry -> 0..MaxClock], NEW s \in SUBSET Entry, ~ (Cardinality(s) <= Limit)
  PROVE  \E r \in SUBSET s : /\ Cardinality(r) = Limit
                             /\ \A e \in r : \A f \in s \ r : stamp[f] <= stamp[e]
<1> DEFINE Top(r) == /\ Cardinality(r) <= Limit
                     /\ \A e \in r : \A f \in s \ r : stamp[f] <= stamp[e]
           Sizes == {Cardinality(r) : r \in {x \in SUBSET s : Top(x)}}
<1> USE LimitAssumption
<1>1. Sizes \in SUBSET (0..Limit) /\ Sizes # {}
  <2>1. Top({}) /\ {} \in SUBSET s
    BY FS_EmptySet
  <2>2. ASSUME NEW r \in SUBSET s, Top(r) PROVE Cardinality(r) \in 0..Limit
    BY <2>2, FiniteEntries
  <2> HIDE DEF Top
  <2> QED
    BY <2>1, <2>2
<1>2. PICK n \in Sizes : \A k \in Sizes : k <= n
  <2> HIDE DEF Sizes
  <2> QED
    BY <1>1, GreatestNumber
<1>3. PICK r \in SUBSET s : Top(r) /\ Cardinality(r) = n
  BY <1>2
<1>4. n \in Nat /\ n <= Limit /\ Cardinality(s) \in Nat
  BY <1>3, FiniteEntries
<1>5. ASSUME n # Limit PROVE FALSE
  <2>1. s \ r # {}
    <3>1. s # r
      BY <1>3, <1>4
    <3> QED
      BY <3>1
  <2>2. PICK g \in s \ r : \A f \in s \ r : stamp[f] <= stamp[g]
    <3>1. s \ r \in SUBSET Entry
      OBVIOUS
    <3> QED
      BY <2>1, <3>1, NewestOne
  <2> DEFINE more == r \cup {g}
  <2>3. Cardinality(more) = n + 1
    <3>1. IsFiniteSet(r)
      BY FiniteEntries
    <3>2. g \notin r
      BY <2>2
    <3> QED
      BY <1>3, <3>1, <3>2, FS_AddElement, Zenon
  <2>4. Top(more)
    <3>1. ASSUME NEW e \in more, NEW f \in s \ more PROVE stamp[f] <= stamp[e]
      <4>1. CASE e \in r
        BY <1>3, <4>1
      <4>2. CASE e = g
        BY <2>2, <4>2
      <4> QED
        BY <4>1, <4>2
    <3>2. Cardinality(more) <= Limit
      BY <1>4, <1>5, <2>3
    <3> QED
      BY <3>1, <3>2
  <2>5. n + 1 \in Sizes
    <3>1. more \in SUBSET s
      BY <2>2
    <3> HIDE DEF more, Top
    <3> QED
      BY <2>3, <2>4, <3>1
  <2> QED
    <3> HIDE DEF Sizes
    <3> QED
      BY <1>2, <1>4, <2>5
<1> QED
  BY <1>3, <1>5

\* What a catch-up returns: all of it, or the newest Limit of it.
LEMMA FetchedFacts ==
  ASSUME stamp \in [Entry -> 0..MaxClock], NEW s \in SUBSET Entry
  PROVE  /\ Fetched(s) \in SUBSET s
         /\ Cardinality(Fetched(s)) <= Limit
         /\ Cardinality(s) <= Limit => Fetched(s) = s
         /\ Cardinality(s) > Limit =>
              /\ Fetched(s) # {}
              /\ \A e \in Fetched(s), f \in s \ Fetched(s) : stamp[f] <= stamp[e]
<1>1. Cardinality(s) \in Nat /\ Limit \in Nat /\ Limit # 0
  BY FiniteEntries, LimitAssumption
<1>2. CASE Cardinality(s) <= Limit
  BY <1>1, <1>2 DEF Fetched
<1>3. CASE ~ (Cardinality(s) <= Limit)
  <2> DEFINE Top(r) == /\ Cardinality(r) = Limit
                       /\ \A e \in r : \A f \in s \ r : stamp[f] <= stamp[e]
  <2>1. \E r \in SUBSET s : Top(r)
    BY <1>3, NewestOnes
  <2>2. Fetched(s) = CHOOSE r \in SUBSET s : Top(r)
    BY <1>3 DEF Fetched
  <2>3. Fetched(s) \in SUBSET s /\ Top(Fetched(s))
    <3> HIDE DEF Top
    <3> QED
      BY <2>1, <2>2
  <2>4. Fetched(s) # {}
    BY <1>1, <2>3, FS_EmptySet
  <2> QED
    BY <1>1, <1>3, <2>3, <2>4
<1> QED
  BY <1>2, <1>3

\* What `remember` does to newestSeen.
LEMMA RememberFacts ==
  ASSUME stamp \in [Entry -> 0..MaxClock], newest \in 0..MaxClock,
         NEW s \in SUBSET Entry, Remember(s)
  PROVE  /\ newest' \in 0..MaxClock /\ newest <= newest'
         /\ \A f \in s : stamp[f] <= newest'
         /\ newest' = newest \/ \E f \in s : stamp[f] = newest'
<1> USE ClockAssumption
<1>1. CASE s = {}
  BY <1>1 DEF Remember
<1>2. CASE s # {}
  <2> DEFINE Least(t) == \A e \in s : stamp[e] <= t
  <2>1. \E t \in {stamp[e] : e \in s} : Least(t)
    BY <1>2, NewestOne
  <2>2. Highest(s) = CHOOSE t \in {stamp[e] : e \in s} : Least(t)
    BY DEF Highest
  <2>3. Highest(s) \in {stamp[e] : e \in s} /\ Least(Highest(s))
    <3> HIDE DEF Least
    <3> QED
      BY <2>1, <2>2
  <2> QED
    BY <1>2, <2>3 DEF Remember
<1> QED
  BY <1>1, <1>2

\* What of the state is a number.
LEMMA Numbers ==
  ASSUME Types
  PROVE  /\ clock \in Nat /\ clock >= 1 /\ clock \in 0..MaxClock
         /\ newest \in Nat
         /\ \A e \in Entry : stamp[e] \in Nat
         /\ \A q \in Req : req[q].since \in Nat
<1> USE ClockAssumption DEF Types
<1>1. clock \in 1..MaxClock
  BY DEF LogTypes
<1>2. clock \in Nat /\ clock >= 1 /\ clock \in 0..MaxClock
  BY <1>1
<1>3. newest \in Nat
  BY DEF TabTypes
<1>4. ASSUME NEW e \in Entry PROVE stamp[e] \in Nat
  <2>1. stamp[e] \in 0..MaxClock
    BY DEF LogTypes
  <2> QED
    BY <2>1
<1>5. ASSUME NEW q \in Req PROVE req[q].since \in Nat
  <2>1. req[q] \in ReqRow
    BY DEF TabTypes
  <2> QED
    BY <2>1 DEF ReqRow
<1> QED
  BY <1>2, <1>3, <1>4, <1>5

\* The same of the state a step leads to.
LEMMA NumbersNext ==
  ASSUME Types'
  PROVE  \A e \in Entry : stamp'[e] \in Nat
<1> SUFFICES ASSUME NEW e \in Entry PROVE stamp'[e] \in Nat
  OBVIOUS
<1>1. stamp'[e] \in 0..MaxClock
  BY DEF Types, LogTypes
<1> QED
  BY <1>1, ClockAssumption

-----------------------------------------------------------------------------
(* Queues, and what keeps the parts of the invariant *)

\* Handling the first event leaves the others, in their order.
LEMMA TailFacts ==
  ASSUME Types, LinkOK, queue # <<>>, queue' = Tail(queue)
  PROVE  /\ queue' \in Seq(Item)
         /\ Head(queue) \in Item
         /\ Head(queue) # "connect" => Head(queue) \in InQueue
         /\ InQueue' \subseteq InQueue /\ InQueue \subseteq InQueue' \cup {Head(queue)}
         /\ \A i \in 1..Len(queue') : queue'[i] # "connect"
         /\ InOrder => \A i, j \in 1..Len(queue') : i < j => stamp[queue'[i]] < stamp[queue'[j]]
<1>1. /\ queue \in Seq(Item) /\ Len(queue) \in Nat \ {0}
      /\ \A i \in 1..Len(queue) : queue[i] \in Item
  <2>1. queue \in Seq(Item)
    BY DEF Types, TabTypes
  <2> QED
    BY <2>1
<1>2. /\ queue' \in Seq(Item) /\ Len(queue') = Len(queue) - 1
      /\ \A i \in 1..Len(queue') : queue'[i] = queue[i + 1]
      /\ Head(queue) = queue[1]
  BY <1>1
<1>3. ASSUME NEW i \in 1..Len(queue') PROVE i + 1 \in 1..Len(queue) /\ i + 1 # 1
  BY <1>1, <1>2
<1>4. \A i \in 1..Len(queue') : queue'[i] # "connect"
  BY <1>2, <1>3 DEF LinkOK
<1>5. InQueue' \subseteq InQueue
  BY <1>2, <1>3 DEF InQueue
<1>6. InQueue \subseteq InQueue' \cup {Head(queue)}
  <2> SUFFICES ASSUME NEW i \in 1..Len(queue), queue[i] # "connect", i # 1
               PROVE  queue[i] \in InQueue'
    BY <1>2 DEF InQueue
  <2>1. i - 1 \in 1..Len(queue') /\ queue'[i - 1] = queue[i]
    BY <1>1, <1>2
  <2> QED
    BY <2>1, <1>4 DEF InQueue
<1>7. ASSUME InOrder, NEW i \in 1..Len(queue'), NEW j \in 1..Len(queue'), i < j
      PROVE  stamp[queue'[i]] < stamp[queue'[j]]
  <2>1. i + 1 < j + 1
    BY <1>7
  <2>2. queue[i + 1] # "connect"
    BY <1>2, <1>4
  <2> QED
    BY <2>1, <2>2, <1>2, <1>3, <1>7 DEF InOrder
<1> QED
  BY <1>1, <1>2, <1>4, <1>5, <1>6, <1>7 DEF InQueue

\* What is sent comes last.
LEMMA AppendFacts ==
  ASSUME Types, NEW e \in Entry, queue' = Append(queue, e)
  PROVE  /\ queue' \in Seq(Item) /\ queue' # <<>>
         /\ queue # <<>> => Head(queue') = Head(queue)
         /\ queue = <<>> => Head(queue') = e
         /\ InQueue' = InQueue \cup {e}
         /\ Len(queue') = Len(queue) + 1 /\ queue'[Len(queue) + 1] = e
         /\ \A i \in 1..Len(queue) : queue'[i] = queue[i]
<1>1. queue \in Seq(Item) /\ Len(queue) \in Nat /\ e # "connect"
  <2>1. queue \in Seq(Item)
    BY DEF Types, TabTypes
  <2> QED
    BY <2>1, EntriesAssumption
<1> e \in Item
  BY DEF Item
<1>2. /\ queue' \in Seq(Item)
      /\ Len(queue') = Len(queue) + 1 /\ queue'[Len(queue) + 1] = e
      /\ \A i \in 1..Len(queue) : queue'[i] = queue[i]
  BY <1>1
<1>3. InQueue' = InQueue \cup {e}
  <2>1. ASSUME NEW i \in 1..Len(queue'), queue'[i] # "connect" PROVE queue'[i] \in InQueue \cup {e}
    <3>1. i \in 1..Len(queue) \/ i = Len(queue) + 1
      BY <1>1, <1>2
    <3> QED
      BY <3>1, <1>2, <2>1 DEF InQueue
  <2>2. ASSUME NEW i \in 1..Len(queue) PROVE i \in 1..Len(queue') /\ queue'[i] = queue[i]
    BY <1>1, <1>2
  <2>3. Len(queue) + 1 \in 1..Len(queue')
    BY <1>1, <1>2
  <2> QED
    BY <2>1, <2>2, <2>3, <1>1, <1>2 DEF InQueue
<1>4. queue' # <<>> /\ (queue # <<>> => Head(queue') = Head(queue)) /\ (queue = <<>> => Head(queue') = e)
  BY <1>1, <1>2
<1> QED
  BY <1>2, <1>3, <1>4

\* What is cut off stays cut off while the feed has, or awaits, something newer.
LEMMA OldKept ==
  ASSUME Types, Types', Visible \subseteq Visible', Pending' # {},
         NEW e \in Visible, Old(e), stamp'[e] = stamp[e],
         \A f \in Pending' : stamp'[f] >= stamp[e]
  PROVE  Old(e)'
<1>1. Visible' \in SUBSET Entry /\ Visible \in SUBSET Visible'
  BY DEF Visible
<1>2. IsFiniteSet(Visible') /\ Cardinality(Visible') \in Nat /\ Cardinality(Visible) \in Nat
  BY <1>1, FiniteEntries
<1>3. Cardinality(Visible) <= Cardinality(Visible')
  BY <1>1, <1>2, FS_Subset
<1>4. Cardinality(Visible') > Limit
  BY <1>2, <1>3, LimitAssumption DEF Old
<1> QED
  BY <1>4 DEF Old

\* What the tab shows and awaits has been committed.
LEMMA PendingFacts ==
  ASSUME Types, Rights
  PROVE  /\ Pending \subseteq Visible /\ Visible \subseteq Entry
         /\ events \subseteq Pending /\ InQueue \subseteq Pending
         /\ \A q \in Req : req[q].found \subseteq Pending
<1> QED
  BY DEF Rights, Pending, Found, Visible

\* A step of the server that sends nothing leaves the tab as it is.
LEMMA TabKept ==
  ASSUME Types, Types', Rights, Visible \subseteq Visible', \A f \in Visible : stamp'[f] = stamp[f],
         UNCHANGED <<link, before, queue, events, newest, req, failed, moved>>
  PROVE  /\ Pending' = Pending /\ InQueue' = InQueue
         /\ Asked => Asked'
         /\ Newest => Newest'
         /\ (CutOK /\ \A e \in Visible' \ Visible, g \in Visible : stamp'[g] < stamp'[e]) => CutOK'
         /\ \A e \in Visible : /\ Old(e) => Old(e)'
                               /\ Beyond(e)' <=> Beyond(e)
                               /\ (Coming(e) /\ (writer[e] = "committed" => writer'[e] = "committed"))
                                     => Coming(e)'
<1>1. Pending' = Pending /\ Pending \subseteq Visible /\ events \subseteq Visible /\ InQueue' = InQueue
  BY PendingFacts DEF Pending, InQueue, Found
<1>2. \A q \in Req : req[q].found \subseteq Visible
  BY PendingFacts
<1>3. ASSUME NEW e \in Visible, Old(e) PROVE Old(e)'
  <2>1. Pending' # {} /\ \A f \in Pending' : stamp'[f] >= stamp[e]
    BY <1>1, <1>3 DEF Old
  <2> QED
    BY <2>1, <1>3, OldKept
<1>4. \A e \in Visible : Covered(e)' <=> Covered(e)
  BY DEF Covered
<1>5. \A e \in Visible : Beyond(e)' <=> Beyond(e)
  BY <1>4 DEF Beyond
<1>6. \A e \in Visible : (Coming(e) /\ (writer[e] = "committed" => writer'[e] = "committed"))
                            => Coming(e)'
  BY <1>1, <1>4 DEF Coming, Unhealed
<1>7. Asked => Asked'
  BY <1>1, <1>2 DEF Asked, Sound
<1>8. Newest => Newest'
  BY <1>1 DEF Newest
<1>9. ASSUME CutOK, \A e \in Visible' \ Visible, g \in Visible : stamp'[g] < stamp'[e]
      PROVE  CutOK'
  <2> SUFFICES ASSUME NEW q \in Req, NEW e \in Visible' \ (events \cup req[q].found),
                      NEW g \in req[q].found, req[q].since < stamp'[e], stamp'[e] <= stamp'[g]
               PROVE  Old(e)'
    BY DEF CutOK
  <2>1. CASE e \in Visible
    BY <2>1, <1>2, <1>3, <1>9 DEF CutOK
  <2>2. CASE e \notin Visible
    <3>1. stamp'[g] < stamp'[e] /\ g \in Entry /\ e \in Entry
      BY <2>2, <1>2, <1>9 DEF Visible
    <3>2. stamp'[g] \in Nat /\ stamp'[e] \in Nat
      BY <3>1, NumbersNext
    <3> QED
      BY <3>1, <3>2
  <2> QED
    BY <2>1, <2>2
<1> QED
  BY <1>1, <1>3, <1>5, <1>6, <1>7, <1>8, <1>9

-----------------------------------------------------------------------------
\* The invariant holds at first.
LEMMA InitIInv == Init => IInv
<1> SUFFICES ASSUME Init PROVE IInv
  OBVIOUS
<1> USE ClockAssumption, LimitAssumption
<1>1. Types
  <2>1. queue \in Seq(Item)
    BY DEF Init
  <2>2. req \in [Req -> ReqRow]
    BY DEF Init, ReqRow, Free
  <2>3. /\ stamp \in [Entry -> 0..MaxClock]
        /\ writer \in [Entry -> {"none", "inserted", "committed", "ended", "rolledBack"}]
        /\ deed \in [Entry -> Deed]
    BY DEF Init, Deed
  <2>4. /\ clock \in 1..MaxClock /\ newest \in 0..MaxClock
        /\ subject \in {"mine", "others", "deleted"}
        /\ link \in {"closed", "connecting", "joined", "live", "offline"}
    BY DEF Init
  <2>5. toMe \subseteq Entry /\ events \subseteq Entry /\ entitled \subseteq Entry
    BY DEF Init
  <2>6. before \in BOOLEAN
    BY DEF Init
  <2> QED
    BY <2>1, <2>2, <2>3, <2>4, <2>5, <2>6 DEF Types, LogTypes, TabTypes
<1>2. Visible = {} /\ Pending = {} /\ queue = <<>>
  BY DEF Init, Visible, Pending, InQueue, Found, Free
<1>3. LinkOK
  <2>1. InQueue = {}
    BY <1>2 DEF Pending
  <2> QED
    BY <1>2, <2>1 DEF Init, LinkOK, InRoom
<1>4. Rights
  BY <1>2 DEF Init, Rights
<1>5. Asked /\ Newest /\ Stamps
  BY FS_EmptySet DEF Init, Asked, Sound, Free, Newest, Stamps
<1>6. Scope /\ InOrder
  BY <1>2 DEF Init, Scope, InScope, InOrder, Open
<1>7. CutOK /\ Whereabouts
  BY <1>2 DEF CutOK, Whereabouts, Missing
<1> QED
  BY <1>1, <1>3, <1>4, <1>5, <1>6, <1>7 DEF IInv, Steady

-----------------------------------------------------------------------------
(* Transactions *)

\* What a step that excuses nothing has to keep.
LEMMA SteadyFrom ==
  ASSUME IInv, excused => excused',
         ~ excused' => (~ excused => Scope' /\ InOrder' /\ CutOK' /\ Whereabouts'),
         Types', LinkOK', Rights', Asked', Newest', Stamps'
  PROVE  IInv'
<1> QED
  BY DEF IInv, Steady

\* The stamps of entries that are visible do not change.
LEMMA InsertStep ==
  ASSUME IInv, NEW e \in Entry, NEW d \in Deed, Insert(e, d)
  PROVE  IInv'
<1> USE DEF IInv
<1>1. /\ writer[e] = "none" /\ writer' = [writer EXCEPT ![e] = "inserted"]
      /\ stamp' = [stamp EXCEPT ![e] = clock] /\ deed' = [deed EXCEPT ![e] = d]
      /\ clock' = clock /\ subject' = subject
      /\ toMe \subseteq toMe' /\ toMe' \subseteq toMe \cup {e}
      /\ entitled \subseteq entitled' /\ entitled' \subseteq entitled \cup {e}
      /\ e \in toMe' => e \in entitled' \/ e \in toMe
      /\ UNCHANGED <<link, before, queue, events, newest, req, failed, moved>>
  BY DEF Insert, InsertOnly, Stamp, Address
<1>2. LogTypes /\ TabTypes /\ Types
  BY DEF Types
<1>3. LogTypes'
  <2>1. stamp' \in [Entry -> 0..MaxClock]
    BY <1>1, <1>2, Numbers DEF LogTypes
  <2>2. /\ writer' \in [Entry -> {"none", "inserted", "committed", "ended", "rolledBack"}]
        /\ deed' \in [Entry -> Deed]
    BY <1>1, <1>2 DEF LogTypes
  <2>3. clock' \in 1..MaxClock /\ subject' \in {"mine", "others", "deleted"}
    BY <1>1, <1>2 DEF LogTypes
  <2>4. toMe' \subseteq Entry /\ entitled' \subseteq Entry
    BY <1>1, <1>2 DEF LogTypes
  <2> QED
    BY <2>1, <2>2, <2>3, <2>4 DEF LogTypes
<1>4. TabTypes'
  BY <1>1, <1>2 DEF TabTypes
<1>5. Types'
  BY <1>3, <1>4 DEF Types
<1>6. Visible' = Visible /\ e \notin Visible /\ (InScope' <=> InScope)
  BY <1>1, <1>2 DEF Visible, LogTypes, InScope
<1>7. \A f \in Entry \ {e} : stamp'[f] = stamp[f] /\ writer'[f] = writer[f] /\ deed'[f] = deed[f]
  BY <1>1, <1>2 DEF LogTypes
<1>8. stamp'[e] = clock /\ writer'[e] = "inserted" /\ deed'[e] = d
  BY <1>1, <1>2 DEF LogTypes
<1>9. \A f \in Visible : f \in Entry \ {e}
  BY <1>6 DEF Visible
<1>10. /\ Pending' = Pending /\ Asked' /\ Newest' /\ (CutOK => CutOK')
       /\ \A f \in Visible : /\ Old(f) => Old(f)'
                             /\ Beyond(f)' <=> Beyond(f)
                             /\ Coming(f) => Coming(f)'
  BY <1>1, <1>2, <1>5, <1>6, <1>7, <1>9, TabKept
<1>11. LinkOK'
  <2>1. InQueue \subseteq Visible /\ InQueue' = InQueue
    BY <1>1, <1>2, PendingFacts DEF InQueue
  <2>2. \A f \in InQueue' : writer'[f] = "ended"
    BY <2>1, <1>7, <1>9 DEF LinkOK
  <2> QED
    BY <2>2, <1>1 DEF LinkOK, InRoom
<1>12. Rights'
  BY <1>1, <1>6, <1>10 DEF Rights
<1>13. Stamps'
  <2>1. clock \in Nat /\ clock >= 1 /\ \A f \in Entry : stamp[f] \in Nat
    BY <1>2, Numbers
  <2>2. ASSUME NEW f \in Entry
        PROVE  stamp'[f] <= clock /\ (writer'[f] # "none" => stamp'[f] >= 1)
    <3>1. CASE f = e
      BY <2>1, <3>1, <1>8
    <3>2. CASE f # e
      BY <3>2, <1>7 DEF Stamps
    <3> QED
      BY <3>1, <3>2
  <2>3. \A f \in Entry : writer'[f] = "none" => f \notin toMe'
    BY <1>1, <1>7, <1>8 DEF Stamps
  <2> QED
    BY <2>2, <2>3, <1>1 DEF Stamps
<1>14. excused => excused'
  BY DEF Insert, InsertOnly, Stamp
<1>15. ASSUME ~ excused', ~ excused PROVE Scope' /\ InOrder' /\ CutOK' /\ Whereabouts'
  <2>1. \A f \in Entry \ {e} : ~ Open(f) /\ stamp[f] # clock
    BY <1>15 DEF Insert, InsertOnly, Stamp, Open
  <2>2. Scope /\ InOrder /\ CutOK /\ Whereabouts
    BY <1>15 DEF Steady
  <2>3. Scope'
    <3>1. e \notin toMe
      BY <1>1 DEF Stamps
    <3>2. d = "writes" => (e \in toMe' <=> InScope)
      BY <3>1 DEF Insert, InsertOnly, Address
    <3>3. \/ subject' = "mine" /\ Visible' \subseteq toMe'
          \/ subject' = "others" /\ Visible' \cap toMe' = {}
      BY <2>2, <1>1, <1>6 DEF Scope
    <3>4. ASSUME NEW f \in Entry, writer'[f] = "inserted", deed'[f] = "writes"
          PROVE  f \in toMe' <=> InScope'
      <4>1. CASE f = e
        BY <4>1, <3>2, <1>6, <1>8, <3>4
      <4>2. CASE f # e
        BY <4>2, <3>4, <2>2, <1>1, <1>6, <1>7 DEF Scope
      <4> QED
        BY <4>1, <4>2
    <3> QED
      BY <3>3, <3>4 DEF Scope
  <2>4. InOrder'
    <3>1. ASSUME NEW f \in Entry \ {e} PROVE ~ Open(f)' /\ stamp'[f] < stamp'[e]
      <4>1. stamp[f] \in Nat /\ clock \in Nat /\ stamp[f] <= clock
        BY <1>2, Numbers DEF Stamps
      <4>2. stamp[f] < clock
        BY <4>1, <2>1
      <4>3. stamp'[f] = stamp[f] /\ stamp'[e] = clock
        BY <1>7, <1>8
      <4>4. ~ Open(f)'
        BY <2>1, <1>7 DEF Open
      <4> QED
        BY <4>2, <4>3, <4>4
    <3>2. \A i \in 1..Len(queue) : queue[i] # "connect" => queue[i] \in Visible
      <4>1. InQueue \subseteq Visible
        BY PendingFacts, <1>2
      <4> QED
        BY <4>1 DEF InQueue
    <3>3. \A i, j \in 1..Len(queue) : (i < j /\ queue[i] # "connect") => queue[j] # "connect"
      BY <1>2 DEF LinkOK, TabTypes
    <3>4. \A i, j \in 1..Len(queue) : (i < j /\ queue[i] # "connect")
                                         => stamp'[queue[i]] < stamp'[queue[j]]
      BY <3>2, <3>3, <2>2, <1>7, <1>9 DEF InOrder
    <3> QED
      BY <3>1, <3>4, <1>1 DEF InOrder
  <2>5. Whereabouts'
    BY <2>2, <1>1, <1>6, <1>10 DEF Whereabouts, Missing
  <2> QED
    BY <2>2, <2>3, <2>4, <2>5, <1>10
<1> QED
  BY <1>5, <1>10, <1>11, <1>12, <1>13, <1>14, <1>15, SteadyFrom

\* A commit makes the newest entry visible.
LEMMA CommitStep ==
  ASSUME IInv, NEW e \in Entry, Commit(e)
  PROVE  IInv'
<1> USE DEF IInv
<1>1. /\ writer[e] = "inserted" /\ writer' = [writer EXCEPT ![e] = "committed"]
      /\ subject' = Becomes(deed[e]) /\ deed' = [deed EXCEPT ![e] = "writes"]
      /\ entitled' = IF InScope' THEN entitled \cup Visible' ELSE entitled
      /\ UNCHANGED <<clock, stamp, toMe>>
      /\ UNCHANGED <<link, before, queue, events, newest, req, failed, moved>>
  BY DEF Commit
<1>2. LogTypes /\ TabTypes /\ Types
  BY DEF Types
<1>3. \A f \in Entry \ {e} : writer'[f] = writer[f] /\ deed'[f] = deed[f]
  BY <1>1, <1>2 DEF LogTypes
<1>4. writer'[e] = "committed"
  BY <1>1, <1>2 DEF LogTypes
<1>5. Visible' = Visible \cup {e} /\ e \notin Visible
  BY <1>1, <1>3, <1>4 DEF Visible
<1>6. Types'
  <2>1. subject' \in {"mine", "others", "deleted"}
    BY <1>1, <1>2 DEF LogTypes, Becomes, Deed
  <2>2. /\ writer' \in [Entry -> {"none", "inserted", "committed", "ended", "rolledBack"}]
        /\ deed' \in [Entry -> Deed]
    BY <1>1, <1>2 DEF LogTypes, Deed
  <2>3. entitled' \subseteq Entry
    BY <1>1, <1>2 DEF LogTypes, Visible
  <2>4. LogTypes'
    BY <1>1, <1>2, <2>1, <2>2, <2>3 DEF LogTypes
  <2>5. TabTypes'
    BY <1>1, <1>2 DEF TabTypes
  <2> QED
    BY <2>4, <2>5 DEF Types
<1>7. /\ Pending' = Pending /\ InQueue' = InQueue /\ Asked' /\ Newest'
      /\ (CutOK /\ \A f \in Visible' \ Visible, g \in Visible : stamp'[g] < stamp'[f]) => CutOK'
      /\ \A f \in Visible : /\ Old(f) => Old(f)'
                            /\ Beyond(f)' <=> Beyond(f)
                            /\ Coming(f) => Coming(f)'
  <2>1. \A f \in Visible : writer[f] = "committed" => writer'[f] = "committed"
    BY <1>3, <1>4 DEF Visible
  <2>2. Visible \subseteq Visible' /\ \A f \in Visible : stamp'[f] = stamp[f]
    BY <1>1, <1>5
  <2> QED
    BY <2>1, <2>2, <1>1, <1>2, <1>6, TabKept
<1>8. LinkOK'
  <2>1. \A f \in InQueue' : writer'[f] = "ended"
    <3>1. InQueue \subseteq Visible
      BY <1>2, PendingFacts
    <3> QED
      BY <3>1, <1>3, <1>5, <1>7 DEF LinkOK, Visible
  <2> QED
    BY <2>1, <1>1 DEF LinkOK, InRoom
<1>9. Rights'
  BY <1>1, <1>5, <1>7 DEF Rights
<1>10. Stamps'
  BY <1>1, <1>3, <1>4 DEF Stamps
<1>11. excused => excused'
  BY DEF Commit
<1>12. ASSUME ~ excused', ~ excused PROVE Scope' /\ InOrder' /\ CutOK' /\ Whereabouts'
  <2>1. Scope /\ InOrder /\ CutOK /\ Whereabouts
    BY <1>12 DEF Steady
  <2>2. subject' = subject /\ deed[e] = "writes"
    <3>1. subject' = subject
      BY <1>12 DEF Commit
    <3>2. deed[e] \in Deed /\ subject \in {"mine", "others"}
      BY <1>2, <2>1 DEF LogTypes, Scope
    <3> QED
      BY <3>1, <3>2, <1>1 DEF Becomes, Deed
  <2>3. Scope'
    <3>1. e \in toMe <=> InScope
      BY <2>1, <2>2, <1>1 DEF Scope
    <3> QED
      BY <3>1, <2>1, <2>2, <1>1, <1>3, <1>4, <1>5 DEF Scope, InScope
  <2>4. InOrder'
    <3>1. \A f \in Entry : Open(f)' <=> Open(f)
      BY <1>1, <1>3, <1>4 DEF Open
    <3> QED
      BY <3>1, <2>1, <1>1 DEF InOrder
  <2>5. \A f \in Entry \ {e} : stamp[f] < stamp[e]
    BY <2>1, <1>1 DEF InOrder, Open
  <2>6. CutOK'
    BY <2>1, <2>5, <1>1, <1>5, <1>7 DEF Visible
  <2>7. e \notin events => Beyond(e)' /\ Coming(e)'
    <3>1. stamp[e] \in Nat /\ stamp[e] >= 1
      BY <1>1, <1>2, Numbers DEF Stamps
    <3>2. e \notin events => stamp[e] > newest
      <4>1. CASE newest = 0
        BY <3>1, <4>1
      <4>2. CASE newest # 0
        <5>1. PICK g \in events : stamp[g] = newest
          BY <4>2 DEF Newest
        <5>2. e \notin events => stamp[g] < stamp[e]
          BY <5>1, <2>5, <1>2 DEF TabTypes
        <5>3. stamp[g] \in Nat
          BY <5>1, <1>2, Numbers DEF TabTypes
        <5> QED
          BY <5>1, <5>2, <5>3, <3>1
      <4> QED
        BY <4>1, <4>2
    <3> QED
      BY <3>2, <1>1, <1>4 DEF Beyond, Coming
  <2>8. Whereabouts'
    <3> SUFFICES ASSUME link # "closed", ~ moved, NEW f \in Missing'
                 PROVE  Old(f)' \/ (Beyond(f)' /\ Coming(f)')
      BY <1>1 DEF Whereabouts
    <3>1. CASE f = e
      BY <3>1, <2>7, <1>1 DEF Missing
    <3>2. CASE f # e
      <4>1. f \in Missing
        BY <3>2, <1>1, <1>5 DEF Missing
      <4> QED
        BY <4>1, <2>1, <1>7 DEF Whereabouts, Missing
    <3> QED
      BY <3>1, <3>2
  <2> QED
    BY <2>3, <2>4, <2>6, <2>8
<1> QED
  BY <1>6, <1>7, <1>8, <1>9, <1>10, <1>11, <1>12, SteadyFrom

\* A rolled back entry was not visible.
LEMMA RollBackStep ==
  ASSUME IInv, NEW e \in Entry, RollBack(e)
  PROVE  IInv'
<1> USE DEF IInv
<1>1. /\ writer[e] = "inserted" /\ writer' = [writer EXCEPT ![e] = "rolledBack"]
      /\ deed' = [deed EXCEPT ![e] = "writes"]
      /\ UNCHANGED <<clock, stamp, subject, toMe, entitled, excused>>
      /\ UNCHANGED <<link, before, queue, events, newest, req, failed, moved>>
  BY DEF RollBack, history
<1>2. LogTypes /\ TabTypes /\ Types
  BY DEF Types
<1>3. \A f \in Entry \ {e} : writer'[f] = writer[f] /\ deed'[f] = deed[f]
  BY <1>1, <1>2 DEF LogTypes
<1>4. writer'[e] = "rolledBack"
  BY <1>1, <1>2 DEF LogTypes
<1>5. Visible' = Visible /\ e \notin Visible /\ (InScope' <=> InScope)
  BY <1>1, <1>3, <1>4 DEF Visible, InScope
<1>6. Types'
  <2>1. /\ writer' \in [Entry -> {"none", "inserted", "committed", "ended", "rolledBack"}]
        /\ deed' \in [Entry -> Deed]
    BY <1>1, <1>2 DEF LogTypes, Deed
  <2>2. LogTypes' /\ TabTypes'
    BY <1>1, <1>2, <2>1 DEF LogTypes, TabTypes
  <2> QED
    BY <2>2 DEF Types
<1>7. /\ Pending' = Pending /\ InQueue' = InQueue /\ Asked' /\ Newest' /\ (CutOK => CutOK')
      /\ \A f \in Visible : /\ Old(f) => Old(f)'
                            /\ Beyond(f)' <=> Beyond(f)
                            /\ Coming(f) => Coming(f)'
  <2>1. \A f \in Visible : writer'[f] = writer[f]
    BY <1>3, <1>5 DEF Visible
  <2> QED
    BY <2>1, <1>1, <1>2, <1>5, <1>6, TabKept
<1>8. LinkOK'
  <2>1. \A f \in InQueue' : writer'[f] = "ended"
    <3>1. InQueue \subseteq Visible
      BY <1>2, PendingFacts
    <3> QED
      BY <3>1, <1>3, <1>5, <1>7 DEF LinkOK, Visible
  <2> QED
    BY <2>1, <1>1 DEF LinkOK, InRoom
<1>9. Rights'
  BY <1>1, <1>5, <1>7 DEF Rights
<1>10. Stamps'
  BY <1>1, <1>3, <1>4 DEF Stamps
<1>11. ASSUME ~ excused PROVE Scope' /\ InOrder' /\ CutOK' /\ Whereabouts'
  <2>1. Scope /\ InOrder /\ CutOK /\ Whereabouts
    BY <1>11 DEF Steady
  <2>2. Scope'
    BY <2>1, <1>1, <1>3, <1>4, <1>5 DEF Scope
  <2>3. InOrder'
    <3>1. \A f \in Entry : Open(f)' => Open(f)
      BY <1>1, <1>3, <1>4 DEF Open
    <3> QED
      BY <3>1, <2>1, <1>1 DEF InOrder
  <2>4. Whereabouts'
    BY <2>1, <1>1, <1>5, <1>7 DEF Whereabouts, Missing
  <2> QED
    BY <2>1, <2>2, <2>3, <2>4, <1>7
<1> QED
  BY <1>1, <1>6, <1>7, <1>8, <1>9, <1>10, <1>11, SteadyFrom

\* The clock moves on.
LEMMA TickStep ==
  ASSUME IInv, Tick
  PROVE  IInv'
<1> USE DEF IInv
<1>1. /\ clock < MaxClock /\ clock' = clock + 1
      /\ UNCHANGED <<stamp, writer, deed, subject, toMe, entitled, excused>>
      /\ UNCHANGED <<link, before, queue, events, newest, req, failed, moved>>
  BY DEF Tick, history, log
<1>2. LogTypes /\ TabTypes /\ Types
  BY DEF Types
<1>3. clock' \in 1..MaxClock
  <2>1. clock \in Nat /\ clock >= 1 /\ MaxClock \in Nat
    BY <1>2, Numbers, ClockAssumption
  <2> QED
    BY <2>1, <1>1
<1>4. Types'
  BY <1>1, <1>2, <1>3 DEF Types, LogTypes, TabTypes
<1>5. Visible' = Visible /\ (InScope' <=> InScope)
  BY <1>1 DEF Visible, InScope
<1>6. /\ Pending' = Pending /\ InQueue' = InQueue /\ Asked' /\ Newest' /\ (CutOK => CutOK')
      /\ \A f \in Visible : /\ Old(f) => Old(f)'
                            /\ Beyond(f)' <=> Beyond(f)
                            /\ Coming(f) => Coming(f)'
  BY <1>1, <1>2, <1>4, <1>5, TabKept
<1>7. LinkOK' /\ Rights'
  BY <1>1, <1>5, <1>6 DEF LinkOK, InRoom, Rights
<1>8. Stamps'
  <2>1. clock \in Nat /\ \A f \in Entry : stamp[f] \in Nat
    BY <1>2, Numbers
  <2>2. \A f \in Entry : stamp[f] <= clock + 1
    BY <2>1 DEF Stamps
  <2> QED
    BY <2>2, <1>1 DEF Stamps
<1>9. ASSUME ~ excused PROVE Scope' /\ InOrder' /\ CutOK' /\ Whereabouts'
  BY <1>1, <1>5, <1>6, <1>9 DEF Steady, Scope, InOrder, Open, Whereabouts, Missing
<1> QED
  BY <1>1, <1>4, <1>6, <1>7, <1>8, <1>9, SteadyFrom

\* What is emitted is newer than whatever the tab shows or awaits.
LEMMA EmitStep ==
  ASSUME IInv, NEW e \in Entry, EmitEntry(e)
  PROVE  IInv'
<1> USE DEF IInv
<1>1. /\ writer[e] = "committed" /\ writer' = [writer EXCEPT ![e] = "ended"]
      /\ queue' = IF InRoom /\ e \in toMe THEN Append(queue, e) ELSE queue
      /\ excused' = (excused \/ Uncovered)
      /\ UNCHANGED <<clock, stamp, deed, subject, toMe, entitled>>
      /\ UNCHANGED <<link, before, events, newest, req, failed, moved>>
  BY DEF EmitEntry
<1>2. LogTypes /\ TabTypes /\ Types
  BY DEF Types
<1>3. \A f \in Entry \ {e} : writer'[f] = writer[f]
  BY <1>1, <1>2 DEF LogTypes
<1>4. writer'[e] = "ended"
  BY <1>1, <1>2 DEF LogTypes
<1>5. Visible' = Visible /\ e \in Visible /\ (InScope' <=> InScope)
  BY <1>1, <1>3, <1>4 DEF Visible, InScope
<1>6. (InRoom /\ e \in toMe) =>
        /\ queue' \in Seq(Item) /\ queue' # <<>>
        /\ queue # <<>> => Head(queue') = Head(queue)
        /\ queue = <<>> => Head(queue') = e
        /\ InQueue' = InQueue \cup {e}
        /\ Len(queue') = Len(queue) + 1 /\ queue'[Len(queue) + 1] = e
        /\ \A i \in 1..Len(queue) : queue'[i] = queue[i]
  BY <1>1, <1>2, AppendFacts
<1>7. ~ (InRoom /\ e \in toMe) => queue' = queue /\ InQueue' = InQueue
  BY <1>1 DEF InQueue
<1>8. Types'
  <2>1. writer' \in [Entry -> {"none", "inserted", "committed", "ended", "rolledBack"}]
    BY <1>1, <1>2 DEF LogTypes
  <2>2. queue' \in Seq(Item)
    BY <1>2, <1>6, <1>7 DEF TabTypes
  <2>3. LogTypes' /\ TabTypes'
    BY <1>1, <1>2, <2>1, <2>2 DEF LogTypes, TabTypes
  <2> QED
    BY <2>3 DEF Types
<1>9. /\ Pending \subseteq Pending' /\ Pending' \subseteq Pending \cup {e}
      /\ InQueue \subseteq InQueue' /\ InQueue' \subseteq InQueue \cup {e}
      /\ (e \in InQueue' /\ e \notin InQueue) => e \in toMe
  BY <1>1, <1>6, <1>7 DEF Pending, Found
<1>10. LinkOK'
  <2>1. \A f \in InQueue' : writer'[f] = "ended"
    <3>1. InQueue \subseteq Visible
      BY <1>2, PendingFacts
    <3> QED
      BY <3>1, <1>3, <1>4, <1>9 DEF LinkOK, Visible
  <2>2. \A i \in 1..Len(queue') : queue'[i] = "connect" => i = 1
    <3>1. CASE InRoom /\ e \in toMe
      <4> SUFFICES ASSUME NEW i \in 1..Len(queue'), queue'[i] = "connect" PROVE i = 1
        OBVIOUS
      <4>1. Len(queue) \in Nat /\ e # "connect"
        BY <1>2, EntriesAssumption DEF TabTypes
      <4>2. i \in 1..Len(queue)
        BY <3>1, <4>1, <1>6
      <4> QED
        BY <4>2, <3>1, <1>6 DEF LinkOK
    <3>2. CASE ~ (InRoom /\ e \in toMe)
      BY <3>2, <1>7 DEF LinkOK
    <3> QED
      BY <3>1, <3>2
  <2>3. link = "joined" <=> (queue' # <<>> /\ Head(queue') = "connect")
    BY <1>6, <1>7, EntriesAssumption DEF LinkOK
  <2>4. ~ InRoom => queue' = <<>>
    BY <1>7 DEF LinkOK
  <2> QED
    BY <2>1, <2>2, <2>3, <2>4, <1>1 DEF LinkOK, InRoom
<1>11. Rights'
  <2>1. e \in toMe => e \in entitled
    BY DEF Rights
  <2>2. Pending' \subseteq Visible \cap entitled
    BY <2>1, <1>5, <1>6, <1>7, <1>1 DEF Rights, Pending, Found
  <2> QED
    BY <2>2, <1>1, <1>5 DEF Rights
<1>12. Asked' /\ Newest'
  BY <1>1 DEF Asked, Sound, Newest
<1>13. Stamps'
  BY <1>1, <1>3, <1>4 DEF Stamps
<1>14. ASSUME ~ excused', ~ excused PROVE Scope' /\ InOrder' /\ CutOK' /\ Whereabouts'
  <2>1. Scope /\ InOrder /\ CutOK /\ Whereabouts
    BY <1>14 DEF Steady
  <2>2. \A f \in Entry \ {e} : ~ Open(f) /\ stamp[f] < stamp[e]
    BY <2>1, <1>1 DEF InOrder, Open
  <2>3. Scope'
    BY <2>1, <1>1, <1>3, <1>4, <1>5 DEF Scope
  <2>4. InOrder'
    <3>1. \A f \in Entry : ~ Open(f)'
      BY <2>2, <1>3, <1>4 DEF Open
    <3>2. ASSUME NEW i \in 1..Len(queue'), NEW j \in 1..Len(queue'), i < j, queue'[i] # "connect"
          PROVE  stamp[queue'[i]] < stamp[queue'[j]]
      <4>1. CASE InRoom /\ e \in toMe
        <5>1. Len(queue) \in Nat
          BY <1>2 DEF TabTypes
        <5>2. i \in 1..Len(queue) /\ (j \in 1..Len(queue) \/ j = Len(queue) + 1)
          BY <4>1, <5>1, <3>2, <1>6
        <5>3. CASE j \in 1..Len(queue)
          BY <5>2, <5>3, <4>1, <3>2, <1>6, <2>1 DEF InOrder
        <5>4. CASE j = Len(queue) + 1
          <6>1. queue'[i] \in InQueue /\ queue'[j] = e
            BY <5>2, <5>4, <4>1, <3>2, <1>6 DEF InQueue
          <6>2. writer[queue'[i]] = "ended" /\ queue'[i] \in Entry
            BY <6>1, <1>2, PendingFacts DEF LinkOK
          <6> QED
            BY <6>1, <6>2, <1>1, <2>2
        <5> QED
          BY <5>2, <5>3, <5>4
      <4>2. CASE ~ (InRoom /\ e \in toMe)
        BY <4>2, <3>2, <1>7, <2>1 DEF InOrder
      <4> QED
        BY <4>1, <4>2
    <3> QED
      BY <3>1, <3>2, <1>1 DEF InOrder
  <2>5. ASSUME NEW f \in Visible, Old(f) PROVE Old(f)'
    <3>1. f \in Entry /\ e \in Entry
      BY <1>2, PendingFacts
    <3>2. stamp[f] \in Nat /\ stamp[e] \in Nat
      BY <3>1, <1>2, Numbers
    <3>3. stamp[e] >= stamp[f]
      BY <3>1, <3>2, <2>2
    <3>4. Pending' # {} /\ \A g \in Pending' : stamp'[g] >= stamp[f]
      BY <3>3, <2>5, <1>1, <1>9 DEF Old
    <3> QED
      BY <3>4, <2>5, <1>1, <1>2, <1>5, <1>8, OldKept
  <2>6. CutOK'
    BY <2>1, <2>5, <1>1, <1>5 DEF CutOK
  <2>7. ASSUME link # "closed", NEW f \in Missing, Beyond(f), Coming(f) PROVE Beyond(f)' /\ Coming(f)'
    <3>1. Beyond(f)' /\ (Covered(f)' <=> Covered(f))
      BY <2>7, <1>1 DEF Beyond, Covered
    <3>2. CASE f # e
      BY <3>1, <3>2, <2>7, <1>1, <1>3, <1>9 DEF Coming, Unhealed, Missing, Visible
    <3>3. CASE f = e /\ InRoom
      BY <3>1, <3>3, <2>7, <1>6 DEF Coming, Missing
    <3>4. CASE f = e /\ ~ InRoom
      <4>1. link = "offline" \/ link = "connecting"
        BY <3>4, <2>7, <1>2 DEF InRoom, TabTypes
      <4>2. CASE link = "offline"
        BY <3>1, <4>2, <1>1 DEF Coming
      <4>3. CASE link = "connecting"
        <5>1. PICK q \in Req : req[q].phase = "sent"
          BY <4>3, <1>1, <1>14 DEF Uncovered
        <5>2. req[q].since < stamp[e]
          <6>1. stamp[e] \in Nat /\ stamp[e] >= 1
            BY <1>1, <1>2, Numbers DEF Stamps
          <6>2. CASE req[q].since = 0
            BY <6>1, <6>2
          <6>3. CASE \E g \in events : stamp[g] = req[q].since
            <7>1. PICK g \in events : stamp[g] = req[q].since
              BY <6>3
            <7>2. g \in Entry /\ g # e
              BY <7>1, <3>4, <1>2 DEF Missing, TabTypes
            <7> QED
              BY <7>1, <7>2, <2>2
          <6> QED
            BY <6>2, <6>3 DEF Asked, Sound
        <5> QED
          BY <3>1, <3>4, <5>1, <5>2 DEF Coming, Covered
      <4> QED
        BY <4>1, <4>2, <4>3
    <3> QED
      BY <3>2, <3>3, <3>4
  <2>8. Whereabouts'
    BY <2>1, <2>5, <2>7, <1>1, <1>5 DEF Whereabouts, Missing
  <2> QED
    BY <2>3, <2>4, <2>6, <2>8
<1> QED
  BY <1>1, <1>8, <1>10, <1>11, <1>12, <1>13, <1>14, SteadyFrom

-----------------------------------------------------------------------------
(* The tab *)

\* While the tab works, the log stays as it is.
LEMMA LogKept ==
  ASSUME IInv, UNCHANGED <<server, entitled>>
  PROVE  /\ LogTypes' /\ Stamps'
         /\ Visible' = Visible /\ (InScope' <=> InScope)
         /\ Scope => Scope'
         /\ toMe' = toMe /\ entitled' = entitled /\ stamp' = stamp /\ writer' = writer
<1>1. UNCHANGED <<clock, stamp, writer, deed, subject, toMe, entitled>>
  BY DEF server, log
<1>2. LogTypes' /\ Stamps'
  BY <1>1 DEF IInv, Types, LogTypes, Stamps
<1>3. Visible' = Visible /\ (InScope' <=> InScope)
  BY <1>1 DEF Visible, InScope
<1>4. Scope => Scope'
  BY <1>1, <1>3 DEF Scope
<1> QED
  BY <1>1, <1>2, <1>3, <1>4

\* What is cut off stays so if nothing older comes in and something is left.
LEMMA OldKeptHere ==
  ASSUME Types, Types', Rights, Visible' = Visible, stamp' = stamp, Pending' \subseteq Pending, Pending' # {},
         NEW e \in Visible, Old(e)
  PROVE  Old(e)'
<1>1. \A f \in Pending' : stamp'[f] >= stamp[e]
  BY DEF Old
<1> QED
  BY <1>1, OldKept

\* A catch-up asks for what is behind the events it was sent with.
LEMMA SinceBelow ==
  ASSUME Types, Asked, Newest, NEW q \in Req
  PROVE  req[q].since <= newest
<1>1. newest \in Nat /\ req[q].since \in Nat
  BY Numbers
<1>2. CASE req[q].since = 0
  BY <1>1, <1>2
<1>3. CASE \E f \in events : stamp[f] = req[q].since
  BY <1>3 DEF Newest
<1> QED
  BY <1>2, <1>3 DEF Asked, Sound

\* The entries that are visible, and the ones that the feed misses, are stamped.
LEMMA VisibleStamps ==
  ASSUME Types, Stamps, NEW e \in Visible
  PROVE  e \in Entry /\ stamp[e] \in Nat /\ stamp[e] >= 1
<1>1. e \in Entry /\ writer[e] # "none"
  BY DEF Visible
<1>2. stamp[e] \in Nat
  BY <1>1, Numbers
<1> QED
  BY <1>1, <1>2 DEF Stamps

\* A row of requests in which one is replaced.
LEMMA ReplaceRow ==
  ASSUME Types, NEW q \in Req, NEW r \in ReqRow, req' = [req EXCEPT ![q] = r]
  PROVE  /\ req' \in [Req -> ReqRow] /\ req'[q] = r
         /\ \A p \in Req \ {q} : req'[p] = req[p]
<1> QED
  BY DEF Types, TabTypes

\* The answer of a catch-up.
LEMMA ReadStep ==
  ASSUME IInv, NEW q \in Req, ReadCatchUp(q)
  PROVE  IInv'
<1> USE DEF IInv
<1> DEFINE missed == After(req[q].since)
           found == Fetched(missed)
           row == [req[q] EXCEPT !.phase = "answered", !.found = found]
<1>1. /\ req[q].phase = "sent" /\ req[q].found = {}
      /\ req' = [req EXCEPT ![q] = row]
      /\ excused' = (excused \/ (Cardinality(missed) > Limit /\ ~ Fresh(q)))
      /\ UNCHANGED <<server, entitled>>
      /\ UNCHANGED <<link, before, queue, events, newest, failed, moved>>
  <2>1. req[q] \in ReqRow
    BY DEF Types, TabTypes
  <2>2. req' = [req EXCEPT ![q].phase = "answered", ![q].found = found]
    BY DEF ReadCatchUp
  <2>3. req' = [req EXCEPT ![q] = row]
    BY <2>1, <2>2 DEF Types, TabTypes, ReqRow
  <2>4. req[q].phase = "sent" /\ req[q].found = {}
    BY DEF ReadCatchUp, Asked, Sound
  <2> QED
    BY <2>3, <2>4 DEF ReadCatchUp
<1>2. Types /\ TabTypes
  BY DEF Types
<1>3. missed \in SUBSET Entry /\ missed \subseteq Visible
  BY DEF After, Visible
<1>4. /\ found \in SUBSET missed /\ Cardinality(found) <= Limit
      /\ Cardinality(missed) <= Limit => found = missed
      /\ Cardinality(missed) > Limit =>
           found # {} /\ \A e \in found, f \in missed \ found : stamp[f] <= stamp[e]
  BY <1>2, <1>3, FetchedFacts DEF Types, LogTypes
<1>5. row \in ReqRow /\ row.phase = "answered" /\ row.found = found
      /\ row.since = req[q].since /\ row.heals = req[q].heals
  <2>1. req[q] \in ReqRow
    BY DEF Types, TabTypes
  <2> HIDE DEF found
  <2> QED
    BY <2>1, <1>3, <1>4 DEF ReqRow
<1> HIDE DEF row, found
<1>6. /\ req' \in [Req -> ReqRow] /\ req'[q] = row
      /\ \A p \in Req \ {q} : req'[p] = req[p]
  BY <1>1, <1>2, <1>5, ReplaceRow
<1>7. /\ LogTypes' /\ Stamps'
      /\ Visible' = Visible /\ (InScope' <=> InScope)
      /\ Scope => Scope'
      /\ toMe' = toMe /\ entitled' = entitled /\ stamp' = stamp /\ writer' = writer
  BY <1>1, LogKept
<1>8. Types'
  <2>1. TabTypes'
    BY <1>1, <1>2, <1>6 DEF TabTypes
  <2> QED
    BY <2>1, <1>7 DEF Types
<1>9. InQueue' = InQueue /\ Pending' = Pending \cup found
  <2>1. InQueue' = InQueue
    BY <1>1 DEF InQueue
  <2>2. Found' = Found \cup found
    BY <1>1, <1>5, <1>6 DEF Found
  <2> QED
    BY <2>1, <2>2, <1>1 DEF Pending
<1>10. LinkOK'
  <2>1. link # "closed"
    BY <1>1 DEF LinkOK, Free
  <2> QED
    BY <2>1, <1>1, <1>7, <1>9 DEF LinkOK, InRoom
<1>11. found \subseteq Visible \cap entitled
  BY <1>3, <1>4 DEF Rights, After
<1>12. Rights'
  BY <1>7, <1>9, <1>11 DEF Rights
<1>13. Asked'
  <2>1. \A f \in found : stamp[f] > req[q].since
    BY <1>4 DEF After
  <2>2. req[q].since = 0 \/ \E f \in events : stamp[f] = req[q].since
    BY DEF Asked, Sound
  <2>3. \A p \in Req \ {q} : Sound(req[p])'
    BY <1>1, <1>6, <1>7 DEF Asked, Sound
  <2>4. Sound(req[q])'
    BY <2>1, <2>2, <1>1, <1>4, <1>5, <1>6, <1>7 DEF Sound
  <2> QED
    BY <2>3, <2>4 DEF Asked
<1>14. Newest'
  BY <1>1, <1>7 DEF Newest
<1>15. ASSUME ~ excused', ~ excused PROVE Scope' /\ InOrder' /\ CutOK' /\ Whereabouts'
  <2>1. Scope /\ InOrder /\ CutOK /\ Whereabouts
    BY <1>15 DEF Steady
  <2>2. Cardinality(missed) \in Nat /\ Limit \in Nat
    BY <1>3, FiniteEntries, LimitAssumption
  <2>3. Cardinality(missed) <= Limit \/ (Cardinality(missed) > Limit /\ Fresh(q))
    <3>1. Cardinality(missed) <= Limit \/ Cardinality(missed) > Limit
      BY <2>2
    <3>2. Cardinality(missed) > Limit => Fresh(q)
      BY <1>1, <1>15
    <3> QED
      BY <3>1, <3>2
  <2>4. ASSUME NEW e \in Visible, InScope, req[q].since < stamp[e], e \notin found
        PROVE  Old(e)'
    <3>1. e \in missed
      BY <2>4 DEF After
    <3>2. Cardinality(missed) > Limit /\ Fresh(q)
      BY <3>1, <2>3, <2>4, <1>4
    <3>3. Pending' = found
      <4>1. \A p \in Req : req[p].found = {}
        BY <3>2, <1>1 DEF Fresh, Free
      <4>2. Found = {}
        BY <4>1 DEF Found
      <4>3. events = {} /\ InQueue = {}
        BY <3>2 DEF Fresh, InQueue
      <4> QED
        BY <4>2, <4>3, <1>9 DEF Pending
    <3>4. Cardinality(Visible) > Limit
      <4>1. IsFiniteSet(Visible) /\ Cardinality(Visible) \in Nat
        BY FiniteEntries DEF Visible
      <4>2. Cardinality(missed) <= Cardinality(Visible)
        BY <4>1, <1>3, FS_Subset
      <4> QED
        BY <4>1, <4>2, <3>2, <2>2
    <3>5. \A f \in found : stamp[f] >= stamp[e]
      <4>1. \A f \in found : f \in Visible /\ stamp[e] <= stamp[f]
        BY <3>1, <3>2, <2>4, <1>3, <1>4
      <4>2. \A f \in found : stamp[f] \in Nat
        BY <4>1, <1>2, VisibleStamps
      <4>3. stamp[e] \in Nat
        BY <1>2, VisibleStamps
      <4> QED
        BY <4>1, <4>2, <4>3
    <3> QED
      BY <3>2, <3>3, <3>4, <3>5, <1>4, <1>7 DEF Old
  <2>5. ASSUME NEW e \in Visible, Old(e) PROVE Old(e)'
    <3>1. ~ Fresh(q)
      <4> SUFFICES ASSUME Fresh(q) PROVE Pending = {}
        BY <2>5 DEF Old
      <4>1. \A p \in Req : req[p].found = {}
        BY <1>1 DEF Fresh, Free
      <4> QED
        BY <4>1 DEF Fresh, Pending, InQueue, Found
    <3>2. Cardinality(missed) <= Limit
      BY <3>1, <2>3
    <3>3. e \in Entry /\ stamp[e] \in Nat /\ stamp[e] >= 1 /\ req[q].since \in Nat
      BY <1>2, VisibleStamps, Numbers
    <3>4. ASSUME InScope, req[q].since < stamp[e] PROVE FALSE
      <4>1. CASE req[q].since = 0
        <5>1. missed = Visible
          <6>1. \A f \in Visible : stamp[f] > 0
            <7>1. \A f \in Visible : stamp[f] \in Nat /\ stamp[f] >= 1
              BY <1>2, VisibleStamps
            <7> QED
              BY <7>1
          <6> QED
            BY <4>1, <3>4, <6>1 DEF After
        <5> QED
          BY <5>1, <3>2, <2>2, <2>5 DEF Old
      <4>2. CASE \E f \in events : stamp[f] = req[q].since
        <5>1. PICK f \in events : stamp[f] = req[q].since
          BY <4>2
        <5>2. stamp[f] >= stamp[e]
          BY <5>1, <2>5 DEF Old, Pending
        <5> QED
          BY <5>1, <5>2, <3>3, <3>4
      <4> QED
        BY <4>1, <4>2 DEF Asked, Sound
    <3>5. \A f \in found : stamp[f] >= stamp[e]
      <4> SUFFICES ASSUME NEW f \in found PROVE stamp[f] >= stamp[e]
        OBVIOUS
      <4>1. InScope /\ stamp[f] > req[q].since /\ f \in Visible
        BY <1>4 DEF After
      <4>2. stamp[f] \in Nat
        BY <4>1, <1>2, VisibleStamps
      <4> QED
        BY <4>1, <4>2, <3>3, <3>4
    <3>6. Pending' # {} /\ \A f \in Pending' : stamp'[f] >= stamp[e]
      BY <3>5, <2>5, <1>7, <1>9 DEF Old
    <3> QED
      BY <3>6, <2>5, <1>2, <1>7, <1>8, OldKept
  <2>6. InOrder'
    BY <2>1, <1>1, <1>7 DEF InOrder, Open
  <2>7. CutOK'
    <3> SUFFICES ASSUME NEW p \in Req, NEW e \in Visible \ (events \cup req'[p].found),
                        NEW g \in req'[p].found, req'[p].since < stamp[e], stamp[e] <= stamp[g]
                 PROVE  Old(e)'
      BY <1>1, <1>7 DEF CutOK
    <3>1. CASE p = q
      <4>1. InScope
        BY <3>1, <1>4, <1>5, <1>6 DEF After
      <4> QED
        BY <3>1, <4>1, <2>4, <1>5, <1>6
    <3>2. CASE p # q
      BY <3>2, <2>1, <2>5, <1>6 DEF CutOK
    <3> QED
      BY <3>1, <3>2
  <2>8. ASSUME NEW e \in Missing, Covered(e) PROVE Old(e)' \/ Covered(e)'
    <3>1. PICK p \in Req : (req[p].phase = "sent" /\ req[p].since < stamp[e]) \/ e \in req[p].found
      BY <2>8 DEF Covered
    <3>2. CASE p # q
      BY <3>1, <3>2, <1>6, <1>7 DEF Covered
    <3>3. CASE p = q
      <4>1. InScope /\ e \in Visible
        BY <2>1 DEF Missing, Scope, InScope
      <4>2. CASE e \in found
        BY <4>2, <1>5, <1>6 DEF Covered
      <4>3. CASE e \notin found
        BY <4>1, <4>3, <3>1, <3>3, <2>4, <1>1
      <4> QED
        BY <4>2, <4>3
    <3> QED
      BY <3>2, <3>3
  <2>9. Unhealed => Unhealed'
    <3> SUFFICES ASSUME Unhealed, NEW p \in Req, req'[p] # Free PROVE ~ req'[p].heals
      BY <1>1 DEF Unhealed
    <3>1. req[q] # Free
      BY <1>1 DEF Free
    <3> QED
      BY <3>1, <1>5, <1>6 DEF Unhealed
  <2>10. Whereabouts'
    <3> SUFFICES ASSUME link # "closed", ~ moved, NEW e \in Missing
                 PROVE  Old(e)' \/ (Beyond(e)' /\ Coming(e)')
      BY <1>1, <1>7 DEF Whereabouts, Missing
    <3>1. CASE Old(e)
      BY <3>1, <2>5 DEF Missing
    <3>2. CASE Beyond(e) /\ Coming(e)
      <4>1. Old(e)' \/ (Covered(e) => Covered(e)')
        BY <2>8
      <4>2. (Covered(e) => Covered(e)') => Beyond(e)'
        BY <3>2, <1>1, <1>7 DEF Beyond
      <4>3. (Covered(e) => Covered(e)') => Coming(e)'
        BY <3>2, <2>9, <1>1, <1>7, <1>9 DEF Coming
      <4> QED
        BY <4>1, <4>2, <4>3
    <3> QED
      BY <3>1, <3>2, <2>1 DEF Whereabouts
  <2> QED
    BY <2>1, <2>6, <2>7, <2>10, <1>7
<1> QED
  BY <1>1, <1>7, <1>8, <1>10, <1>12, <1>13, <1>14, <1>15, SteadyFrom

\* An answer is merged.
LEMMA CaughtUpStep ==
  ASSUME IInv, NEW q \in Req, CaughtUp(q)
  PROVE  IInv'
<1> USE DEF IInv
<1> DEFINE found == req[q].found
<1>1. /\ req[q].phase = "answered" /\ Remember(found) /\ events' = events \cup found
      /\ req' = [req EXCEPT ![q] = Free]
      /\ failed' = (failed /\ ~ req[q].heals)
      /\ UNCHANGED <<server, entitled, excused>>
      /\ UNCHANGED <<link, before, queue, moved>>
  BY DEF CaughtUp, Merge
<1>2. Types /\ TabTypes /\ LogTypes
  BY DEF Types
<1>3. found \subseteq Visible /\ found \in SUBSET Entry
  BY <1>2, PendingFacts
<1>4. Free \in ReqRow /\ Free.found = {} /\ Free.since = 0 /\ Free.phase = "none"
  BY ClockAssumption DEF Free, ReqRow
<1>5. /\ req' \in [Req -> ReqRow] /\ req'[q] = Free
      /\ \A p \in Req \ {q} : req'[p] = req[p]
  BY <1>1, <1>2, <1>4, ReplaceRow
<1>6. /\ newest' \in 0..MaxClock /\ newest <= newest'
      /\ \A f \in found : stamp[f] <= newest'
      /\ newest' = newest \/ \E f \in found : stamp[f] = newest'
  <2> HIDE DEF found
  <2> QED
    BY <1>1, <1>2, <1>3, RememberFacts DEF LogTypes, TabTypes
<1>7. /\ LogTypes' /\ Stamps'
      /\ Visible' = Visible /\ (InScope' <=> InScope)
      /\ Scope => Scope'
      /\ toMe' = toMe /\ entitled' = entitled /\ stamp' = stamp /\ writer' = writer
  BY <1>1, LogKept
<1>8. Types'
  <2>1. TabTypes'
    BY <1>1, <1>2, <1>3, <1>5, <1>6 DEF TabTypes
  <2> QED
    BY <2>1, <1>7 DEF Types
<1>9. InQueue' = InQueue /\ Pending' = Pending
  <2>1. InQueue' = InQueue
    BY <1>1 DEF InQueue
  <2>2. Found' \subseteq Found /\ Found \subseteq Found' \cup found /\ found \subseteq Found
    BY <1>4, <1>5 DEF Found
  <2> QED
    BY <2>1, <2>2, <1>1 DEF Pending
<1>10. link # "closed"
  BY <1>1 DEF LinkOK, Free
<1>11. LinkOK' /\ Rights'
  BY <1>1, <1>7, <1>9, <1>10 DEF LinkOK, InRoom, Rights
<1>12. Asked'
  <2>1. \A p \in Req \ {q} : Sound(req[p])'
    BY <1>1, <1>5, <1>7 DEF Asked, Sound
  <2>2. Sound(req[q])'
    <3>1. Cardinality({}) <= Limit
      BY FS_EmptySet, LimitAssumption
    <3> QED
      BY <3>1, <1>4, <1>5 DEF Sound
  <2> QED
    BY <2>1, <2>2 DEF Asked
<1>13. Newest'
  <2>1. newest \in Nat /\ newest' \in Nat /\ \A f \in events : stamp[f] \in Nat
    <3>1. newest' \in Nat
      BY <1>6, ClockAssumption
    <3> QED
      BY <3>1, <1>2, Numbers DEF TabTypes
  <2>2. \A f \in events : stamp[f] <= newest'
    BY <2>1, <1>6 DEF Newest
  <2>3. newest' = 0 \/ \E f \in events' : stamp[f] = newest'
    BY <1>1, <1>6 DEF Newest
  <2> QED
    BY <2>2, <2>3, <1>1, <1>6, <1>7 DEF Newest
<1>14. ASSUME ~ excused PROVE Scope' /\ InOrder' /\ CutOK' /\ Whereabouts'
  <2>1. Scope /\ InOrder /\ CutOK /\ Whereabouts
    BY <1>14 DEF Steady
  <2>2. InOrder'
    BY <2>1, <1>1, <1>7 DEF InOrder, Open
  <2>3. \A e \in Visible : Old(e) => Old(e)'
    BY <1>7, <1>9 DEF Old
  <2>4. CutOK'
    <3> SUFFICES ASSUME NEW p \in Req, NEW e \in Visible \ (events' \cup req'[p].found),
                        NEW g \in req'[p].found, req'[p].since < stamp[e], stamp[e] <= stamp[g]
                 PROVE  Old(e)'
      BY <1>7 DEF CutOK
    <3>1. p # q
      BY <1>4, <1>5
    <3> QED
      BY <3>1, <2>1, <2>3, <1>1, <1>5 DEF CutOK
  <2>5. ASSUME NEW e \in Missing', Covered(e) PROVE Covered(e)'
    <3>1. e \notin found
      BY <1>1 DEF Missing
    <3>2. PICK p \in Req : (req[p].phase = "sent" /\ req[p].since < stamp[e]) \/ e \in req[p].found
      BY <2>5 DEF Covered
    <3>3. p # q
      BY <3>1, <3>2, <1>1
    <3> QED
      BY <3>2, <3>3, <1>5, <1>7 DEF Covered
  <2>6. ASSUME NEW e \in Missing', Beyond(e), ~ Old(e) PROVE Beyond(e)'
    <3>1. e \in Visible /\ e \notin events /\ e \notin found
      BY <1>1, <1>7 DEF Missing
    <3>2. CASE Covered(e)
      BY <3>2, <2>5 DEF Beyond
    <3>3. CASE stamp[e] > newest
      <4>1. newest \in Nat /\ stamp[e] \in Nat /\ req[q].since \in Nat /\ req[q].since <= newest
        BY <3>1, <1>2, Numbers, VisibleStamps, SinceBelow
      <4>2. ASSUME NEW g \in found PROVE stamp[g] < stamp[e]
        <5>1. stamp[g] \in Nat
          BY <1>3, <1>2, Numbers
        <5>2. ~ (stamp[e] <= stamp[g])
          <6>1. req[q].since < stamp[e]
            BY <4>1, <3>3
          <6> QED
            BY <6>1, <4>2, <3>1, <2>1, <2>6 DEF CutOK
        <5> QED
          BY <5>1, <5>2, <4>1
      <4>3. stamp[e] > newest'
        <5>1. CASE newest' = newest
          BY <5>1, <3>3
        <5>2. CASE \E f \in found : stamp[f] = newest'
          <6>1. PICK g \in found : stamp[g] = newest'
            BY <5>2
          <6>2. stamp[g] < stamp[e] /\ stamp[g] \in Nat
            BY <4>2, <1>3, <1>2, Numbers
          <6> QED
            BY <6>1, <6>2, <4>1
        <5> QED
          BY <5>1, <5>2, <1>6
      <4> QED
        BY <4>3, <1>7 DEF Beyond
    <3> QED
      BY <3>2, <3>3, <2>6 DEF Beyond
  <2>7. Unhealed => Unhealed'
    <3>1. req[q] # Free
      BY <1>1 DEF Free
    <3> QED
      BY <3>1, <1>1, <1>5 DEF Unhealed
  <2>8. Whereabouts'
    <3> SUFFICES ASSUME ~ moved, NEW e \in Missing'
                 PROVE  Old(e)' \/ (Beyond(e)' /\ Coming(e)')
      BY <1>1 DEF Whereabouts
    <3>1. e \in Missing
      BY <1>1, <1>7 DEF Missing
    <3>2. CASE Old(e)
      BY <3>1, <3>2, <2>3 DEF Missing
    <3>3. CASE Beyond(e) /\ Coming(e) /\ ~ Old(e)
      <4>1. Beyond(e)'
        BY <3>3, <2>6
      <4>2. Coming(e)'
        BY <3>3, <2>5, <2>7, <1>1, <1>7, <1>9 DEF Coming
      <4> QED
        BY <4>1, <4>2
    <3> QED
      BY <3>1, <3>2, <3>3, <2>1, <1>10 DEF Whereabouts
  <2> QED
    BY <2>1, <2>2, <2>4, <2>8, <1>7
<1> QED
  BY <1>1, <1>7, <1>8, <1>11, <1>12, <1>13, <1>14, SteadyFrom

\* A catch-up or its answer is lost.
LEMMA LoseStep ==
  ASSUME IInv, NEW q \in Req, Lose(q)
  PROVE  IInv'
<1> USE DEF IInv
<1>1. /\ req[q] # Free
      /\ req' = [p \in Req |-> IF p = q \/ req[p] = Free THEN Free
                               ELSE [req[p] EXCEPT !.heals = FALSE]]
      /\ failed' = TRUE /\ moved' = (moved \/ newest > req[q].since)
      /\ UNCHANGED <<server, entitled, excused>>
      /\ UNCHANGED <<link, before, queue, events, newest>>
  BY DEF Lose
<1>2. Types /\ TabTypes /\ LogTypes
  BY DEF Types
<1>3. Free \in ReqRow /\ Free.found = {} /\ Free.since = 0 /\ Free.phase = "none"
  BY ClockAssumption DEF Free, ReqRow
<1>4. /\ req' \in [Req -> ReqRow] /\ req'[q] = Free
      /\ \A p \in Req \ {q} :
           /\ req'[p].phase = req[p].phase /\ req'[p].since = req[p].since
           /\ req'[p].found = req[p].found
           /\ req'[p] = Free \/ (req'[p].heals = FALSE /\ req[p] # Free)
  <2>1. ASSUME NEW p \in Req
        PROVE  /\ req'[p] \in ReqRow
               /\ p # q => /\ req'[p].phase = req[p].phase /\ req'[p].since = req[p].since
                           /\ req'[p].found = req[p].found
                           /\ req'[p] = Free \/ (req'[p].heals = FALSE /\ req[p] # Free)
    <3>1. req[p] \in ReqRow
      BY <1>2 DEF TabTypes
    <3> QED
      BY <3>1, <1>1, <1>3 DEF ReqRow
  <2> QED
    BY <2>1, <1>1
<1>5. /\ LogTypes' /\ Stamps'
      /\ Visible' = Visible /\ (InScope' <=> InScope)
      /\ Scope => Scope'
      /\ toMe' = toMe /\ entitled' = entitled /\ stamp' = stamp /\ writer' = writer
  BY <1>1, LogKept
<1>6. Types'
  <2>1. TabTypes'
    BY <1>1, <1>2, <1>4 DEF TabTypes
  <2> QED
    BY <2>1, <1>5 DEF Types
<1>7. InQueue' = InQueue /\ Pending' \subseteq Pending
  <2>1. InQueue' = InQueue
    BY <1>1 DEF InQueue
  <2>2. Found' \subseteq Found
    BY <1>3, <1>4 DEF Found
  <2> QED
    BY <2>1, <2>2, <1>1 DEF Pending
<1>8. link # "closed"
  BY <1>1 DEF LinkOK
<1>9. LinkOK' /\ Rights'
  BY <1>1, <1>5, <1>7, <1>8 DEF LinkOK, InRoom, Rights
<1>10. Asked'
  <2>1. ASSUME NEW p \in Req \ {q} PROVE Sound(req[p])'
    <3>1. Sound(req[p])
      BY DEF Asked
    <3>2. req'[p].phase = "none" => req'[p] = Free
      BY <3>1, <1>1, <1>3, <1>4 DEF Sound
    <3> QED
      BY <3>1, <3>2, <1>1, <1>4, <1>5 DEF Sound
  <2>2. Sound(req[q])'
    <3>1. Cardinality({}) <= Limit
      BY FS_EmptySet, LimitAssumption
    <3> QED
      BY <3>1, <1>3, <1>4 DEF Sound
  <2> QED
    BY <2>1, <2>2 DEF Asked
<1>11. Newest'
  BY <1>1, <1>5 DEF Newest
<1>12. ASSUME ~ excused PROVE Scope' /\ InOrder' /\ CutOK' /\ Whereabouts'
  <2>1. Scope /\ InOrder /\ CutOK /\ Whereabouts
    BY <1>12 DEF Steady
  <2>2. InOrder'
    BY <2>1, <1>1, <1>5 DEF InOrder, Open
  <2>3. ASSUME NEW e \in Visible, Old(e), Pending' # {} PROVE Old(e)'
    BY <2>3, <1>2, <1>5, <1>6, <1>7, OldKeptHere
  <2>4. CutOK'
    <3> SUFFICES ASSUME NEW p \in Req, NEW e \in Visible \ (events \cup req'[p].found),
                        NEW g \in req'[p].found, req'[p].since < stamp[e], stamp[e] <= stamp[g]
                 PROVE  Old(e)'
      BY <1>1, <1>5 DEF CutOK
    <3>1. p # q
      BY <1>3, <1>4
    <3>2. Old(e)
      BY <3>1, <2>1, <1>4 DEF CutOK
    <3>3. Pending' # {}
      BY DEF Pending, Found
    <3> QED
      BY <3>2, <3>3, <2>3
  <2>5. Whereabouts'
    <3> SUFFICES ASSUME ~ moved', NEW e \in Missing
                 PROVE  Old(e)' \/ (Beyond(e)' /\ Coming(e)')
      BY <1>1, <1>5 DEF Whereabouts, Missing
    <3>1. ~ moved /\ ~ (newest > req[q].since)
      BY <1>1
    <3>2. e \in Visible /\ stamp[e] \in Nat /\ stamp[e] >= 1 /\ newest \in Nat /\ req[q].since \in Nat
      BY <1>2, Numbers, VisibleStamps DEF Missing
    <3>3. Coming(e)'
      BY <1>1, <1>4 DEF Coming, Unhealed
    <3>4. stamp[e] > newest => Beyond(e)'
      BY <1>1, <1>5 DEF Beyond
    <3>5. CASE Old(e)
      <4>1. CASE Pending' = {}
        <5>1. newest = 0
          BY <4>1, <1>1 DEF Pending, Newest
        <5> QED
          BY <5>1, <3>2, <3>3, <3>4
      <4>2. CASE Pending' # {}
        BY <4>2, <3>2, <3>5, <2>3
      <4> QED
        BY <4>1, <4>2
    <3>6. CASE Beyond(e)
      <4>1. CASE stamp[e] > newest
        BY <4>1, <3>3, <3>4
      <4>2. CASE Covered(e)
        <5>1. PICK p \in Req : (req[p].phase = "sent" /\ req[p].since < stamp[e]) \/ e \in req[p].found
          BY <4>2 DEF Covered
        <5>2. CASE p # q
          <6>1. Covered(e)'
            BY <5>1, <5>2, <1>4, <1>5 DEF Covered
          <6> QED
            BY <6>1, <3>3 DEF Beyond
        <5>3. CASE p = q
          <6>1. req[q].since < stamp[e]
            <7>1. CASE e \in req[q].found
              BY <7>1, <3>2 DEF Asked, Sound
            <7>2. CASE e \notin req[q].found
              BY <7>2, <5>1, <5>3
            <7> QED
              BY <7>1, <7>2
          <6>2. stamp[e] > newest
            BY <6>1, <3>1, <3>2
          <6> QED
            BY <6>2, <3>3, <3>4
        <5> QED
          BY <5>2, <5>3
      <4> QED
        BY <3>6, <4>1, <4>2 DEF Beyond
    <3> QED
      BY <3>1, <3>5, <3>6, <2>1, <1>8 DEF Whereabouts
  <2> QED
    BY <2>1, <2>2, <2>4, <2>5, <1>5
<1> QED
  BY <1>1, <1>5, <1>6, <1>9, <1>10, <1>11, <1>12, SteadyFrom

\* The page is opened: its catch-up covers all there is.
LEMMA MountStep ==
  ASSUME IInv, NEW q \in Req, Mount(q)
  PROVE  IInv'
<1> USE DEF IInv
<1> DEFINE row == [Free EXCEPT !.phase = "sent", !.since = newest]
<1>1. /\ link = "closed" /\ link' \in {"connecting", "live"}
      /\ before' = (link' = "live")
      /\ req' = [req EXCEPT ![q] = row]
      /\ UNCHANGED <<server, entitled, excused>>
      /\ UNCHANGED <<queue, events, newest, failed, moved>>
  <2>1. newest = 0
    BY DEF Mount, LinkOK
  <2> QED
    BY <2>1 DEF Mount, SendCatchUp, history
<1>2. Types /\ TabTypes /\ LogTypes
  BY DEF Types
<1>3. events = {} /\ newest = 0 /\ queue = <<>> /\ \A p \in Req : req[p] = Free
  BY <1>1 DEF LinkOK, InRoom
<1>4. /\ row \in ReqRow /\ row.phase = "sent" /\ row.since = 0 /\ row.found = {}
      /\ Free.found = {} /\ Free.phase = "none" /\ Free.since = 0
  BY <1>2, <1>3 DEF Free, ReqRow, TabTypes
<1> HIDE DEF row
<1>5. /\ req' \in [Req -> ReqRow] /\ req'[q] = row
      /\ \A p \in Req \ {q} : req'[p] = Free
  BY <1>1, <1>2, <1>3, <1>4, ReplaceRow
<1>6. /\ LogTypes' /\ Stamps'
      /\ Visible' = Visible /\ (InScope' <=> InScope)
      /\ Scope => Scope'
      /\ toMe' = toMe /\ entitled' = entitled /\ stamp' = stamp /\ writer' = writer
  BY <1>1, LogKept
<1>7. Types'
  <2>1. link' \in {"closed", "connecting", "joined", "live", "offline"} /\ before' \in BOOLEAN
    BY <1>1
  <2>2. TabTypes'
    BY <2>1, <1>1, <1>2, <1>5 DEF TabTypes
  <2> QED
    BY <2>2, <1>6 DEF Types
<1>8. Pending' = {} /\ InQueue' = {} /\ \A p \in Req : req'[p].found = {}
  BY <1>1, <1>3, <1>4, <1>5 DEF Pending, InQueue, Found
<1>9. LinkOK' /\ Rights'
  BY <1>1, <1>3, <1>6, <1>8 DEF LinkOK, InRoom, Rights
<1>10. Asked'
  <2>1. Cardinality({}) <= Limit
    BY FS_EmptySet, LimitAssumption
  <2> QED
    BY <2>1, <1>4, <1>5, <1>8 DEF Asked, Sound
<1>11. Newest'
  BY <1>1, <1>3 DEF Newest
<1>12. ASSUME ~ excused PROVE Scope' /\ InOrder' /\ CutOK' /\ Whereabouts'
  <2>1. Scope /\ InOrder
    BY <1>12 DEF Steady
  <2>2. InOrder'
    BY <2>1, <1>1, <1>6 DEF InOrder, Open
  <2>3. CutOK'
    BY <1>8 DEF CutOK
  <2>4. ASSUME NEW e \in Missing PROVE Beyond(e)' /\ Coming(e)'
    <3>1. 0 < stamp[e]
      BY <1>2, VisibleStamps DEF Missing
    <3>2. Covered(e)'
      BY <3>1, <1>4, <1>5, <1>6 DEF Covered
    <3> QED
      BY <3>2 DEF Beyond, Coming
  <2>5. Whereabouts'
    BY <2>4, <1>1, <1>6 DEF Whereabouts, Missing
  <2> QED
    BY <2>1, <2>2, <2>3, <2>5, <1>6
<1> QED
  BY <1>1, <1>6, <1>7, <1>9, <1>10, <1>11, <1>12, SteadyFrom

\* The server lets the socket into its room.
LEMMA JoinStep ==
  ASSUME IInv, Join
  PROVE  IInv'
<1> USE DEF IInv
<1>1. /\ link \in {"connecting", "offline"} /\ link' = "joined" /\ queue' = <<"connect">>
      /\ UNCHANGED <<server, entitled, excused>>
      /\ UNCHANGED <<before, events, newest, req, failed, moved>>
  BY DEF Join, history
<1>2. Types /\ TabTypes /\ LogTypes
  BY DEF Types
<1>3. queue = <<>>
  BY <1>1 DEF LinkOK, InRoom
<1>4. /\ queue' \in Seq(Item) /\ queue' # <<>> /\ Head(queue') = "connect"
      /\ Len(queue') = 1 /\ queue'[1] = "connect"
  <2>1. "connect" \in Item
    BY DEF Item
  <2> QED
    BY <2>1, <1>1
<1>5. /\ LogTypes' /\ Stamps'
      /\ Visible' = Visible /\ (InScope' <=> InScope)
      /\ Scope => Scope'
      /\ toMe' = toMe /\ entitled' = entitled /\ stamp' = stamp /\ writer' = writer
  BY <1>1, LogKept
<1>6. Types'
  BY <1>1, <1>2, <1>4, <1>5 DEF Types, TabTypes
<1>7. InQueue' = {} /\ InQueue = {} /\ Pending' = Pending
  <2>1. InQueue' = {}
    BY <1>4 DEF InQueue
  <2>2. InQueue = {}
    BY <1>3 DEF InQueue
  <2> QED
    BY <2>1, <2>2, <1>1 DEF Pending, Found
<1>8. LinkOK' /\ Rights'
  BY <1>1, <1>4, <1>5, <1>7 DEF LinkOK, InRoom, Rights
<1>9. Asked' /\ Newest'
  BY <1>1, <1>5 DEF Asked, Sound, Newest
<1>10. ASSUME ~ excused PROVE Scope' /\ InOrder' /\ CutOK' /\ Whereabouts'
  <2>1. Scope /\ InOrder /\ CutOK /\ Whereabouts
    BY <1>10 DEF Steady
  <2>2. InOrder'
    BY <2>1, <1>4, <1>5 DEF InOrder, Open
  <2>3. \A e \in Visible : (Old(e) => Old(e)') /\ (Covered(e) => Covered(e)')
    BY <1>1, <1>5, <1>7 DEF Old, Covered
  <2>4. CutOK'
    BY <2>1, <2>3, <1>1, <1>5 DEF CutOK
  <2>5. ASSUME NEW e \in Missing, Beyond(e), Coming(e) PROVE Beyond(e)' /\ Coming(e)'
    <3>1. Beyond(e)'
      BY <2>3, <2>5, <1>1, <1>5 DEF Beyond, Missing
    <3>2. Coming(e)'
      <4>1. link = "offline" => before
        BY DEF LinkOK
      <4> QED
        BY <4>1, <2>3, <2>5, <1>1, <1>5, <1>7 DEF Coming, Unhealed, Missing
    <3> QED
      BY <3>1, <3>2
  <2>6. Whereabouts'
    BY <2>1, <2>3, <2>5, <1>1, <1>5 DEF Whereabouts, Missing
  <2> QED
    BY <2>1, <2>2, <2>4, <2>6, <1>5
<1> QED
  BY <1>1, <1>5, <1>6, <1>8, <1>9, <1>10, SteadyFrom

\* A reconnect asks for whatever is newer than what has been seen.
LEMMA ConnectStep ==
  ASSUME IInv, NEW q \in Req, HandleConnect(q)
  PROVE  IInv'
<1> USE DEF IInv
<1> DEFINE row == [Free EXCEPT !.phase = "sent", !.since = newest]
<1>1. /\ queue # <<>> /\ Head(queue) = "connect" /\ queue' = Tail(queue)
      /\ link' = "live" /\ before' = TRUE
      /\ \/ before /\ req[q] = Free /\ req' = [req EXCEPT ![q] = row]
         \/ ~ before /\ req' = req
      /\ UNCHANGED <<server, entitled, excused>>
      /\ UNCHANGED <<events, newest, failed, moved>>
  BY DEF HandleConnect, SendCatchUp, history
<1>2. Types /\ TabTypes /\ LogTypes
  BY DEF Types
<1>3. link = "joined"
  BY <1>1 DEF LinkOK
<1>4. /\ queue' \in Seq(Item)
      /\ InQueue' \subseteq InQueue /\ InQueue \subseteq InQueue' \cup {Head(queue)}
      /\ \A i \in 1..Len(queue') : queue'[i] # "connect"
      /\ InOrder => \A i, j \in 1..Len(queue') : i < j => stamp[queue'[i]] < stamp[queue'[j]]
  BY <1>1, <1>2, TailFacts
<1>5. InQueue' = InQueue
  BY <1>1, <1>4 DEF InQueue
<1>6. /\ row \in ReqRow /\ row.phase = "sent" /\ row.since = newest /\ row.found = {} /\ row.heals = TRUE
      /\ Free.found = {} /\ Free.phase = "none"
  BY <1>2 DEF Free, ReqRow, TabTypes
<1> HIDE DEF row
<1>7. /\ req' \in [Req -> ReqRow]
      /\ before => req[q] = Free /\ req'[q] = row
      /\ \A p \in Req \ {q} : req'[p] = req[p]
      /\ ~ before => req' = req
  <2>1. CASE before /\ req' = [req EXCEPT ![q] = row]
    BY <2>1, <1>1, <1>2, <1>6, ReplaceRow
  <2>2. CASE ~ before /\ req' = req
    BY <2>2, <1>2 DEF TabTypes
  <2> QED
    BY <1>1, <2>1, <2>2
<1>8. /\ LogTypes' /\ Stamps'
      /\ Visible' = Visible /\ (InScope' <=> InScope)
      /\ Scope => Scope'
      /\ toMe' = toMe /\ entitled' = entitled /\ stamp' = stamp /\ writer' = writer
  BY <1>1, LogKept
<1>9. Types'
  BY <1>1, <1>2, <1>4, <1>7, <1>8 DEF Types, TabTypes
<1>10. Pending' = Pending /\ \A p \in Req : req'[p].found = req[p].found
  <2>1. ASSUME NEW p \in Req PROVE req'[p].found = req[p].found
    BY <1>6, <1>7
  <2>2. Found' = Found
    BY <2>1 DEF Found
  <2> QED
    BY <2>1, <2>2, <1>1, <1>5 DEF Pending
<1>11. LinkOK'
  <2>1. queue' # <<>> => Head(queue') # "connect"
    <3>1. queue' # <<>> => Head(queue') = queue'[1] /\ 1 \in 1..Len(queue')
      BY <1>4
    <3> QED
      BY <3>1, <1>4
  <2> QED
    BY <2>1, <1>1, <1>4, <1>5, <1>8 DEF LinkOK, InRoom
<1>12. Rights'
  BY <1>8, <1>10 DEF Rights
<1>13. Asked'
  <2>1. \A p \in Req : (~ before \/ p # q) => Sound(req[p])'
    BY <1>1, <1>7, <1>8 DEF Asked, Sound
  <2>2. before => Sound(req[q])'
    <3>1. Cardinality({}) <= Limit
      BY FS_EmptySet, LimitAssumption
    <3> QED
      BY <3>1, <1>1, <1>6, <1>7, <1>8 DEF Sound, Newest
  <2> QED
    BY <2>1, <2>2 DEF Asked
<1>14. Newest'
  BY <1>1, <1>8 DEF Newest
<1>15. ASSUME ~ excused PROVE Scope' /\ InOrder' /\ CutOK' /\ Whereabouts'
  <2>1. Scope /\ InOrder /\ CutOK /\ Whereabouts
    BY <1>15 DEF Steady
  <2>2. InOrder'
    BY <2>1, <1>4, <1>8 DEF InOrder, Open
  <2>3. \A e \in Visible : Old(e) => Old(e)'
    BY <1>8, <1>10 DEF Old
  <2>4. CutOK'
    <3> SUFFICES ASSUME NEW p \in Req, NEW e \in Visible \ (events \cup req[p].found),
                        NEW g \in req[p].found, req'[p].since < stamp[e], stamp[e] <= stamp[g]
                 PROVE  Old(e)'
      BY <1>1, <1>8, <1>10 DEF CutOK
    <3>1. req'[p] = req[p]
      BY <1>6, <1>7
    <3> QED
      BY <3>1, <2>1, <2>3 DEF CutOK
  <2>5. \A e \in Visible : Covered(e) => Covered(e)'
    <3> SUFFICES ASSUME NEW e \in Visible, NEW p \in Req,
                        (req[p].phase = "sent" /\ req[p].since < stamp[e]) \/ e \in req[p].found
                 PROVE  Covered(e)'
      BY DEF Covered
    <3>1. req'[p] = req[p]
      BY <1>6, <1>7
    <3> QED
      BY <3>1, <1>8 DEF Covered
  <2>6. ASSUME NEW e \in Missing, Beyond(e), Coming(e) PROVE Beyond(e)' /\ Coming(e)'
    <3>1. Beyond(e)'
      BY <2>5, <2>6, <1>1, <1>8 DEF Beyond, Missing
    <3>2. CASE before
      <4>1. stamp[e] > newest => Covered(e)'
        <5>1. stamp[e] > newest => newest < stamp[e]
          BY <1>2, Numbers, VisibleStamps DEF Missing
        <5> QED
          BY <5>1, <3>2, <1>6, <1>7, <1>8 DEF Covered
      <4> QED
        BY <3>1, <4>1, <2>5, <2>6 DEF Beyond, Coming, Missing
    <3>3. CASE ~ before
      BY <3>1, <3>3, <2>5, <2>6, <1>1, <1>3, <1>5, <1>7, <1>8 DEF Coming, Unhealed, Missing
    <3> QED
      BY <3>1, <3>2, <3>3
  <2>7. Whereabouts'
    BY <2>1, <2>3, <2>6, <1>1, <1>3, <1>8 DEF Whereabouts, Missing
  <2> QED
    BY <2>1, <2>2, <2>4, <2>7, <1>8
<1> QED
  BY <1>1, <1>8, <1>9, <1>11, <1>12, <1>13, <1>14, <1>15, SteadyFrom

\* A live event.  While no catch-up has failed, what the feed still misses is newer.
LEMMA ActivityStep ==
  ASSUME IInv, HandleActivity
  PROVE  IInv'
<1> USE DEF IInv
<1> DEFINE e0 == Head(queue)
<1>1. /\ queue # <<>> /\ Head(queue) # "connect" /\ queue' = Tail(queue)
      /\ Remember({e0}) /\ events' = events \cup {e0} /\ moved' = (moved \/ failed)
      /\ UNCHANGED <<server, entitled, excused>>
      /\ UNCHANGED <<link, before, req, failed>>
  BY DEF HandleActivity, Merge
<1>2. Types /\ TabTypes /\ LogTypes
  BY DEF Types
<1>3. /\ queue' \in Seq(Item) /\ e0 \in InQueue
      /\ InQueue' \subseteq InQueue /\ InQueue \subseteq InQueue' \cup {e0}
      /\ \A i \in 1..Len(queue') : queue'[i] # "connect"
      /\ InOrder => \A i, j \in 1..Len(queue') : i < j => stamp[queue'[i]] < stamp[queue'[j]]
  BY <1>1, <1>2, TailFacts
<1>4. link = "live"
  <2>1. InRoom /\ link # "joined"
    BY <1>1 DEF LinkOK
  <2> QED
    BY <2>1 DEF InRoom
<1>5. e0 \in Visible /\ e0 \in Entry /\ writer[e0] = "ended"
  BY <1>2, <1>3, PendingFacts DEF LinkOK
<1>6. ASSUME NEW e \in InQueue, InOrder PROVE e = e0 \/ stamp[e0] < stamp[e]
  <2>1. queue \in Seq(Item) /\ Len(queue) \in Nat \ {0} /\ e0 = queue[1]
    <3>1. queue \in Seq(Item)
      BY <1>2 DEF TabTypes
    <3> QED
      BY <3>1, <1>1
  <2>2. PICK i \in 1..Len(queue) : queue[i] = e
    BY DEF InQueue
  <2>3. CASE i = 1
    BY <2>1, <2>2, <2>3
  <2>4. CASE i # 1
    <3>1. 1 \in 1..Len(queue) /\ 1 < i
      BY <2>1, <2>4
    <3> QED
      BY <3>1, <2>1, <2>2, <1>1, <1>6 DEF InOrder
  <2> QED
    BY <2>3, <2>4
<1> HIDE DEF e0
<1>7. /\ newest' \in 0..MaxClock /\ newest <= newest' /\ stamp[e0] <= newest'
      /\ newest' = newest \/ newest' = stamp[e0]
  <2>1. {e0} \in SUBSET Entry
    BY <1>5
  <2> QED
    BY <2>1, <1>1, <1>2, RememberFacts DEF LogTypes, TabTypes
<1>8. /\ LogTypes' /\ Stamps'
      /\ Visible' = Visible /\ (InScope' <=> InScope)
      /\ Scope => Scope'
      /\ toMe' = toMe /\ entitled' = entitled /\ stamp' = stamp /\ writer' = writer
  BY <1>1, LogKept
<1>9. Types'
  <2>1. TabTypes'
    BY <1>1, <1>2, <1>3, <1>5, <1>7 DEF TabTypes
  <2> QED
    BY <2>1, <1>8 DEF Types
<1>10. Pending' = Pending
  <2>1. Found' = Found
    BY <1>1 DEF Found
  <2> QED
    BY <2>1, <1>1, <1>3 DEF Pending
<1>11. LinkOK'
  <2>1. queue' # <<>> => Head(queue') # "connect"
    <3>1. queue' # <<>> => Head(queue') = queue'[1] /\ 1 \in 1..Len(queue')
      BY <1>3
    <3> QED
      BY <3>1, <1>3
  <2> QED
    BY <2>1, <1>1, <1>3, <1>4, <1>8 DEF LinkOK, InRoom
<1>12. Rights'
  BY <1>8, <1>10 DEF Rights
<1>13. Asked'
  BY <1>1, <1>8 DEF Asked, Sound
<1>14. Newest'
  <2>1. newest \in Nat /\ newest' \in Nat /\ \A f \in events : f \in Entry /\ stamp[f] \in Nat
    BY <1>2, <1>7, Numbers, ClockAssumption DEF TabTypes
  <2>2. \A f \in events' : stamp[f] <= newest'
    <3>1. \A f \in events : stamp[f] <= newest
      BY DEF Newest
    <3> QED
      BY <3>1, <2>1, <1>1, <1>7
  <2>3. newest' = 0 \/ \E f \in events' : stamp[f] = newest'
    BY <1>1, <1>7 DEF Newest
  <2> QED
    BY <2>2, <2>3, <1>8 DEF Newest
<1>15. ASSUME ~ excused PROVE Scope' /\ InOrder' /\ CutOK' /\ Whereabouts'
  <2>1. Scope /\ InOrder /\ CutOK /\ Whereabouts
    BY <1>15 DEF Steady
  <2>2. InOrder'
    BY <2>1, <1>3, <1>8 DEF InOrder, Open
  <2>3. \A e \in Visible : (Old(e) => Old(e)') /\ (Covered(e) => Covered(e)')
    BY <1>1, <1>8, <1>10 DEF Old, Covered
  <2>4. CutOK'
    BY <2>1, <2>3, <1>1, <1>8 DEF CutOK
  <2>5. ASSUME NEW e \in Missing', Beyond(e), Coming(e), ~ failed PROVE Beyond(e)' /\ Coming(e)'
    <3>1. e \in Missing /\ e \in Visible /\ e \in Entry /\ e # e0
      BY <1>1, <1>8 DEF Missing, Visible
    <3>2. CASE Covered(e)
      BY <3>1, <3>2, <2>3 DEF Beyond, Coming
    <3>3. CASE ~ Covered(e)
      <4>1. e \in InQueue \/ writer[e] = "committed"
        BY <3>3, <2>5, <1>4 DEF Coming, Unhealed
      <4>2. stamp[e0] < stamp[e]
        <5>1. CASE e \in InQueue
          BY <5>1, <3>1, <2>1, <1>6
        <5>2. CASE writer[e] = "committed"
          BY <5>2, <3>1, <2>1, <1>5 DEF InOrder, Open
        <5> QED
          BY <4>1, <5>1, <5>2
      <4>3. stamp[e] > newest'
        <5>1. stamp[e] > newest
          BY <3>3, <2>5 DEF Beyond
        <5>2. stamp[e] \in Nat /\ stamp[e0] \in Nat /\ newest \in Nat
          BY <3>1, <1>2, <1>5, Numbers
        <5> QED
          BY <5>1, <5>2, <4>2, <1>7
      <4>4. Coming(e)'
        BY <4>1, <3>1, <1>3, <1>8 DEF Coming
      <4> QED
        BY <4>3, <4>4, <1>8 DEF Beyond
    <3> QED
      BY <3>2, <3>3
  <2>6. Whereabouts'
    <3> SUFFICES ASSUME ~ moved', NEW e \in Missing'
                 PROVE  Old(e)' \/ (Beyond(e)' /\ Coming(e)')
      BY <1>1 DEF Whereabouts
    <3>1. ~ moved /\ ~ failed /\ e \in Missing /\ e \in Visible
      BY <1>1, <1>8 DEF Missing
    <3>2. Old(e) \/ (Beyond(e) /\ Coming(e))
      BY <3>1, <2>1, <1>4 DEF Whereabouts
    <3> QED
      BY <3>1, <3>2, <2>3, <2>5
  <2> QED
    BY <2>1, <2>2, <2>4, <2>6, <1>8
<1> QED
  BY <1>1, <1>8, <1>9, <1>11, <1>12, <1>13, <1>14, <1>15, SteadyFrom

\* The connection drops, and what was on its way is lost: the reconnect will ask,
\* or (before the first connect) there was nothing on its way.
LEMMA DisconnectStep ==
  ASSUME IInv, Disconnect
  PROVE  IInv'
<1> USE DEF IInv
<1>1. /\ InRoom /\ link' = (IF before THEN "offline" ELSE "connecting") /\ queue' = <<>>
      /\ excused' = (excused \/ FirstEntriesLost)
      /\ UNCHANGED <<server, entitled>>
      /\ UNCHANGED <<before, events, newest, req, failed, moved>>
  BY DEF Disconnect, InRoom
<1>2. Types /\ TabTypes /\ LogTypes
  BY DEF Types
<1>3. /\ LogTypes' /\ Stamps'
      /\ Visible' = Visible /\ (InScope' <=> InScope)
      /\ Scope => Scope'
      /\ toMe' = toMe /\ entitled' = entitled /\ stamp' = stamp /\ writer' = writer
  BY <1>1, LogKept
<1>4. Types'
  <2>1. queue' \in Seq(Item)
    BY <1>1
  <2>2. link' \in {"closed", "connecting", "joined", "live", "offline"}
    BY <1>1
  <2> QED
    BY <2>1, <2>2, <1>1, <1>2, <1>3 DEF Types, TabTypes
<1>5. InQueue' = {} /\ Pending' \subseteq Pending
  <2>1. InQueue' = {}
    BY <1>1 DEF InQueue
  <2> QED
    BY <2>1, <1>1 DEF Pending, Found
<1>6. LinkOK'
  BY <1>1, <1>3, <1>5 DEF LinkOK, InRoom
<1>7. Rights'
  BY <1>3, <1>5 DEF Rights
<1>8. Asked' /\ Newest'
  BY <1>1, <1>3 DEF Asked, Sound, Newest
<1>9. ASSUME ~ excused', ~ excused PROVE Scope' /\ InOrder' /\ CutOK' /\ Whereabouts'
  <2>1. Scope /\ InOrder /\ CutOK /\ Whereabouts
    BY <1>9 DEF Steady
  <2>2. \/ before /\ link' = "offline"
        \/ ~ before /\ link = "joined" /\ InQueue = {}
    <3>1. CASE before
      BY <1>1, <3>1
    <3>2. CASE ~ before
      <4>1. \A i \in 1..Len(queue) : queue[i] = "connect"
        BY <1>1, <1>9, <3>2 DEF FirstEntriesLost
      <4> QED
        BY <1>1, <3>2, <4>1 DEF LinkOK, InRoom, InQueue
    <3> QED
      BY <3>1, <3>2
  <2>3. InOrder'
    BY <2>1, <1>1, <1>3 DEF InOrder, Open
  <2>4. ASSUME NEW e \in Visible, Old(e), Pending' # {} PROVE Old(e)'
    BY <2>4, <1>2, <1>3, <1>4, <1>5, OldKeptHere
  <2>5. CutOK'
    <3> SUFFICES ASSUME NEW p \in Req, NEW e \in Visible \ (events \cup req[p].found),
                        NEW g \in req[p].found, req[p].since < stamp[e], stamp[e] <= stamp[g]
                 PROVE  Old(e)'
      BY <1>1, <1>3 DEF CutOK
    <3>1. Old(e)
      BY <2>1 DEF CutOK
    <3>2. Pending' # {}
      BY <1>1 DEF Pending, Found
    <3> QED
      BY <3>1, <3>2, <2>4
  <2>6. Whereabouts'
    <3> SUFFICES ASSUME ~ moved, NEW e \in Missing
                 PROVE  Old(e)' \/ (Beyond(e)' /\ Coming(e)')
      BY <1>1, <1>3 DEF Whereabouts, Missing
    <3>1. Coming(e) => Coming(e)'
      BY <2>2, <1>1, <1>3 DEF Coming, Covered, Unhealed
    <3>2. CASE Old(e)
      <4>1. CASE Pending' = {}
        <5>1. newest = 0
          BY <4>1, <1>1 DEF Pending, Newest
        <5>2. stamp[e] \in Nat /\ stamp[e] >= 1
          BY <1>2, VisibleStamps DEF Missing
        <5>3. Beyond(e)'
          BY <5>1, <5>2, <1>1, <1>3 DEF Beyond
        <5>4. before
          BY <2>2, <1>1, <3>2, <4>1, <1>5 DEF Old, Pending, Found
        <5>5. Coming(e)'
          BY <2>2, <5>4 DEF Coming
        <5> QED
          BY <5>3, <5>5
      <4>2. CASE Pending' # {}
        BY <4>2, <3>2, <2>4 DEF Missing
      <4> QED
        BY <4>1, <4>2
    <3>3. CASE Beyond(e) /\ Coming(e)
      <4>1. Beyond(e)'
        BY <3>3, <1>1, <1>3 DEF Beyond, Covered
      <4> QED
        BY <3>1, <3>3, <4>1
    <3>4. link # "closed"
      BY <1>1 DEF InRoom
    <3> QED
      BY <3>2, <3>3, <3>4, <2>1 DEF Whereabouts
  <2> QED
    BY <2>1, <2>3, <2>5, <2>6, <1>3
<1> QED
  BY <1>1, <1>3, <1>4, <1>6, <1>7, <1>8, <1>9, SteadyFrom

\* The page is left, and the feed with it.
LEMMA UnmountStep ==
  ASSUME IInv, Unmount
  PROVE  IInv'
<1> USE DEF IInv
<1>1. /\ link' = "closed" /\ before' = FALSE /\ queue' = <<>> /\ events' = {} /\ newest' = 0
      /\ req' = [q \in Req |-> Free]
      /\ UNCHANGED <<server, entitled, excused>>
  BY DEF Unmount
<1>2. /\ LogTypes' /\ Stamps'
      /\ Visible' = Visible /\ (InScope' <=> InScope)
      /\ Scope => Scope'
      /\ toMe' = toMe /\ entitled' = entitled /\ stamp' = stamp /\ writer' = writer
  BY <1>1, LogKept
<1>3. Free.found = {} /\ Free.since = 0 /\ Free.phase = "none"
  BY DEF Free
<1>4. Types'
  <2>1. 0 \in 0..MaxClock
    BY ClockAssumption
  <2>2. Free \in ReqRow
    BY <2>1 DEF Free, ReqRow
  <2>3. queue' \in Seq(Item)
    BY <1>1
  <2>4. TabTypes'
    BY <2>1, <2>2, <2>3, <1>1 DEF TabTypes
  <2> QED
    BY <2>4, <1>2 DEF Types
<1>5. InQueue' = {} /\ Pending' = {}
  BY <1>1, <1>3 DEF InQueue, Pending, Found
<1>6. LinkOK' /\ Rights'
  BY <1>1, <1>2, <1>5 DEF LinkOK, InRoom, Rights
<1>7. Asked'
  <2>1. Cardinality({}) <= Limit
    BY FS_EmptySet, LimitAssumption
  <2> QED
    BY <2>1, <1>1, <1>3 DEF Asked, Sound
<1>8. Newest'
  BY <1>1 DEF Newest
<1>9. ASSUME ~ excused PROVE Scope' /\ InOrder' /\ CutOK' /\ Whereabouts'
  <2>1. Scope /\ InOrder
    BY <1>9 DEF Steady
  <2>2. InOrder'
    BY <2>1, <1>1, <1>2 DEF InOrder, Open
  <2>3. CutOK' /\ Whereabouts'
    BY <1>1, <1>3 DEF CutOK, Whereabouts
  <2> QED
    BY <2>1, <2>2, <2>3, <1>2
<1> QED
  BY <1>1, <1>2, <1>4, <1>6, <1>7, <1>8, <1>9, SteadyFrom

-----------------------------------------------------------------------------
(* The theorems *)

\* Every step keeps the invariant.
LEMMA NextIInv == IInv /\ [Next]_vars => IInv'
<1> SUFFICES ASSUME IInv, [Next]_vars PROVE IInv'
  OBVIOUS
<1>1. ASSUME NEW e \in Entry, Commit(e) \/ EmitEntry(e) \/ RollBack(e) PROVE IInv'
  BY <1>1, CommitStep, EmitStep, RollBackStep
<1>2. ASSUME NEW e \in Entry, NEW d \in {"writes", "hands over", "deletes"}, Insert(e, d) PROVE IInv'
  <2>1. d \in Deed
    BY DEF Deed
  <2> QED
    BY <1>2, <2>1, InsertStep
<1>3. ASSUME NEW q \in Req,
             Mount(q) \/ ReadCatchUp(q) \/ CaughtUp(q) \/ Lose(q) \/ HandleConnect(q)
      PROVE  IInv'
  BY <1>3, MountStep, ReadStep, CaughtUpStep, LoseStep, ConnectStep
<1>4. ASSUME Join \/ HandleActivity \/ Disconnect \/ Unmount \/ Tick PROVE IInv'
  BY <1>4, JoinStep, ActivityStep, DisconnectStep, UnmountStep, TickStep
<1>5. CASE UNCHANGED vars
  <2>1. /\ UNCHANGED <<clock, stamp, writer, deed, subject, toMe, entitled>>
        /\ UNCHANGED <<link, before, queue, events, newest, req, failed, moved, excused>>
    BY <1>5 DEF vars, server, log, history
  <2>2. Types'
    BY <2>1 DEF IInv, Types, LogTypes, TabTypes
  <2>3. Visible' = Visible /\ InQueue' = InQueue /\ Found' = Found /\ Pending' = Pending
    BY <2>1 DEF Visible, InQueue, Found, Pending
  <2>4. LinkOK' /\ Rights'
    BY <2>1, <2>3 DEF IInv, LinkOK, InRoom, Rights, InScope
  <2>5. Asked' /\ Newest' /\ Stamps'
    BY <2>1 DEF IInv, Asked, Sound, Newest, Stamps
  <2>6. ASSUME ~ excused PROVE Scope' /\ InOrder' /\ CutOK' /\ Whereabouts'
    <3>1. Scope /\ InOrder /\ CutOK /\ Whereabouts
      BY <2>6 DEF IInv, Steady
    <3>2. Scope' /\ InOrder'
      BY <3>1, <2>1, <2>3 DEF Scope, InScope, InOrder, Open
    <3>3. CutOK'
      BY <3>1, <2>1, <2>3 DEF CutOK, Old
    <3>4. Whereabouts'
      BY <3>1, <2>1, <2>3 DEF Whereabouts, Missing, Old, Beyond, Coming, Covered, Unhealed
    <3> QED
      BY <3>2, <3>3, <3>4
  <2> QED
    BY <2>1, <2>2, <2>4, <2>5, <2>6, SteadyFrom
<1> QED
  BY <1>1, <1>2, <1>3, <1>4, <1>5 DEF Next

\* IInv is inductive.
THEOREM Inductive == Spec => []IInv
<1> QED
  BY InitIInv, NextIInv, PTL DEF Spec

\* Types, for whatever entries, catch-ups, limit and faults.
THEOREM TypeCorrect == Spec => []TypeOK
<1>1. IInv => TypeOK
  <2> SUFFICES ASSUME IInv PROVE TypeOK
    OBVIOUS
  <2> USE DEF IInv
  <2>1. Types /\ LogTypes /\ TabTypes
    BY DEF Types
  <2>2. clock \in Nat
    BY <2>1, Numbers
  <2>3. /\ stamp \in [Entry -> 0..MaxClock]
        /\ writer \in [Entry -> {"none", "inserted", "committed", "ended", "rolledBack"}]
        /\ deed \in [Entry -> {"writes", "hands over", "deletes"}]
        /\ subject \in {"mine", "others", "deleted"} /\ toMe \subseteq Entry
    BY <2>1 DEF LogTypes, Deed
  <2>4. /\ link \in {"closed", "connecting", "joined", "live", "offline"}
        /\ events \subseteq Entry /\ newest \in 0..MaxClock
    BY <2>1 DEF TabTypes
  <2>5. ~ InRoom => queue = <<>>
    BY DEF LinkOK
  <2>6. \A q \in Req : Cardinality(req[q].found) <= Limit
    BY DEF Asked, Sound
  <2> QED
    BY <2>2, <2>3, <2>4, <2>5, <2>6 DEF TypeOK
<1> QED
  BY <1>1, Inductive, PTL

\* What the tab shows, and what it has been sent, was committed and is of a subject
\* that is or was the user's: through handovers and deletions that overlap with
\* logging, emitting and fetching.
THEOREM NothingForeign == Spec => []OnlyEntitled
<1>1. IInv => OnlyEntitled
  BY DEF IInv, Rights, Pending, OnlyEntitled
<1> QED
  BY <1>1, Inductive, PTL

\* A connected tab to which nothing is on its way has no holes in its feed, but for
\* the causes that FeedHasNoHoles names.
THEOREM NoHoles == Spec => []FeedHasNoHoles
<1>1. IInv => FeedHasNoHoles
  <2> SUFFICES ASSUME IInv, Calm, ~ excused, ~ moved, ~ failed, NEW e \in Missing
               PROVE  events # {} /\ \A f \in events : stamp[f] >= stamp[e]
    BY DEF FeedHasNoHoles, Suffix, Missing
  <2> USE DEF IInv
  <2>1. InQueue = {} /\ \A q \in Req : req[q].found = {} /\ req[q].phase # "sent"
    BY DEF Calm, InQueue, Free
  <2>2. ~ Coming(e)
    BY <2>1 DEF Calm, Coming, Covered, Unhealed, Missing, Visible
  <2>3. Old(e)
    BY <2>2 DEF Calm, Steady, Whereabouts
  <2>4. Pending = events
    BY <2>1 DEF Pending, Found
  <2> QED
    BY <2>3, <2>4 DEF Old
<1> QED
  BY <1>1, Inductive, PTL
=============================================================================

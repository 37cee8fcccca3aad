-------------------------- MODULE DashboardProofs --------------------------
(***************************************************************************)
(* Proofs about Dashboard, for any page size, any tables that the schema     *)
(* allows, and any number of requests, changes and failures.                *)
(***************************************************************************)
EXTENDS Dashboard, FiniteSetTheorems, SequenceTheorems, WellFoundedInduction, TLAPS

-----------------------------------------------------------------------------
(* The invariant *)

Query == [lists : [ListKey -> Seq(Seq(STRING))], from : Days \cup {NoDay}, to : Days \cup {NoDay},
          sort : Sorts \cup {"default"}, offset : Nat \cup HandOffsets]

Pending == [phase : {"asked", "reading", "rejected"}, query : Query,
            page : Seq(Seq(Nat)), total : Seq(Nat)]

Error == (ListKey \cup {"offset", "dueTo"}) \X Int

Screen == [kind : {"nothing", "failed"}, current : BOOLEAN]
          \cup [kind : {"invalid"}, errors : SUBSET Error, current : BOOLEAN]
          \cup [kind : {"page"}, page : Seq(Nat), total : Nat, offset : Nat, current : BOOLEAN]

\* Types, and what the tables look like.
Types ==
  /\ viewer \in User /\ panel \in {"list", "summary"}
  /\ panel = "summary" => viewer \notin Developers
  /\ Tables(db)
  /\ url \in Query
  /\ req \in [Slot -> Pending \cup {Free}]
  /\ shown \in Screen

\* One request at most is under way, it is for what the address bar says, and only
\* reads pages that a list can have.
OneRequest ==
  \A i \in Slot : req[i] # Free =>
    /\ panel = "list" /\ loading /\ req[i].query = ApiQuery(url)
    /\ req[i].phase = "reading" => req[i].query.offset \in Nat
    /\ \A j \in Slot : req[j] # Free => i = j

\* What is shown as current is the answer to it.
ScreenOK ==
  /\ Settled => shown.current
  /\ shown.current =>
       /\ shown.kind = "page" => shown.offset = url.offset
       /\ shown.kind = "invalid" => shown.errors = QueryErrors(ApiQuery(url))

Rows == Matching(viewer, db, ApiQuery(url))
PageAt(o) == Pages(viewer, db, [ApiQuery(url) EXCEPT !.offset = o], PageSize)

\* While nobody changes the list, all that was read of it still holds, and no page
\* behind the last one is asked for.
SteadyOK ==
  steady =>
    /\ url.offset = 0 \/ url.offset < Cardinality(Rows)
    /\ \A i \in Slot : req[i] # Free =>
         /\ req[i].page # Unread => req[i].page[1] \in PageAt(url.offset)
         /\ req[i].total # Unread => req[i].total[1] = Cardinality(Rows)
    /\ shown.current /\ shown.kind = "page" =>
         /\ shown.page \in PageAt(url.offset)
         /\ shown.total = Cardinality(Rows)
    /\ \A o \in DOMAIN pages : o \in Nat /\ \E p \in PageAt(o) : pages[o] = ToSet(p)

\* Each part of a summary was read from the tables of one moment of the request.
PartRead(name) ==
  name \in {"projects", "perProjectStatus", "tasksByStatus", "openByPriority"} =>
    \E d \in past :
      part[name] = <<CASE name = "projects" -> OwnProjects(viewer, d)
                       [] name = "perProjectStatus" -> PerProjectStatus(viewer, d)
                       [] name = "tasksByStatus" -> TasksByStatus(viewer, d)
                       [] name = "openByPriority" -> OpenByPriority(viewer, d)>>

PartsOK ==
  /\ IsFiniteSet(past) /\ db \in past /\ \A d \in past : Tables(d)
  /\ DOMAIN part = PartsOf(viewer)
  /\ \A name \in DOMAIN part : part[name] # Unread => PartRead(name)

SummaryOK ==
  summary \notin {Nothing, Failure} =>
    /\ panel = "summary" /\ \A name \in DOMAIN part : part[name] # Unread
    /\ summary = IF viewer \in Admins THEN AdminSummary ELSE PmSummary

IInv == Types /\ OneRequest /\ ScreenOK /\ SteadyOK /\ PartsOK /\ SummaryOK

-----------------------------------------------------------------------------
(* Recursive functions on an interval *)

\* A nonempty set of numbers has a least element.
LEMMA LeastNumber ==
  ASSUME NEW S \in SUBSET Nat, S # {}
  PROVE  \E m \in S : \A x \in S : m <= x
<1> DEFINE Less == {p \in Nat \X Nat : p[1] < p[2]}
<1>1. IsWellFoundedOn(Less, Nat)
  <2>1. OpToRel(<, Nat) = Less
    BY Zenon DEF OpToRel
  <2> QED
    BY <2>1, NatLessThanWellFounded, Zenon
<1>2. PICK m \in S : \A x \in S : ~ (<<x, m>> \in Less)
  <2> HIDE DEF Less
  <2> QED
    BY <1>1, WFMin
<1>3. ASSUME NEW x \in S, x < m PROVE FALSE
  <2>1. <<x, m>> \in Less
    BY <1>3
  <2> QED
    BY <1>2, <2>1
<1> QED
  BY <1>3

\* Induction on an interval, with the property as a set.
LEMMA Climb ==
  ASSUME NEW n \in Nat, NEW G, 0 \in G, \A i \in 1..n : i - 1 \in G => i \in G
  PROVE  \A i \in 0..n : i \in G
<1> DEFINE Bad == {i \in 0..n : i \notin G}
<1> SUFFICES ASSUME Bad # {} PROVE FALSE
  OBVIOUS
<1>1. PICK m \in Bad : \A x \in Bad : m <= x
  <2>1. Bad \in SUBSET Nat
    OBVIOUS
  <2> HIDE DEF Bad
  <2> QED
    BY <2>1, LeastNumber
<1>2. m \in 1..n /\ m - 1 \in 0..n
  BY <1>1
<1>3. m - 1 \in G
  BY <1>1, <1>2
<1> QED
  BY <1>1, <1>2, <1>3

\* f is computed from base by a step for each number.
Solves(f, n, base, step) == f[0] = base /\ \A i \in 1..n : f[i] = step[<<f[i - 1], i>>]

\* A recursion along an interval has a solution.
LEMMA Recursion ==
  ASSUME NEW n \in Nat, NEW V, NEW base \in V, NEW step \in [V \X (1..n) -> V]
  PROVE  \E f \in [0..n -> V] : Solves(f, n, base, step)
<1> USE DEF Solves
<1> DEFINE Good(f, m) == f \in [0..m -> V] /\ Solves(f, m, base, step)
           G == {m \in 0..n : \E f \in [0..m -> V] : Good(f, m)}
<1>1. 0 \in G
  <2> DEFINE f == [i \in 0..0 |-> base]
  <2>1. f \in [0..0 -> V] /\ Good(f, 0)
    OBVIOUS
  <2> HIDE DEF f
  <2> QED
    BY <2>1
<1>2. ASSUME NEW m \in 1..n, m - 1 \in G PROVE m \in G
  <2>1. PICK f \in [0..(m - 1) -> V] : Good(f, m - 1)
    BY <1>2
  <2> DEFINE g == [i \in 0..m |-> IF i = m THEN step[<<f[m - 1], m>>] ELSE f[i]]
  <2>2. m \in Nat /\ m - 1 \in 0..(m - 1) /\ f[m - 1] \in V /\ step[<<f[m - 1], m>>] \in V
    BY <2>1
  <2>3. g \in [0..m -> V]
    <3>1. ASSUME NEW i \in 0..m, i # m PROVE f[i] \in V
      BY <3>1, <2>2
    <3> QED
      BY <2>2, <3>1
  <2>4. g[0] = base
    BY <2>1, <2>2
  <2>5. ASSUME NEW i \in 1..m PROVE g[i] = step[<<g[i - 1], i>>]
    <3>1. CASE i = m
      <4>1. i - 1 \in 0..m /\ i - 1 # m /\ m \in 0..m
        BY <3>1, <2>2
      <4>2. g[i - 1] = f[m - 1]
        BY <3>1, <4>1
      <4>3. g[i] = step[<<f[m - 1], m>>]
        BY <3>1, <4>1
      <4> QED
        BY <3>1, <4>2, <4>3
    <3>2. CASE i # m
      <4>1. i \in 1..(m - 1) /\ i - 1 \in 0..m /\ i - 1 # m
        BY <3>2, <2>2
      <4>2. g[i] = f[i] /\ g[i - 1] = f[i - 1]
        BY <3>2, <4>1
      <4> QED
        BY <2>1, <4>1, <4>2
    <3> QED
      BY <3>1, <3>2
  <2> HIDE DEF g
  <2>6. Good(g, m)
    BY <2>3, <2>4, <2>5
  <2> QED
    BY <2>3, <2>6
<1>3. n \in G
  <2> HIDE DEF G
  <2> QED
    BY <1>1, <1>2, Climb
<1> QED
  BY <1>3

-----------------------------------------------------------------------------
(* Lists of values *)

\* The values of a parameter, one after the other.
LEMMA FlatType ==
  ASSUME NEW S, NEW raw \in Seq(Seq(S))
  PROVE  Flat(raw) \in Seq(S)
<1>1. CASE Len(raw) = 0
  <2>1. raw = <<>>
    BY <1>1, EmptySeq
  <2>2. Flat(raw) = <<>>
    BY <1>1, <2>1 DEF Flat, FlattenSeq
  <2> QED
    BY <2>2
<1>2. CASE Len(raw) # 0
  <2> DEFINE n == Len(raw)
             V == Seq(S)
             step == [p \in V \X (1..n) |-> p[1] \o raw[p[2]]]
             Is(h) == h = [i \in 1..n |-> IF i = 1 THEN raw[i] ELSE h[i - 1] \o raw[i]]
  <2>1. n \in Nat /\ n >= 1 /\ \A i \in 1..n : raw[i] \in V
    BY <1>2, LenProperties, ElementOfSeq
  <2>2. <<>> \in V
    OBVIOUS
  <2>3. step \in [V \X (1..n) -> V]
    <3>1. ASSUME NEW p \in V \X (1..n) PROVE p[1] \o raw[p[2]] \in V
      <4>1. p[1] \in V /\ p[2] \in 1..n
        OBVIOUS
      <4> QED
        BY <2>1, <4>1, ConcatProperties
    <3> QED
      BY <3>1
  <2>4. PICK f \in [0..n -> V] : Solves(f, n, <<>>, step)
    <3> HIDE DEF n, V, step
    <3> QED
      BY <2>1, <2>2, <2>3, Recursion
  <2>5. \A i \in 1..n : i - 1 \in 0..n /\ f[i - 1] \in V /\ f[i] = f[i - 1] \o raw[i]
    <3>1. ASSUME NEW i \in 1..n PROVE i - 1 \in 0..n /\ f[i - 1] \in V /\ f[i] = f[i - 1] \o raw[i]
      <4> HIDE DEF n, V
      <4>1. i - 1 \in 0..n
        BY <2>1
      <4>2. f[i - 1] \in V
        BY <2>4, <4>1
      <4>3. <<f[i - 1], i>> \in V \X (1..n)
        BY <4>2
      <4>4. step[<<f[i - 1], i>>] = f[i - 1] \o raw[i]
        BY <4>3
      <4>5. f[i] = step[<<f[i - 1], i>>]
        BY <2>4 DEF Solves
      <4> QED
        BY <4>1, <4>2, <4>4, <4>5
    <3> QED
      BY <3>1
  <2> DEFINE h == [i \in 1..n |-> f[i]]
  <2>6. Is(h)
    <3>1. ASSUME NEW i \in 1..n PROVE h[i] = IF i = 1 THEN raw[i] ELSE h[i - 1] \o raw[i]
      <4>1. CASE i = 1
        <5>1. f[i] = f[0] \o raw[i]
          <6>1. i - 1 = 0
            BY <4>1
          <6> QED
            BY <2>5, <6>1
        <5>2. raw[i] \in Seq(S)
          BY <2>1
        <5> QED
          BY <2>4, <4>1, <5>1, <5>2, ConcatEmptySeq DEF Solves
      <4>2. CASE i # 1
        <5>1. i - 1 \in 1..n
          BY <4>2, <2>1
        <5> QED
          BY <2>5, <4>2, <5>1
      <4> QED
        BY <4>1, <4>2
    <3> QED
      BY <3>1, Zenon
  <2> DEFINE g == CHOOSE x : Is(x)
  <2>7. Is(g)
    <3> HIDE DEF Is, h
    <3> QED
      BY <2>6
  <2> HIDE DEF g
  <2> DEFINE G == {k \in 0..n : k = 0 \/ g[k] \in V}
  <2>8. \A i \in 0..n : i \in G
    <3>1. 0 \in G
      BY <2>1
    <3>2. ASSUME NEW i \in 1..n, i - 1 \in G PROVE i \in G
      <4>1. CASE i = 1
        <5>1. g[i] = raw[i]
          BY <2>7, <4>1
        <5> QED
          BY <2>1, <5>1
      <4>2. CASE i # 1
        <5>1. g[i - 1] \in V /\ raw[i] \in V
          BY <3>2, <4>2, <2>1
        <5>2. g[i] = g[i - 1] \o raw[i]
          BY <2>7, <4>2
        <5>3. g[i - 1] \o raw[i] \in V
          BY <5>1, ConcatProperties
        <5>4. g[i] \in V
          <6> HIDE DEF n, V
          <6> QED
            BY <5>2, <5>3, Zenon
        <5>5. i \in 0..n
          BY <2>1
        <5> QED
          <6> HIDE DEF n, V
          <6> QED
            BY <5>4, <5>5
      <4> QED
        BY <4>1, <4>2
    <3> QED
      <4> HIDE DEF G, n
      <4> QED
        BY <2>1, <3>1, <3>2, Climb
  <2>9. g[n] \in V
    BY <2>1, <2>8
  <2>10. Flat(raw) = g[n]
    BY <1>2 DEF Flat, FlattenSeq, g
  <2> QED
    BY <2>9, <2>10
<1> QED
  BY <1>1, <1>2

\* Without leaves the other values.
LEMMA WithoutType ==
  ASSUME NEW S, NEW values \in Seq(S), NEW v
  PROVE  Without(values, v) \in Seq(S \ {v})
<1> DEFINE n == Len(values)
           V == Seq(S \ {v})
           Next1(s, i) == IF values[i] = v THEN s ELSE Append(s, values[i])
           step == [p \in V \X (1..n) |-> Next1(p[1], p[2])]
           Is(h) == h = [i \in 0..n |->
                           IF i = 0 THEN <<>>
                           ELSE IF values[i] = v THEN h[i - 1] ELSE Append(h[i - 1], values[i])]
<1>1. n \in Nat /\ \A i \in 1..n : values[i] \in S
  BY LenProperties, ElementOfSeq
<1>2. <<>> \in V
  OBVIOUS
<1>3. ASSUME NEW s \in V, NEW i \in 1..n PROVE Next1(s, i) \in V
  <2>1. CASE values[i] = v
    BY <2>1
  <2>2. CASE values[i] # v
    <3>1. values[i] \in S \ {v}
      BY <1>1, <2>2
    <3> QED
      BY <2>2, <3>1, AppendProperties
  <2> QED
    BY <2>1, <2>2
<1>4. step \in [V \X (1..n) -> V]
  <2> HIDE DEF Next1, V
  <2> QED
    BY <1>3
<1>5. PICK f \in [0..n -> V] : Solves(f, n, <<>>, step)
  <2> HIDE DEF n, V, step
  <2> QED
    BY <1>1, <1>2, <1>4, Recursion
<1>6. \A i \in 1..n : f[i] = Next1(f[i - 1], i)
  <2>1. ASSUME NEW i \in 1..n PROVE f[i] = Next1(f[i - 1], i)
    <3> HIDE DEF n, V, Next1
    <3>1. i - 1 \in 0..n
      BY <1>1
    <3>2. <<f[i - 1], i>> \in V \X (1..n)
      BY <1>5, <3>1
    <3>3. step[<<f[i - 1], i>>] = Next1(f[i - 1], i)
      BY <3>2
    <3>4. f[i] = step[<<f[i - 1], i>>]
      BY <1>5 DEF Solves
    <3> QED
      BY <3>3, <3>4
  <2> QED
    BY <2>1
<1>7. Is(f)
  <2>1. f = [i \in 0..n |-> f[i]]
    OBVIOUS
  <2>2. ASSUME NEW i \in 0..n
        PROVE  f[i] = IF i = 0 THEN <<>>
                      ELSE IF values[i] = v THEN f[i - 1] ELSE Append(f[i - 1], values[i])
    <3>1. CASE i = 0
      BY <1>5, <3>1 DEF Solves
    <3>2. CASE i # 0
      <4>1. i \in 1..n
        BY <3>2
      <4> QED
        BY <1>6, <3>2, <4>1
    <3> QED
      BY <3>1, <3>2
  <2> QED
    BY <2>1, <2>2, Zenon
<1> DEFINE g == CHOOSE x : Is(x)
<1>8. Is(g)
  <2> HIDE DEF Is
  <2> QED
    BY <1>7
<1> HIDE DEF g
<1> DEFINE G == {k \in 0..n : g[k] \in V}
<1>9. \A i \in 0..n : i \in G
  <2>1. 0 \in G
    <3> HIDE DEF n
    <3>1. 0 \in 0..n
      BY <1>1
    <3>2. g[0] = <<>>
      BY <1>8, <3>1
    <3> QED
      BY <1>2, <3>1, <3>2
  <2>2. ASSUME NEW i \in 1..n, i - 1 \in G PROVE i \in G
    <3>1. g[i] = Next1(g[i - 1], i)
      <4> HIDE DEF n
      <4>1. i \in 0..n /\ i # 0
        BY <1>1
      <4> QED
        BY <1>8, <4>1
    <3>2. g[i - 1] \in V
      BY <2>2
    <3> QED
      <4> HIDE DEF Next1, V
      <4> QED
        BY <1>3, <3>1, <3>2
  <2> QED
    <3> HIDE DEF G, n
    <3> QED
      BY <1>1, <2>1, <2>2, Climb
<1>10. Without(values, v) = g[n]
  BY DEF Without, g
<1> QED
  BY <1>1, <1>9, <1>10

-----------------------------------------------------------------------------
(* Groups *)

\* The sum of the sizes of groups is the number of rows that are in one.
LEMMA SumOfGroups ==
  ASSUME NEW K, IsFiniteSet(K), NEW rows, IsFiniteSet(rows), NEW key, NEW counts,
         DOMAIN counts = K, \A k \in K : counts[k] = Cardinality({t \in rows : key[t] = k})
  PROVE  Total(counts) = Cardinality({t \in rows : key[t] \in K})
<1> DEFINE Of(s) == {t \in rows : key[t] \in s}
           One(s) == CHOOSE x \in s : TRUE
           Is(h) == h = [s \in SUBSET K |->
                           IF s = {} THEN 0 ELSE counts[One(s)] + h[s \ {One(s)}]]
           size == [s \in SUBSET K |-> Cardinality(Of(s))]
           iter == CHOOSE h : Is(h)
<1>1. ASSUME NEW s PROVE IsFiniteSet(Of(s)) /\ Cardinality(Of(s)) \in Nat
  BY FS_Subset, FS_CardinalityType
<1>2. Cardinality(Of({})) = 0
  <2>1. Of({}) = {}
    OBVIOUS
  <2> QED
    BY <2>1, FS_EmptySet
<1>3. ASSUME NEW s \in SUBSET K, s # {}
      PROVE  /\ One(s) \in s /\ s \ {One(s)} \in SUBSET K
             /\ Cardinality(Of(s)) = counts[One(s)] + Cardinality(Of(s \ {One(s)}))
  <2>1. PICK x : x = One(s)
    OBVIOUS
  <2>2. x \in s
    BY <1>3, <2>1
  <2> DEFINE rest == s \ {x}
             group == {t \in rows : key[t] = x}
  <2>3. Of(s) = group \cup Of(rest) /\ group \cap Of(rest) = {}
    BY <2>2
  <2>4. IsFiniteSet(group) /\ Cardinality(group) \in Nat /\ counts[x] = Cardinality(group)
    BY <2>2, FS_Subset, FS_CardinalityType
  <2>5. IsFiniteSet(Of(rest)) /\ Cardinality(Of(rest)) \in Nat
    BY <1>1
  <2>6. Cardinality(Of(s)) = Cardinality(group) + Cardinality(Of(rest))
    <3> HIDE DEF Of, group, rest
    <3>1. Cardinality(group \cup Of(rest))
            = Cardinality(group) + Cardinality(Of(rest)) - Cardinality(group \cap Of(rest))
      BY <2>4, <2>5, FS_Union
    <3>2. Cardinality(group \cap Of(rest)) = 0
      BY <2>3, FS_EmptySet
    <3> QED
      BY <2>3, <2>4, <2>5, <3>1, <3>2
  <2>7. rest \in SUBSET K
    OBVIOUS
  <2> QED
    <3> HIDE DEF Of, group, One
    <3> QED
      BY <2>1, <2>2, <2>4, <2>6, <2>7
<1>4. Is(size)
  <2>1. ASSUME NEW s \in SUBSET K
        PROVE  size[s] = IF s = {} THEN 0 ELSE counts[One(s)] + size[s \ {One(s)}]
    <3>1. CASE s = {}
      BY <1>2, <3>1
    <3>2. CASE s # {}
      <4> HIDE DEF Of, One
      <4> QED
        BY <1>3, <3>2
    <3> QED
      BY <3>1, <3>2
  <2> QED
    <3> HIDE DEF Of, One
    <3> QED
      BY <2>1
<1>5. Is(iter)
  <2> HIDE DEF Is, size
  <2> QED
    BY <1>4
<1> HIDE DEF iter, Of, One
<1> DEFINE n == Cardinality(K)
           G == {m \in 0..n : \A s \in SUBSET K : Cardinality(s) = m => iter[s] = size[s]}
<1>6. n \in Nat /\ \A s \in SUBSET K : IsFiniteSet(s) /\ Cardinality(s) \in 0..n
  <2>1. n \in Nat
    BY FS_CardinalityType
  <2>2. ASSUME NEW s \in SUBSET K PROVE IsFiniteSet(s) /\ Cardinality(s) \in 0..n
    <3>1. IsFiniteSet(s) /\ Cardinality(s) <= n
      BY FS_Subset
    <3>2. Cardinality(s) \in Nat
      BY <3>1, FS_CardinalityType
    <3> QED
      BY <2>1, <3>1, <3>2
  <2> QED
    BY <2>1, <2>2
<1> HIDE DEF n, size
<1>7. 0 \in G
  <2>1. ASSUME NEW s \in SUBSET K, Cardinality(s) = 0 PROVE iter[s] = size[s]
    <3>1. s = {}
      BY <1>6, <2>1, FS_EmptySet
    <3> QED
      BY <1>4, <1>5, <3>1
  <2> QED
    BY <1>6, <2>1
<1>8. ASSUME NEW m \in 1..n, m - 1 \in G PROVE m \in G
  <2>1. ASSUME NEW s \in SUBSET K, Cardinality(s) = m PROVE iter[s] = size[s]
    <3>1. m # 0 /\ s # {}
      BY <1>6, <2>1, FS_EmptySet
    <3>2. One(s) \in s /\ s \ {One(s)} \in SUBSET K
      BY <1>3, <3>1
    <3>3. Cardinality(s \ {One(s)}) = m - 1
      BY <1>6, <2>1, <3>2, FS_RemoveElement
    <3>4. iter[s \ {One(s)}] = size[s \ {One(s)}]
      BY <1>8, <3>2, <3>3
    <3>5. iter[s] = counts[One(s)] + iter[s \ {One(s)}]
      BY <1>5, <3>1
    <3>6. size[s] = counts[One(s)] + size[s \ {One(s)}]
      BY <1>4, <3>1
    <3> QED
      BY <3>4, <3>5, <3>6
  <2> QED
    BY <1>6, <2>1
<1>9. n \in G
  <2> HIDE DEF G
  <2>1. \A i \in 0..n : i \in G
    BY <1>6, <1>7, <1>8, Climb
  <2> QED
    BY <1>6, <2>1
<1>10. iter[K] = size[K]
  BY <1>9 DEF n
<1>11. Total(counts) = iter[K]
  BY DEF Total, MapThenSumSet, MapThenFoldSet, iter, One
<1> QED
  BY <1>10, <1>11 DEF size, Of

-----------------------------------------------------------------------------
(* Sort orders *)

\* Before compares from left to right.
LEMMA BeforePair ==
  ASSUME NEW a \in Int, NEW b \in Int, NEW c \in Int, NEW e \in Int
  PROVE  Before(<<a, b>>, <<c, e>>) <=> (a < c \/ (a = c /\ b < e))
<1>1. Before(<<a, b>>, <<c, e>>) <=>
        \E i \in 1..2 : <<a, b>>[i] < <<c, e>>[i] /\ \A j \in 1..(i - 1) : <<a, b>>[j] = <<c, e>>[j]
  BY DEF Before
<1>2. \A i \in 1..2 : i = 1 \/ i = 2
  OBVIOUS
<1>3. 1 \in 1..2 /\ 2 \in 1..2 /\ 1..(1 - 1) = {} /\ \A j \in 1..(2 - 1) : j = 1
  OBVIOUS
<1> QED
  BY <1>1, <1>2, <1>3

\* The same for keys of three numbers.
LEMMA BeforeTriple ==
  ASSUME NEW a \in Int, NEW b \in Int, NEW c \in Int, NEW e \in Int, NEW f \in Int, NEW g \in Int
  PROVE  Before(<<a, b, c>>, <<e, f, g>>) <=>
           (a < e \/ (a = e /\ b < f) \/ (a = e /\ b = f /\ c < g))
<1>1. Before(<<a, b, c>>, <<e, f, g>>) <=>
        \E i \in 1..3 : <<a, b, c>>[i] < <<e, f, g>>[i]
                        /\ \A j \in 1..(i - 1) : <<a, b, c>>[j] = <<e, f, g>>[j]
  BY DEF Before
<1>2. \A i \in 1..3 : i = 1 \/ i = 2 \/ i = 3
  OBVIOUS
<1>3. /\ 1 \in 1..3 /\ 2 \in 1..3 /\ 3 \in 1..3 /\ 1..(1 - 1) = {}
      /\ \A j \in 1..(2 - 1) : j = 1
      /\ 1 \in 1..(2 - 1)
      /\ \A j \in 1..(3 - 1) : j = 1 \/ j = 2
      /\ 1 \in 1..(3 - 1) /\ 2 \in 1..(3 - 1)
  OBVIOUS
<1> QED
  BY <1>1, <1>2, <1>3

\* Of two tasks one comes first, whatever the sort order: the keys end in the id.
LEMMA KeysOrdered ==
  ASSUME NEW d, Tables(d), NEW sort \in Sorts,
         NEW t \in DOMAIN d.task, NEW u \in DOMAIN d.task, t # u
  PROVE  Before(SortKey(sort, t, d.task[t]), SortKey(sort, u, d.task[u]))
           <=> ~ Before(SortKey(sort, u, d.task[u]), SortKey(sort, t, d.task[t]))
<1> DEFINE r == d.task[t]
           w == d.task[u]
<1>1. /\ t \in Int /\ u \in Int /\ r.due \in Int /\ w.due \in Int
      /\ r.created \in Int /\ w.created \in Int
      /\ r.priority \in Priority /\ w.priority \in Priority
  BY DEF Tables
<1>2. PriorityRank[r.priority] \in Int /\ PriorityRank[w.priority] \in Int
  BY <1>1 DEF PriorityRank, Priority
<1> HIDE DEF r, w
<1>3. CASE sort = "dueDate"
  <2>1. SortKey(sort, t, r) = <<r.due, t>> /\ SortKey(sort, u, w) = <<w.due, u>>
    BY <1>3 DEF SortKey
  <2>2. Before(<<r.due, t>>, <<w.due, u>>) <=> ~ Before(<<w.due, u>>, <<r.due, t>>)
    BY <1>1, BeforePair
  <2> QED
    BY <2>1, <2>2 DEF r, w
<1>4. CASE sort = "-priority"
  <2>1. PICK a, b : a = - PriorityRank[r.priority] /\ b = - PriorityRank[w.priority]
    OBVIOUS
  <2>2. a \in Int /\ b \in Int
    BY <1>2, <2>1
  <2>3. SortKey(sort, t, r) = <<a, r.due, t>> /\ SortKey(sort, u, w) = <<b, w.due, u>>
    BY <1>4, <2>1 DEF SortKey
  <2>4. Before(<<a, r.due, t>>, <<b, w.due, u>>) <=> ~ Before(<<b, w.due, u>>, <<a, r.due, t>>)
    <3>1. Before(<<a, r.due, t>>, <<b, w.due, u>>) <=>
            (a < b \/ (a = b /\ r.due < w.due) \/ (a = b /\ r.due = w.due /\ t < u))
      BY <1>1, <2>2, BeforeTriple
    <3>2. Before(<<b, w.due, u>>, <<a, r.due, t>>) <=>
            (b < a \/ (b = a /\ w.due < r.due) \/ (b = a /\ w.due = r.due /\ u < t))
      BY <1>1, <2>2, BeforeTriple
    <3> QED
      BY <1>1, <2>2, <3>1, <3>2
  <2> QED
    BY <2>3, <2>4 DEF r, w
<1>5. CASE sort = "-createdAt"
  <2>1. PICK a, b, x, y : a = - r.created /\ b = - w.created /\ x = - t /\ y = - u
    OBVIOUS
  <2>2. a \in Int /\ b \in Int /\ x \in Int /\ y \in Int /\ x # y
    BY <1>1, <2>1
  <2>3. SortKey(sort, t, r) = <<a, x>> /\ SortKey(sort, u, w) = <<b, y>>
    BY <1>5, <2>1 DEF SortKey
  <2>4. Before(<<a, x>>, <<b, y>>) <=> ~ Before(<<b, y>>, <<a, x>>)
    BY <2>2, BeforePair
  <2> QED
    BY <2>3, <2>4 DEF r, w
<1> QED
  BY <1>3, <1>4, <1>5 DEF Sorts

\* s names each of the n rows once.
Lists(s, n, rows) ==
  /\ s \in [1..n -> rows]
  /\ \A i, j \in 1..n : i # j => s[i] # s[j]
  /\ \A t \in rows : \E i \in 1..n : s[i] = t

\* An order of rows names each of them once, and no row after a greater one.
LEMMA OrderIs ==
  ASSUME NEW d, NEW rows, IsFiniteSet(rows), NEW sort, NEW s \in Orders(rows, sort, d)
  PROVE  /\ Lists(s, Cardinality(rows), rows)
         /\ \A i, j \in 1..Cardinality(rows) : i < j =>
              ~ Before(SortKey(sort, s[j], d.task[s[j]]), SortKey(sort, s[i], d.task[s[i]]))
<1> DEFINE n == Cardinality(rows)
           key == [t \in rows |-> SortKey(sort, t, d.task[t])]
<1>1. /\ s \in [1..n -> rows]
      /\ \A i, j \in 1..n : i # j => s[i] # s[j]
      /\ \A i, j \in DOMAIN s : i < j => ~ Before(key[s[j]], key[s[i]])
  BY DEF Orders, SetToSeqs
<1>2. \A t \in rows : \E i \in 1..n : s[i] = t
  <2>1. n \in Nat
    BY FS_CardinalityType
  <2>2. s \in Injection(1..n, rows)
    BY <1>1 DEF Injection, IsInjective
  <2>3. IsFiniteSet(1..n) /\ Cardinality(1..n) = n
    BY <2>1, FS_Interval
  <2>4. s \in Surjection(1..n, rows)
    BY <2>2, <2>3, FS_Injection, Zenon
  <2> QED
    BY <2>4 DEF Surjection
<1>3. ASSUME NEW i \in 1..n, NEW j \in 1..n, i < j
      PROVE  ~ Before(SortKey(sort, s[j], d.task[s[j]]), SortKey(sort, s[i], d.task[s[i]]))
  <2>1. i \in DOMAIN s /\ j \in DOMAIN s /\ s[i] \in rows /\ s[j] \in rows
    BY <1>1
  <2>2. key[s[i]] = SortKey(sort, s[i], d.task[s[i]]) /\ key[s[j]] = SortKey(sort, s[j], d.task[s[j]])
    BY <2>1
  <2> QED
    <3> HIDE DEF key
    <3> QED
      BY <1>1, <1>3, <2>1, <2>2
<1> QED
  BY <1>1, <1>2, <1>3 DEF Lists

\* The sort orders the app offers leave the database no choice: any set of tasks has
\* exactly one order by them, so that pages read one by one belong together
\* (listTasks' ORDER BY ends in the id).
THEOREM OneOrder ==
  ASSUME NEW d, Tables(d), NEW rows \in SUBSET DOMAIN d.task, NEW sort \in Sorts,
         NEW r \in Orders(rows, sort, d), NEW s \in Orders(rows, sort, d)
  PROVE  r = s
<1> DEFINE n == Cardinality(rows)
           B(t, u) == Before(SortKey(sort, t, d.task[t]), SortKey(sort, u, d.task[u]))
           Sorted(o) == /\ Lists(o, n, rows)
                        /\ \A i, j \in 1..n : i < j => ~ B(o[j], o[i])
<1>1. IsFiniteSet(rows) /\ n \in Nat
  BY FS_Subset, FS_CardinalityType DEF Tables
<1>2. Sorted(r) /\ Sorted(s)
  <2>1. Sorted(r)
    BY <1>1, OrderIs
  <2>2. Sorted(s)
    BY <1>1, OrderIs
  <2> QED
    BY <2>1, <2>2
<1> USE DEF Lists
<1>3. \A t, u \in rows : t # u => (B(t, u) <=> ~ B(u, t))
  BY KeysOrdered
<1> HIDE DEF B, n
<1> DEFINE Differ == {i \in 1..n : r[i] # s[i]}
<1> SUFFICES ASSUME Differ # {} PROVE FALSE
  <2>1. ASSUME Differ = {} PROVE \A i \in 1..n : r[i] = s[i]
    BY <2>1
  <2>2. r \in [1..n -> rows] /\ s \in [1..n -> rows]
    BY <1>2
  <2>3. ASSUME \A i \in 1..n : r[i] = s[i] PROVE r = s
    <3>1. r = [i \in 1..n |-> r[i]] /\ s = [i \in 1..n |-> s[i]]
      BY <2>2
    <3>2. [i \in 1..n |-> r[i]] = [i \in 1..n |-> s[i]]
      BY <2>3
    <3> QED
      BY <3>1, <3>2, Zenon
  <2> QED
    BY <2>1, <2>3
<1>4. PICK k \in Differ : \A i \in Differ : k <= i
  <2>1. Differ \in SUBSET Nat
    BY <1>1
  <2> HIDE DEF Differ
  <2> QED
    BY <2>1, LeastNumber
<1>5. k \in 1..n /\ r[k] # s[k] /\ r[k] \in rows /\ s[k] \in rows
  BY <1>2
<1>6. PICK i \in 1..n : r[i] = s[k]
  BY <1>2, <1>5
<1>7. PICK j \in 1..n : s[j] = r[k]
  BY <1>2, <1>5
<1>8. k < i
  <2>1. i # k
    BY <1>5, <1>6
  <2>2. ASSUME i < k PROVE FALSE
    <3>1. i \notin Differ
      BY <1>1, <1>4, <2>2
    <3>2. s[i] = s[k]
      BY <1>6, <3>1
    <3> QED
      BY <1>2, <1>5, <2>1, <3>2
  <2> QED
    BY <1>1, <1>5, <2>1, <2>2
<1>9. k < j
  <2>1. j # k
    BY <1>5, <1>7
  <2>2. ASSUME j < k PROVE FALSE
    <3>1. j \notin Differ
      BY <1>1, <1>4, <2>2
    <3>2. r[j] = r[k]
      BY <1>7, <3>1
    <3> QED
      BY <1>2, <1>5, <2>1, <3>2
  <2> QED
    BY <1>1, <1>5, <2>1, <2>2
<1>10. ~ B(s[k], r[k]) /\ ~ B(r[k], s[k])
  BY <1>2, <1>5, <1>6, <1>7, <1>8, <1>9
<1> QED
  BY <1>3, <1>5, <1>10

-----------------------------------------------------------------------------
(* Multiples of the page size *)

\* Every number is less than a page behind a multiple of the page size,
LEMMA Multiple ==
  ASSUME NEW a \in Nat, NEW P \in Nat \ {0}
  PROVE  \E o \in 0..a : o % P = 0 /\ a < o + P
<1>1. PICK r : r = a % P
  OBVIOUS
<1>2. r \in 0..(P - 1)
  BY <1>1
<1>3. PICK q : q = a \div P
  OBVIOUS
<1>4. q \in Int /\ a = P * q + r
  BY <1>1, <1>3
<1>5. (P * q) % P = 0
  BY <1>4
<1>6. q >= 0
  BY <1>3
<1>7. P * q \in Int
  BY <1>4
<1>8. P * q >= 0
  BY <1>4, <1>6
<1>9. PICK o : o = P * q
  OBVIOUS
<1>10. o \in 0..a /\ a < o + P
  BY <1>2, <1>4, <1>7, <1>8, <1>9
<1> QED
  BY <1>5, <1>9, <1>10

\* and multiples of the page size are a page apart.
LEMMA Apart ==
  ASSUME NEW P \in Nat \ {0}, NEW o \in Nat, NEW p \in Nat, o % P = 0, p % P = 0, o < p
  PROVE  o + P <= p
<1>1. o = P * (o \div P) /\ p = P * (p \div P)
  OBVIOUS
<1>2. PICK x, y : x = o \div P /\ y = p \div P
  OBVIOUS
<1>3. x \in Int /\ y \in Int
  BY <1>2
<1>4. x < y
  BY <1>1, <1>2, <1>3
<1>5. P * (y - x) >= P
  BY <1>3, <1>4
<1> QED
  BY <1>1, <1>2, <1>3, <1>5

-----------------------------------------------------------------------------
(* Pages *)

\* The tables' tasks are finitely many numbers, those of a list among them.
LEMMA MatchingType ==
  ASSUME NEW d, Tables(d), NEW u, NEW q
  PROVE  /\ IsFiniteSet(DOMAIN d.task) /\ DOMAIN d.task \subseteq Nat
         /\ InScope(u, d) \subseteq DOMAIN d.task /\ IsFiniteSet(InScope(u, d))
         /\ Matching(u, d, q) \subseteq DOMAIN d.task /\ IsFiniteSet(Matching(u, d, q))
         /\ Cardinality(Matching(u, d, q)) \in Nat
<1>1. IsFiniteSet(DOMAIN d.task) /\ DOMAIN d.task \subseteq Nat
  BY DEF Tables
<1>2. InScope(u, d) \subseteq DOMAIN d.task /\ Matching(u, d, q) \subseteq DOMAIN d.task
  BY DEF InScope, Matching
<1> QED
  BY <1>1, <1>2, FS_Subset, FS_CardinalityType

\* The tasks that an order s of n tasks puts on the page behind the first o.
Cut(s, o, limit, n) == {s[i] : i \in {k \in 1..n : o < k /\ k <= o + limit}}

IsCut(p, s, o, limit, n) ==
  p \in Seq(Nat) /\ ToSet(p) = Cut(s, o, limit, n) /\ (p = <<>> => n <= o)

\* A page is a stretch of one order of the list, and is empty only behind its end.
LEMMA PageIs ==
  ASSUME NEW d, Tables(d), NEW u, NEW q, q.offset \in Nat, NEW limit \in Nat \ {0},
         NEW p \in Pages(u, d, q, limit)
  PROVE  \E s \in Orders(Matching(u, d, q), SortOf(q), d) :
           IsCut(p, s, q.offset, limit, Cardinality(Matching(u, d, q)))
<1> DEFINE rows == Matching(u, d, q)
           n == Cardinality(rows)
           o == q.offset
           last == IF o + limit < n THEN o + limit ELSE n
<1>1. PICK s \in Orders(rows, SortOf(q), d) : p = SubSeq(s, o + 1, last)
  BY DEF Pages
<1>2. n \in Nat /\ IsFiniteSet(rows) /\ rows \subseteq Nat
  BY MatchingType
<1>3. s \in [1..n -> rows]
  BY <1>1, <1>2, OrderIs DEF Lists
<1> HIDE DEF rows, n, o
<1>4. o \in Nat
  BY DEF o
<1>5. last \in Int /\ o + 1 \in Int /\ (o + 1)..last \subseteq 1..n
      /\ \A k \in 1..n : (o < k /\ k <= o + limit) <=> k \in (o + 1)..last
  BY <1>2, <1>4
<1>6. \A i \in (o + 1)..last : s[i] \in Nat
  BY <1>2, <1>3, <1>5
<1> HIDE DEF last
<1>7. /\ p \in Seq(Nat)
      /\ Len(p) = IF o + 1 <= last THEN last - (o + 1) + 1 ELSE 0
      /\ \A i \in 1..(last - (o + 1) + 1) : p[i] = s[o + 1 + i - 1]
  BY <1>1, <1>5, <1>6, SubSeqProperties
<1>8. Len(p) = (IF o < last THEN last - o ELSE 0) /\ \A i \in 1..(last - o) : p[i] = s[o + i]
  BY <1>4, <1>5, <1>7
<1>9. ToSet(p) = Cut(s, o, limit, n)
  <2>1. DOMAIN p = 1..(last - o)
    BY <1>4, <1>5, <1>7, <1>8
  <2>2. ASSUME NEW i \in 1..(last - o)
        PROVE  p[i] \in Cut(s, o, limit, n)
    <3>1. o + i \in 1..n /\ o < o + i /\ o + i <= o + limit
      BY <1>2, <1>4, <1>5
    <3> QED
      BY <1>8, <3>1 DEF Cut
  <2>3. ASSUME NEW k \in 1..n, o < k, k <= o + limit
        PROVE  \E i \in 1..(last - o) : p[i] = s[k]
    <3>1. k \in (o + 1)..last
      BY <1>5, <2>3
    <3>2. k - o \in 1..(last - o) /\ o + (k - o) = k
      BY <1>2, <1>4, <1>5, <3>1
    <3> QED
      BY <1>8, <3>2
  <2> QED
    BY <2>1, <2>2, <2>3 DEF ToSet, Cut
<1>10. p = <<>> => n <= o
  <2>1. p = <<>> => Len(p) = 0
    OBVIOUS
  <2>2. Len(p) = 0 => ~ (o < last)
    BY <1>4, <1>5, <1>8
  <2>3. last = IF o + limit < n THEN o + limit ELSE n
    BY DEF last
  <2> QED
    BY <1>2, <1>4, <2>1, <2>2, <2>3
<1>11. IsCut(p, s, o, limit, n)
  BY <1>7, <1>9, <1>10 DEF IsCut
<1> QED
  BY <1>1, <1>11 DEF rows, n, o

\* A page belongs to the list its offset is left out of.
LEMMA SameList ==
  ASSUME NEW u, NEW d, NEW q \in Query, NEW o
  PROVE  /\ Matching(u, d, [q EXCEPT !.offset = o]) = Matching(u, d, q)
         /\ SortOf([q EXCEPT !.offset = o]) = SortOf(q)
         /\ [q EXCEPT !.offset = o].offset = o
  BY DEF Matching, SortOf, Wanted, InRange, Query

-----------------------------------------------------------------------------
(* Types of queries and of answers *)

\* What is sent differs from what the URL says in the sort alone.
LEMMA ApiQueryType ==
  ASSUME NEW u \in Query
  PROVE  /\ ApiQuery(u) \in Query /\ SortOf(ApiQuery(u)) \in Sorts
         /\ ApiQuery(u).lists = u.lists /\ ApiQuery(u).offset = u.offset
         /\ ApiQuery(u) = [u EXCEPT !.sort = ApiQuery(u).sort]
         /\ \A o : ApiQuery([u EXCEPT !.offset = o]) = [ApiQuery(u) EXCEPT !.offset = o]
BY DEF ApiQuery, AppSort, SortOf, Sorts, Query

\* A sequence over a set is one over a larger set.
LEMMA SeqFacts ==
  ASSUME NEW S, NEW T, S \subseteq T, NEW w \in Seq(S)
  PROVE  /\ w \in Seq(T) /\ DOMAIN w = 1..Len(w) /\ Len(w) \in Nat
         /\ \A i \in 1..Len(w) : w[i] \in S
         /\ w = [i \in DOMAIN w |-> w[i]]
<1>1. w \in [1..Len(w) -> S] /\ DOMAIN w = 1..Len(w) /\ Len(w) \in Nat
  OBVIOUS
<1>2. w \in Seq(T)
  BY <1>1
<1>3. w = [i \in DOMAIN w |-> w[i]]
  BY <1>1
<1> QED
  BY <1>1, <1>2, <1>3

\* A value is a sequence of one.
LEMMA OneValue ==
  ASSUME NEW S, NEW x \in S
  PROVE  <<x>> \in Seq(S)
OBVIOUS

\* The values of a parameter, with and without the blank ones.
LEMMA ListsType ==
  ASSUME NEW raw \in Seq(Seq(STRING))
  PROVE  /\ \E S : ListParam(raw) \in Seq(S)
         /\ ListValues(raw) \in Seq(STRING)
         /\ \A i \in DOMAIN ListValues(raw) : ListValues(raw)[i] # ""
<1>1. PICK flat \in Seq(STRING) : flat = Flat(raw)
  BY FlatType
<1>2. PICK trimmed : trimmed = [i \in DOMAIN flat |-> Trim(flat[i])]
  OBVIOUS
<1>3. PICK S : S = {Trim(flat[i]) : i \in DOMAIN flat}
  OBVIOUS
<1>4. trimmed \in Seq(S)
  BY <1>1, <1>2, <1>3
<1>5. PICK values : values = ListValues(raw)
  OBVIOUS
<1>6. ListParam(raw) \in Seq(S \ {""}) /\ values \in Seq(STRING \ {""})
  BY <1>1, <1>2, <1>4, <1>5, WithoutType, Zenon DEF ListParam, ListValues
<1>7. PICK T : T = STRING \ {""}
  OBVIOUS
<1>8. T \subseteq STRING /\ "" \notin T
  BY <1>7, Zenon
<1>9. values \in Seq(T)
  BY <1>6, <1>7, Zenon
<1>10. values \in Seq(STRING) /\ DOMAIN values = 1..Len(values) /\ \A i \in 1..Len(values) : values[i] \in T
  BY <1>8, <1>9, SeqFacts
<1> QED
  BY <1>5, <1>6, <1>8, <1>10, Zenon

\* An error is about a parameter, at a position or as a whole.
LEMMA ErrorsType ==
  ASSUME NEW q \in Query
  PROVE  QueryErrors(q) \in SUBSET Error
<1>1. ASSUME NEW key \in ListKey
      PROVE  LET values == ListParam(q.lists[key])
             IN (IF q.lists[key] # <<>> /\ values = <<>> THEN {<<key, Whole>>}
                 ELSE {<<key, i - 1>> : i \in {j \in DOMAIN values : values[j] \notin Enum[key]}})
                \in SUBSET Error
  <2>1. q.lists[key] \in Seq(Seq(STRING))
    BY DEF Query
  <2>2. PICK values : values = ListParam(q.lists[key])
    OBVIOUS
  <2>3. DOMAIN values = 1..Len(values) /\ Len(values) \in Nat
    <3>1. PICK S : values \in Seq(S)
      BY <2>1, <2>2, ListsType
    <3> QED
      BY <3>1
  <2>4. Whole \in Int /\ \A j \in DOMAIN values : j - 1 \in Int
    BY <2>3 DEF Whole
  <2>5. PICK err : err = IF q.lists[key] # <<>> /\ values = <<>> THEN {<<key, Whole>>}
                         ELSE {<<key, i - 1>> : i \in {j \in DOMAIN values : values[j] \notin Enum[key]}}
    OBVIOUS
  <2>6. \A e \in err : \E i \in Int : e = <<key, i>>
    BY <2>4, <2>5
  <2>7. err \in SUBSET Error
    BY <2>6 DEF Error
  <2> QED
    BY <2>2, <2>5, <2>7, Zenon
<1>2. OffsetErrors(q) \in SUBSET Error
  BY DEF OffsetErrors, Error
<1>3. FieldErrors(q) \in SUBSET Error
  BY <1>1, <1>2, Zenon DEF FieldErrors
<1>4. <<"dueTo", 0>> \in Error
  BY DEF Error
<1> QED
  BY <1>3, <1>4, Zenon DEF QueryErrors

\* A query that passes asks for a page that a list can have.
LEMMA ValidOffset ==
  ASSUME NEW q \in Query, QueryErrors(q) = {}
  PROVE  q.offset \in Nat
<1>1. FieldErrors(q) = {}
  BY Zenon DEF QueryErrors
<1>2. OffsetErrors(q) = {}
  BY <1>1, Zenon DEF FieldErrors
<1>3. ~ (q.offset < 0)
  BY <1>2 DEF OffsetErrors
<1>4. HandOffsets \subseteq Int
  BY InputsAssumption, Zenon
<1>5. q.offset \in Nat \cup HandOffsets
  BY DEF Query
<1>6. CASE q.offset \in HandOffsets
  <2>1. q.offset \in Int
    BY <1>4, <1>6
  <2> QED
    BY <1>3, <2>1
<1> QED
  BY <1>5, <1>6

\* What other people do leaves the tables as the schema wants them.
LEMMA ChangeTables ==
  ASSUME Tables(db), Change
  PROVE  Tables(db')
<1> DEFINE Row(P) == [status : TaskStatus, priority : Priority, due : Int, created : Int,
                      assignee : Developers \cup {"nobody"}, project : P]
<1>1. \/ \E t \in DOMAIN db.task : ChangeTask(t)
      \/ \E p \in DOMAIN db.owner : TransferProject(p)
      \/ \E p \in DOMAIN db.owner : DeleteProject(p)
      \/ \E p \in DOMAIN db.owner : \E t \in NewTask : CreateTask(t, p)
  BY DEF Change
<1>2. /\ db = [owner |-> db.owner, task |-> db.task]
      /\ IsFiniteSet(DOMAIN db.owner) /\ db.owner \in [DOMAIN db.owner -> User]
      /\ IsFiniteSet(DOMAIN db.task) /\ DOMAIN db.task \subseteq Nat
      /\ db.task \in [DOMAIN db.task -> Row(DOMAIN db.owner)]
  BY DEF Tables
<1>3. ASSUME NEW owner, NEW task, db' = [owner |-> owner, task |-> task],
             IsFiniteSet(DOMAIN owner), owner \in [DOMAIN owner -> User],
             IsFiniteSet(DOMAIN task), DOMAIN task \subseteq Nat, task \in [DOMAIN task -> Row(DOMAIN owner)]
      PROVE  Tables(db')
  BY <1>3 DEF Tables
<1>4. ASSUME NEW t \in DOMAIN db.task, ChangeTask(t) PROVE Tables(db')
  <2>1. db.task[t] \in Row(DOMAIN db.owner)
    BY <1>2
  <2>2. ASSUME NEW row \in Row(DOMAIN db.owner), db' = [db EXCEPT !.task = [db.task EXCEPT ![t] = row]]
        PROVE  Tables(db')
    <3> HIDE DEF Row
    <3> DEFINE task == [db.task EXCEPT ![t] = row]
    <3>1. DOMAIN task = DOMAIN db.task /\ task \in [DOMAIN db.task -> Row(DOMAIN db.owner)]
      BY <1>2
    <3>2. db' = [owner |-> db.owner, task |-> task]
      BY <1>2, <2>2
    <3> HIDE DEF task
    <3> QED
      BY <1>2, <1>3, <3>1, <3>2
  <2>3. CASE \E s \in {"DONE", "IN_REVIEW"} \ {db.task[t].status} : db' = [db EXCEPT !.task[t].status = s]
    <3>1. PICK s \in {"DONE", "IN_REVIEW"} : db' = [db EXCEPT !.task[t].status = s]
      BY <2>3
    <3>2. [db.task[t] EXCEPT !.status = s] \in Row(DOMAIN db.owner)
      BY <2>1, <3>1 DEF TaskStatus
    <3>3. db' = [db EXCEPT !.task = [db.task EXCEPT ![t] = [db.task[t] EXCEPT !.status = s]]]
      BY <1>2, <3>1
    <3> HIDE DEF Row
    <3> QED
      BY <2>2, <3>2, <3>3
  <2>4. CASE \E u \in Developers \ {db.task[t].assignee} : db' = [db EXCEPT !.task[t].assignee = u]
    <3>1. PICK u \in Developers : db' = [db EXCEPT !.task[t].assignee = u]
      BY <2>4
    <3>2. [db.task[t] EXCEPT !.assignee = u] \in Row(DOMAIN db.owner)
      BY <2>1, <3>1
    <3>3. db' = [db EXCEPT !.task = [db.task EXCEPT ![t] = [db.task[t] EXCEPT !.assignee = u]]]
      BY <1>2, <3>1
    <3> HIDE DEF Row
    <3> QED
      BY <2>2, <3>2, <3>3
  <2>5. CASE db' = [db EXCEPT !.task = [x \in DOMAIN @ \ {t} |-> @[x]]]
    <3> HIDE DEF Row
    <3> DEFINE task == [x \in DOMAIN db.task \ {t} |-> db.task[x]]
    <3>1. DOMAIN task = DOMAIN db.task \ {t} /\ task \in [DOMAIN task -> Row(DOMAIN db.owner)]
      BY <1>2
    <3>2. IsFiniteSet(DOMAIN task) /\ DOMAIN task \subseteq Nat
      BY <1>2, <3>1, FS_Subset
    <3>3. db' = [owner |-> db.owner, task |-> task]
      BY <1>2, <2>5
    <3> HIDE DEF task
    <3> QED
      BY <1>2, <1>3, <3>1, <3>2, <3>3
  <2> QED
    BY <1>4, <2>3, <2>4, <2>5 DEF ChangeTask
<1>5. ASSUME NEW p \in DOMAIN db.owner, TransferProject(p) PROVE Tables(db')
  <2>1. PICK u \in Managers : db' = [db EXCEPT !.owner[p] = u]
    BY <1>5 DEF TransferProject
  <2> HIDE DEF Row
  <2> DEFINE owner == [db.owner EXCEPT ![p] = u]
  <2>2. DOMAIN owner = DOMAIN db.owner /\ owner \in [DOMAIN db.owner -> User]
    BY <1>2, <2>1 DEF User
  <2>3. db' = [owner |-> owner, task |-> db.task]
    BY <1>2, <2>1
  <2> HIDE DEF owner
  <2> QED
    BY <1>2, <1>3, <2>2, <2>3
<1>6. ASSUME NEW p \in DOMAIN db.owner, DeleteProject(p) PROVE Tables(db')
  <2> DEFINE owner == [x \in DOMAIN db.owner \ {p} |-> db.owner[x]]
             task == [x \in {t \in DOMAIN db.task : db.task[t].project # p} |-> db.task[x]]
  <2>1. db' = [owner |-> owner, task |-> task]
    BY <1>2, <1>6 DEF DeleteProject
  <2>2. DOMAIN owner = DOMAIN db.owner \ {p} /\ owner \in [DOMAIN owner -> User]
    <3> HIDE DEF Row
    <3> QED
      BY <1>2
  <2>3. IsFiniteSet(DOMAIN owner)
    BY <1>2, <2>2, FS_Subset
  <2>4. DOMAIN task \subseteq DOMAIN db.task /\ \A x \in DOMAIN task : task[x] = db.task[x] /\ db.task[x].project # p
    OBVIOUS
  <2>5. IsFiniteSet(DOMAIN task) /\ DOMAIN task \subseteq Nat
    BY <1>2, <2>4, FS_Subset
  <2>6. ASSUME NEW x \in DOMAIN task PROVE task[x] \in Row(DOMAIN owner)
    <3>1. db.task[x] \in Row(DOMAIN db.owner) /\ db.task[x].project # p /\ task[x] = db.task[x]
      BY <1>2, <2>4
    <3> HIDE DEF task
    <3>2. db.task[x] \in Row(DOMAIN db.owner \ {p})
      BY <3>1
    <3> QED
      BY <2>2, <3>1, <3>2
  <2>7. task \in [DOMAIN task -> Row(DOMAIN owner)]
    <3>1. task = [x \in DOMAIN task |-> task[x]]
      OBVIOUS
    <3> HIDE DEF task, owner, Row
    <3> QED
      BY <2>6, <3>1
  <2> HIDE DEF task, owner, Row
  <2> QED
    BY <1>3, <2>1, <2>2, <2>3, <2>5, <2>7
<1>7. ASSUME NEW p \in DOMAIN db.owner, NEW t \in NewTask, CreateTask(t, p) PROVE Tables(db')
  <2> DEFINE task == [x \in DOMAIN db.task \cup {t} |-> IF x = t THEN Fresh(p) ELSE db.task[x]]
  <2>1. Fresh(p) \in Row(DOMAIN db.owner)
    BY InputsAssumption DEF Fresh, TaskStatus, Priority, Late
  <2> HIDE DEF Row
  <2>2. DOMAIN task = DOMAIN db.task \cup {t} /\ task \in [DOMAIN task -> Row(DOMAIN db.owner)]
    BY <1>2, <2>1
  <2>3. IsFiniteSet(DOMAIN task) /\ DOMAIN task \subseteq Nat
    BY <1>2, <2>2, FS_AddElement, InputsAssumption
  <2>4. db' = [owner |-> db.owner, task |-> task]
    BY <1>2, <1>7 DEF CreateTask
  <2> HIDE DEF task
  <2> QED
    BY <1>2, <1>3, <2>2, <2>3, <2>4
<1> QED
  BY <1>1, <1>4, <1>5, <1>6, <1>7, Zenon

-----------------------------------------------------------------------------
(* The initial states *)

\* A URL without filters is a query,
LEMMA NoFiltersType == NoFilters \in Query
<1>1. [key \in ListKey |-> <<>>] \in [ListKey -> Seq(Seq(STRING))]
  BY EmptySeq
<1> QED
  BY <1>1 DEF NoFilters, Query

\* and asking for it makes a request that has read nothing.
LEMMA RequestType ==
  ASSUME NEW u \in Query
  PROVE  Request(u) \in Pending /\ Request(u) # Free
         /\ Request(u).page = Unread /\ Request(u).total = Unread /\ Request(u).query = ApiQuery(u)
         /\ Request(u).phase = "asked"
<1>1. ApiQuery(u) \in Query
  BY ApiQueryType
<1>2. Unread \in Seq(Seq(Nat)) /\ Unread \in Seq(Nat)
  BY EmptySeq DEF Unread
<1>3. Request(u).phase = "asked" /\ Free.phase = "free"
  BY DEF Request, Free
<1> QED
  BY <1>1, <1>2, <1>3 DEF Request, Pending

\* The invariant holds of the initial states.
LEMMA InitInv ==
  ASSUME Init
  PROVE  IInv
<1>1. url \in Query /\ url.offset = 0
  BY NoFiltersType DEF Init, NoFilters
<1>2. \A i \in Slot : req[i] = IF panel = "list" /\ i = Min(Slot) THEN Request(url) ELSE Free
  BY DEF Init
<1>3. Request(url) \in Pending /\ Request(url) # Free
      /\ Request(url).page = Unread /\ Request(url).total = Unread /\ Request(url).query = ApiQuery(url)
      /\ Request(url).phase = "asked"
  BY <1>1, RequestType
<1>4. Tables(db) /\ viewer \in User
  BY SeedAssumption DEF Init
<1>5. panel \in {"list", "summary"} /\ (panel = "summary" => viewer \notin Developers)
  BY DEF Init
<1>6. req \in [Slot -> Pending \cup {Free}]
  BY <1>2, <1>3 DEF Init
<1>7. shown = Nothing /\ shown \in Screen /\ shown.current = FALSE /\ loading = (panel = "list")
  BY DEF Init, Nothing, Screen
<1>8. Types
  BY <1>1, <1>4, <1>5, <1>6, <1>7 DEF Types
<1>9. OneRequest
  BY <1>2, <1>3, <1>7 DEF OneRequest
<1>10. ScreenOK
  BY <1>7 DEF ScreenOK, Settled
<1>11. SteadyOK
  <2>1. DOMAIN pages = {}
    BY DEF Init, NoPages
  <2> QED
    BY <1>1, <1>2, <1>3, <1>7, <2>1 DEF SteadyOK
<1>12. PartsOK
  <2>1. past = {db} /\ IsFiniteSet({db})
    BY FS_Singleton DEF Init
  <2>2. DOMAIN part = PartsOf(viewer) /\ \A name \in DOMAIN part : part[name] = Unread
    BY DEF Init, AllUnread
  <2> QED
    BY <1>4, <2>1, <2>2 DEF PartsOK
<1>13. SummaryOK
  BY DEF Init, SummaryOK, Failure
<1> QED
  BY <1>8, <1>9, <1>10, <1>11, <1>12, <1>13 DEF IInv

-----------------------------------------------------------------------------
(* What a step of the other panel leaves alone *)

\* The summary does not notice the steps of the list,
LEMMA TotalsStay ==
  ASSUME PartsOK, SummaryOK, UNCHANGED <<db, viewer, panel, totals>>
  PROVE  PartsOK' /\ SummaryOK'
<1>1. db' = db /\ viewer' = viewer /\ panel' = panel /\ part' = part /\ summary' = summary /\ past' = past
  BY DEF totals
<1>2. PartsOK'
  BY <1>1 DEF PartsOK, PartRead
<1>3. SummaryOK'
  BY <1>1 DEF SummaryOK, AdminSummary, PmSummary, Read
<1> QED
  BY <1>2, <1>3

\* nor the list those of the summary.
LEMMA ListStays ==
  ASSUME Types, OneRequest, ScreenOK, SteadyOK, UNCHANGED <<db, viewer, panel, list>>
  PROVE  Types' /\ OneRequest' /\ ScreenOK' /\ SteadyOK'
<1>1. db' = db /\ viewer' = viewer /\ panel' = panel /\ url' = url /\ req' = req /\ shown' = shown
      /\ loading' = loading /\ steady' = steady /\ pages' = pages
  BY DEF list
<1>2. ApiQuery(url)' = ApiQuery(url)
  BY <1>1 DEF ApiQuery, AppSort
<1>3. Types'
  BY <1>1 DEF Types
<1>4. OneRequest'
  BY <1>1, <1>2 DEF OneRequest
<1>5. ScreenOK'
  BY <1>1, <1>2 DEF ScreenOK, Settled
<1>6. SteadyOK'
  BY <1>1, <1>2 DEF SteadyOK, PageAt, Rows
<1> QED
  BY <1>3, <1>4, <1>5, <1>6

-----------------------------------------------------------------------------
(* The user *)

\* What is sent takes the place of all that was under way.
LEMMA Sent ==
  ASSUME NEW u \in Query, Send(u)
  PROVE  /\ req' \in [Slot -> Pending \cup {Free}]
         /\ \E k : \A i \in Slot : req'[i] # Free =>
              /\ i = k /\ req'[i].query = ApiQuery(u)
              /\ req'[i].page = Unread /\ req'[i].total = Unread /\ req'[i].phase = "asked"
<1>1. PICK k : req' = [Aborted(req) EXCEPT ![k] = Request(u)]
  BY DEF Send
<1>2. Aborted(req) = [i \in Slot |-> Free]
  BY DEF Aborted
<1>3. Request(u) \in Pending /\ Request(u).query = ApiQuery(u)
      /\ Request(u).page = Unread /\ Request(u).total = Unread /\ Request(u).phase = "asked"
  BY RequestType
<1>4. req' \in [Slot -> Pending \cup {Free}]
  BY <1>1, <1>2, <1>3
<1>5. \A i \in Slot : req'[i] = IF i = k THEN Request(u) ELSE Free
  BY <1>1, <1>2
<1> QED
  BY <1>3, <1>4, <1>5

\* The rows on the screen stay, and are no longer current.
LEMMA Outdated ==
  ASSUME NEW s \in Screen
  PROVE  [s EXCEPT !.current = FALSE] \in Screen /\ ~ [s EXCEPT !.current = FALSE].current
<1>1. CASE s \in [kind : {"nothing", "failed"}, current : BOOLEAN]
  BY <1>1 DEF Screen
<1>2. CASE s \in [kind : {"invalid"}, errors : SUBSET Error, current : BOOLEAN]
  BY <1>2 DEF Screen
<1>3. CASE s \in [kind : {"page"}, page : Seq(Nat), total : Nat, offset : Nat, current : BOOLEAN]
  BY <1>3 DEF Screen
<1> QED
  BY <1>1, <1>2, <1>3 DEF Screen

\* A new request keeps the invariant when it asks for the first page or, of a list
\* nobody changes, for a page that is there.
LEMMA AskStep ==
  ASSUME IInv, NEW u \in Query,
         panel = "list", UNCHANGED <<db, viewer, panel, totals>>,
         url' = u, Send(u), loading' = TRUE, shown' = [shown EXCEPT !.current = FALSE],
         steady' => \/ u.offset = 0 /\ (pages' = NoPages \/ (steady /\ u = url /\ pages' = pages))
                    \/ /\ steady /\ u = [url EXCEPT !.offset = u.offset]
                       /\ u.offset < Cardinality(Rows) /\ pages' = pages
  PROVE  IInv'
<1>1. /\ Types /\ url \in Query /\ shown \in Screen
      /\ PartsOK /\ SummaryOK /\ SteadyOK
  BY DEF IInv, Types
<1>2. db' = db /\ viewer' = viewer /\ panel' = panel
  OBVIOUS
<1>3. PICK k : \A i \in Slot : req'[i] # Free =>
                 /\ i = k /\ req'[i].query = ApiQuery(u)
                 /\ req'[i].page = Unread /\ req'[i].total = Unread /\ req'[i].phase = "asked"
  BY Sent
<1>4. shown' \in Screen /\ ~ shown'.current
  BY <1>1, Outdated
<1>5. ApiQuery(url)' = ApiQuery(u)
  BY <1>2 DEF ApiQuery, AppSort
<1>6. Types'
  BY <1>1, <1>2, <1>4, Sent DEF Types
<1>7. OneRequest'
  BY <1>2, <1>3, <1>5 DEF OneRequest
<1>8. ScreenOK'
  BY <1>4 DEF ScreenOK, Settled
<1>9. SteadyOK'
  <2> SUFFICES ASSUME steady'
               PROVE  /\ u.offset = 0 \/ u.offset < Cardinality(Matching(viewer, db, ApiQuery(u)))
                      /\ \A o \in DOMAIN pages' :
                           /\ o \in Nat
                           /\ \E p \in Pages(viewer, db, [ApiQuery(u) EXCEPT !.offset = o], PageSize) :
                                pages'[o] = ToSet(p)
    BY <1>2, <1>3, <1>4, <1>5 DEF SteadyOK, Rows, PageAt
  <2>1. CASE u.offset = 0 /\ pages' = NoPages
    BY <2>1 DEF NoPages
  <2>2. CASE /\ steady /\ u = [url EXCEPT !.offset = u.offset]
             /\ (u.offset = 0 \/ u.offset < Cardinality(Rows)) /\ pages' = pages
    <3>1. ApiQuery(u) = [ApiQuery(url) EXCEPT !.offset = u.offset]
      <4>1. ApiQuery([url EXCEPT !.offset = u.offset]) = [ApiQuery(url) EXCEPT !.offset = u.offset]
        BY <1>1, ApiQueryType
      <4> QED
        BY <2>2, <4>1
    <3>2. ApiQuery(url) \in Query
      BY <1>1, ApiQueryType
    <3>3. Matching(viewer, db, ApiQuery(u)) = Rows
      BY <3>1, <3>2, SameList DEF Rows
    <3>4. \A o : [ApiQuery(u) EXCEPT !.offset = o] = [ApiQuery(url) EXCEPT !.offset = o]
      BY <3>1, <3>2 DEF Query
    <3> QED
      BY <1>1, <2>2, <3>3, <3>4 DEF SteadyOK, PageAt
  <2>3. CASE u.offset = 0 /\ steady /\ u = url /\ pages' = pages
    <3>1. u = [url EXCEPT !.offset = u.offset]
      BY <2>3 DEF Query
    <3> QED
      BY <2>2, <2>3, <3>1
  <2> QED
    BY <2>1, <2>2, <2>3
<1>10. PartsOK' /\ SummaryOK'
  BY <1>1, TotalsStay
<1> QED
  BY <1>6, <1>7, <1>8, <1>9, <1>10 DEF IInv

\* A new URL starts from the first page, or is a page of the list that is there.
LEMMA NavigateStep ==
  ASSUME IInv, NEW u \in Query, NEW orderly, Navigate(u, orderly),
         \/ u.offset = 0 \/ ~ orderly
         \/ steady => u = [url EXCEPT !.offset = u.offset] /\ u.offset < Cardinality(Rows)
  PROVE  IInv'
<1>1. panel = "list" /\ url' = u /\ Send(u) /\ loading' = TRUE
      /\ shown' = [shown EXCEPT !.current = FALSE]
      /\ UNCHANGED <<db, viewer, panel, totals>>
  BY DEF Navigate
<1>2. steady' => \/ u.offset = 0 /\ pages' = NoPages
                 \/ u.offset # 0 /\ steady /\ orderly /\ pages' = pages
  BY DEF Navigate
<1>3. steady' => \/ u.offset = 0 /\ (pages' = NoPages \/ (steady /\ u = url /\ pages' = pages))
                 \/ /\ steady /\ u = [url EXCEPT !.offset = u.offset]
                    /\ u.offset < Cardinality(Rows) /\ pages' = pages
  BY <1>2
<1> QED
  BY <1>1, <1>3, AskStep

\* A changed filter asks for the first page.
LEMMA FirstPageStep ==
  ASSUME IInv, NEW u \in Query, Navigate(FirstPage(u), TRUE)
  PROVE  IInv'
<1>1. FirstPage(u) \in Query /\ FirstPage(u).offset = 0
  BY DEF FirstPage, Query
<1> QED
  BY <1>1, NavigateStep

\* One parameter for each value is a list of lists.
LEMMA RepeatedType ==
  ASSUME NEW values \in Seq(STRING)
  PROVE  Repeated(values) \in Seq(Seq(STRING))
<1>1. DOMAIN values = 1..Len(values) /\ Len(values) \in Nat /\ \A i \in 1..Len(values) : values[i] \in STRING
  OBVIOUS
<1>2. \A i \in 1..Len(values) : <<values[i]>> \in Seq(STRING)
  BY <1>1
<1>3. [i \in 1..Len(values) |-> <<values[i]>>] \in Seq(Seq(STRING))
  BY <1>1, <1>2
<1> QED
  BY <1>1, <1>3 DEF Repeated

\* A filter value is added or taken away.
LEMMA ToggleStep ==
  ASSUME IInv, NEW key \in ListKey, NEW v \in Chips[key], Toggle(key, v)
  PROVE  IInv'
<1>1. url \in Query /\ v \in STRING
  BY InputsAssumption DEF IInv, Types
<1>2. PICK values \in Seq(STRING) : values = ListValues(url.lists[key])
  <2>1. url.lists[key] \in Seq(Seq(STRING))
    BY <1>1 DEF Query
  <2> QED
    BY <2>1, ListsType
<1>3. Without(values, v) \in Seq(STRING)
  <2>1. Without(values, v) \in Seq(STRING \ {v})
    BY <1>2, WithoutType
  <2> QED
    BY <2>1, SeqFacts, Zenon
<1>4. PICK next \in Seq(STRING) :
        next = IF v \in ToSet(values) THEN Without(values, v) ELSE Append(values, v)
  <2>1. Append(values, v) \in Seq(STRING)
    BY <1>1, <1>2
  <2> QED
    BY <1>3, <2>1, Zenon
<1>5. Repeated(next) \in Seq(Seq(STRING))
  BY <1>4, RepeatedType
<1>6. [url EXCEPT !.lists[key] = Repeated(next)] \in Query
  BY <1>1, <1>5 DEF Query
<1>7. Navigate(FirstPage([url EXCEPT !.lists[key] = Repeated(next)]), TRUE)
  BY <1>2, <1>4 DEF Toggle
<1> QED
  BY <1>6, <1>7, FirstPageStep

\* A date is set or cleared.
LEMMA SetDateStep ==
  ASSUME IInv, NEW end \in {"from", "to"}, NEW day \in Days \cup {NoDay}, SetDate(end, day)
  PROVE  IInv'
<1> DEFINE u == IF end = "from" THEN [url EXCEPT !.from = day] ELSE [url EXCEPT !.to = day]
<1>1. u \in Query
  BY DEF IInv, Types, Query
<1>2. Navigate(FirstPage(u), TRUE)
  BY DEF SetDate
<1> HIDE DEF u
<1> QED
  BY <1>1, <1>2, FirstPageStep

\* Another sort order is chosen.
LEMMA SetSortStep ==
  ASSUME IInv, NEW sort \in Sorts, SetSort(sort)
  PROVE  IInv'
<1> DEFINE u == [url EXCEPT !.sort = IF sort = AppSort THEN "default" ELSE sort]
<1>1. u \in Query
  BY DEF IInv, Types, Query
<1>2. Navigate(FirstPage(u), TRUE)
  BY DEF SetSort
<1> HIDE DEF u
<1> QED
  BY <1>1, <1>2, FirstPageStep

\* All filters are cleared.
LEMMA ClearFiltersStep ==
  ASSUME IInv, ClearFilters
  PROVE  IInv'
<1>1. NoFilters.offset = 0
  BY DEF NoFilters
<1> QED
  BY <1>1, NoFiltersType, NavigateStep DEF ClearFilters

\* A link or the address bar skips pages, so nothing is claimed of those seen.
LEMMA EditUrlStep ==
  ASSUME IInv, EditUrl
  PROVE  IInv'
<1>1. PICK raw \in HandLists, o \in HandOffsets :
        Navigate([url EXCEPT !.lists["status"] = raw, !.offset = o], FALSE)
  BY DEF EditUrl
<1>2. raw \in Seq(Seq(STRING))
  BY InputsAssumption
<1>3. [url EXCEPT !.lists["status"] = raw, !.offset = o] \in Query
  BY <1>2 DEF IInv, Types, Query, ListKey
<1> QED
  BY <1>1, <1>3, NavigateStep

\* The pager only offers pages of the list that is on the screen.
LEMMA PagerStep ==
  ASSUME IInv, NextPage \/ PreviousPage
  PROVE  IInv'
<1>1. url \in Query /\ shown \in Screen /\ shown.kind = "page"
  BY DEF IInv, Types, NextPage, PreviousPage, HasPager
<1>2. shown.offset \in Nat /\ shown.total \in Nat /\ PageSize \in Nat
  BY <1>1, SizesAssumption DEF Screen
<1>3. PICK o \in Nat : TurnPage(o) /\ (o < shown.total \/ o <= shown.offset)
  <2>1. CASE NextPage
    BY <1>2, <2>1 DEF NextPage
  <2>2. CASE PreviousPage
    <3>1. BackFrom(shown.offset) \in Nat /\ BackFrom(shown.offset) <= shown.offset
      BY <1>2 DEF BackFrom
    <3> QED
      BY <2>2, <3>1 DEF PreviousPage
  <2> QED
    BY <2>1, <2>2
<1> DEFINE u == [url EXCEPT !.offset = o]
<1>4. u \in Query /\ u.offset = o /\ u = [url EXCEPT !.offset = u.offset]
  BY <1>1, <1>3 DEF Query
<1>5. Navigate(u, shown.current)
  BY <1>3 DEF TurnPage
<1>6. steady /\ shown.current => o = 0 \/ o < Cardinality(Rows)
  <2> SUFFICES ASSUME steady, shown.current
               PROVE  o = 0 \/ o < Cardinality(Rows)
    OBVIOUS
  <2>1. shown.offset = url.offset
    BY <1>1 DEF IInv, ScreenOK
  <2>2. shown.total = Cardinality(Rows) /\ (url.offset = 0 \/ url.offset < Cardinality(Rows))
    BY <1>1 DEF IInv, SteadyOK
  <2> QED
    BY <1>2, <1>3, <2>1, <2>2
<1> HIDE DEF u
<1> QED
  BY <1>4, <1>5, <1>6, NavigateStep

\* A retry asks for the same page again.
LEMMA RetryStep ==
  ASSUME IInv, Retry
  PROVE  IInv'
<1>1. url \in Query /\ url = [url EXCEPT !.offset = url.offset]
  BY DEF IInv, Types, Query
<1>2. panel = "list" /\ Send(url) /\ loading' = TRUE /\ shown' = [shown EXCEPT !.current = FALSE]
      /\ url' = url /\ steady' = steady /\ pages' = pages /\ UNCHANGED <<db, viewer, panel, totals>>
  BY DEF Retry
<1>3. steady => url.offset = 0 \/ url.offset < Cardinality(Rows)
  BY DEF IInv, SteadyOK
<1>4. steady' => \/ url.offset = 0 /\ (pages' = NoPages \/ (steady /\ url = url /\ pages' = pages))
                 \/ /\ steady /\ url = [url EXCEPT !.offset = url.offset]
                    /\ url.offset < Cardinality(Rows) /\ pages' = pages
  BY <1>1, <1>2, <1>3
<1> QED
  BY <1>1, <1>2, <1>4, AskStep

\* Whatever the user does keeps the invariant.
LEMMA UserStep ==
  ASSUME IInv, UserActs
  PROVE  IInv'
BY ToggleStep, SetDateStep, SetSortStep, ClearFiltersStep, EditUrlStep, PagerStep, RetryStep
   DEF UserActs

-----------------------------------------------------------------------------
(* The server and its answers *)

\* What the invariant says of a request under way.
LEMMA UnderWay ==
  ASSUME IInv, NEW i \in Slot, req[i] # Free
  PROVE  /\ req[i] \in Pending /\ panel = "list" /\ loading
         /\ req[i].query = ApiQuery(url) /\ Current(i)
         /\ url \in Query /\ ApiQuery(url) \in Query
         /\ req[i].phase = "reading" => url.offset \in Nat
         /\ ApiQuery(url).offset = url.offset
         /\ PageAt(url.offset) = Pages(viewer, db, ApiQuery(url), PageSize)
         /\ \A j \in Slot : req[j] # Free => i = j
<1>1. url \in Query /\ req[i] \in Pending
  BY DEF IInv, Types
<1>2. panel = "list" /\ loading /\ req[i].query = ApiQuery(url)
      /\ (req[i].phase = "reading" => req[i].query.offset \in Nat)
      /\ \A j \in Slot : req[j] # Free => i = j
  BY DEF IInv, OneRequest
<1>3. ApiQuery(url) \in Query /\ ApiQuery(url).offset = url.offset
  BY <1>1, ApiQueryType
<1>4. [ApiQuery(url) EXCEPT !.offset = url.offset] = ApiQuery(url)
  BY <1>3 DEF Query
<1> QED
  BY <1>1, <1>2, <1>3, <1>4 DEF Current, PageAt, Query

\* The server works on a request whose query stays, and reads what is true.
LEMMA ServerStep ==
  ASSUME IInv, NEW i \in Slot, req[i] # Free, Server, NEW r \in Pending,
         req' = [req EXCEPT ![i] = r], r.query = req[i].query,
         r.phase = "reading" => r.query.offset \in Nat,
         steady => /\ r.page # Unread => r.page[1] \in PageAt(url.offset)
                   /\ r.total # Unread => r.total[1] = Cardinality(Rows)
  PROVE  IInv'
<1>1. db' = db /\ viewer' = viewer /\ panel' = panel /\ url' = url /\ shown' = shown
      /\ loading' = loading /\ steady' = steady /\ pages' = pages /\ UNCHANGED totals
  BY DEF Server
<1>2. ApiQuery(url)' = ApiQuery(url)
  BY <1>1 DEF ApiQuery, AppSort
<1>3. panel = "list" /\ loading /\ req[i].query = ApiQuery(url) /\ \A j \in Slot : req[j] # Free => i = j
  BY UnderWay
<1>4. req \in [Slot -> Pending \cup {Free}]
  BY DEF IInv, Types
<1>5. \A j \in Slot : req'[j] = IF j = i THEN r ELSE Free
  BY <1>3, <1>4
<1>6. Types'
  <2>1. req' \in [Slot -> Pending \cup {Free}]
    BY <1>4
  <2> QED
    BY <1>1, <2>1 DEF IInv, Types
<1>7. OneRequest'
  BY <1>1, <1>2, <1>3, <1>5 DEF OneRequest
<1>8. ScreenOK'
  BY <1>1, <1>2 DEF IInv, ScreenOK, Settled
<1>9. SteadyOK'
  BY <1>1, <1>2, <1>5 DEF IInv, SteadyOK, PageAt, Rows
<1>10. PartsOK' /\ SummaryOK'
  BY <1>1, TotalsStay DEF IInv
<1> QED
  BY <1>6, <1>7, <1>8, <1>9, <1>10 DEF IInv

\* A verdict on the parameters reads nothing.
LEMMA ValidateStep ==
  ASSUME IInv, NEW i \in Slot, Validate(i)
  PROVE  IInv'
<1>1. req[i].phase = "asked" /\ req[i] # Free
  BY DEF Validate, Free
<1>2. req[i] \in Pending
  BY <1>1, UnderWay
<1> DEFINE r == [req[i] EXCEPT !.phase =
                   IF QueryErrors(req[i].query) = {} THEN "reading" ELSE "rejected"]
<1>3. r \in Pending /\ r.query = req[i].query /\ r.page = req[i].page /\ r.total = req[i].total
  BY <1>2 DEF Pending
<1>4. req' = [req EXCEPT ![i] = r] /\ Server
  BY DEF Validate
<1>5. steady => /\ r.page # Unread => r.page[1] \in PageAt(url.offset)
                /\ r.total # Unread => r.total[1] = Cardinality(Rows)
  <2> HIDE DEF r
  <2> QED
    BY <1>1, <1>3 DEF IInv, SteadyOK
<1>6. r.phase = "reading" => r.query.offset \in Nat
  <2>1. r.phase = "reading" => QueryErrors(req[i].query) = {}
    BY <1>2 DEF Pending
  <2>2. r.query \in Query
    BY <1>3 DEF Pending
  <2> HIDE DEF r
  <2> QED
    BY <1>3, <2>1, <2>2, ValidOffset
<1> HIDE DEF r
<1> QED
  BY <1>1, <1>3, <1>4, <1>5, <1>6, ServerStep

\* The page is read from the tables of now.
LEMMA ReadPageStep ==
  ASSUME IInv, NEW i \in Slot, ReadPage(i)
  PROVE  IInv'
<1>1. req[i].phase = "reading" /\ req[i] # Free
  BY DEF ReadPage, Free
<1>2. req[i] \in Pending /\ req[i].query = ApiQuery(url)
      /\ ApiQuery(url) \in Query /\ ApiQuery(url).offset \in Nat
      /\ PageAt(url.offset) = Pages(viewer, db, ApiQuery(url), PageSize)
  BY <1>1, UnderWay
<1>3. PICK page \in Pages(viewer, db, req[i].query, PageSize) : req' = [req EXCEPT ![i].page = <<page>>]
  BY DEF ReadPage
<1>4. page \in PageAt(url.offset)
  BY <1>2, <1>3
<1>5. page \in Seq(Nat)
  <2>1. Tables(db) /\ PageSize \in Nat \ {0}
    BY SizesAssumption DEF IInv, Types
  <2>2. page \in Pages(viewer, db, ApiQuery(url), PageSize)
    BY <1>2, <1>3
  <2> QED
    BY <1>2, <2>1, <2>2, PageIs DEF IsCut
<1> DEFINE r == [req[i] EXCEPT !.page = <<page>>]
<1>6. r \in Pending /\ r.query = req[i].query /\ r.page = <<page>> /\ r.total = req[i].total
      /\ r.query.offset \in Nat
  <2>1. PICK read \in Seq(Seq(Nat)) : read = <<page>>
    BY <1>5, OneValue
  <2> QED
    BY <1>2, <2>1 DEF Pending
<1>7. req' = [req EXCEPT ![i] = r] /\ Server
  BY <1>3 DEF ReadPage
<1>8. steady => /\ r.page # Unread => r.page[1] \in PageAt(url.offset)
                /\ r.total # Unread => r.total[1] = Cardinality(Rows)
  <2> HIDE DEF r
  <2> QED
    BY <1>1, <1>4, <1>6 DEF IInv, SteadyOK
<1> HIDE DEF r
<1> QED
  BY <1>1, <1>6, <1>7, <1>8, ServerStep

\* So is the total, at a moment of its own.
LEMMA ReadTotalStep ==
  ASSUME IInv, NEW i \in Slot, ReadTotal(i)
  PROVE  IInv'
<1>1. req[i].phase = "reading" /\ req[i] # Free
  BY DEF ReadTotal, Free
<1>2. req[i] \in Pending /\ req[i].query = ApiQuery(url) /\ req[i].query.offset \in Nat
  BY <1>1, UnderWay
<1>3. PICK total : total = Cardinality(Rows) /\ total = Cardinality(Matching(viewer, db, req[i].query))
  BY <1>2 DEF Rows
<1>4. total \in Nat
  BY <1>3, MatchingType DEF IInv, Types
<1> DEFINE r == [req[i] EXCEPT !.total = <<total>>]
<1>5. r \in Pending /\ r.query = req[i].query /\ r.page = req[i].page /\ r.total = <<total>>
      /\ r.query.offset \in Nat
  <2>1. PICK read \in Seq(Nat) : read = <<total>>
    BY <1>4, OneValue
  <2> QED
    BY <1>2, <2>1 DEF Pending
<1>6. req' = [req EXCEPT ![i] = r] /\ Server
  BY <1>3 DEF ReadTotal
<1>7. steady => /\ r.page # Unread => r.page[1] \in PageAt(url.offset)
                /\ r.total # Unread => r.total[1] = Cardinality(Rows)
  <2> HIDE DEF r
  <2> QED
    BY <1>1, <1>3, <1>5 DEF IInv, SteadyOK
<1> HIDE DEF r
<1> QED
  BY <1>1, <1>5, <1>6, <1>7, ServerStep

\* An answer is the current one, and true of a list nobody has changed.
LEMMA ShowStep ==
  ASSUME IInv, NEW i \in Slot, req[i] # Free, NEW answer \in Screen, Show(i, answer), answer.current,
         answer.kind = "page" => answer.offset = url.offset,
         answer.kind = "invalid" => answer.errors = QueryErrors(ApiQuery(url)),
         steady /\ answer.kind = "page" =>
           answer.page \in PageAt(url.offset) /\ answer.total = Cardinality(Rows),
         steady => \A o \in DOMAIN pages' : o \in Nat /\ \E p \in PageAt(o) : pages'[o] = ToSet(p)
  PROVE  IInv'
<1>1. db' = db /\ viewer' = viewer /\ panel' = panel /\ url' = url /\ steady' = steady
      /\ req' = [req EXCEPT ![i] = Free] /\ shown' = answer /\ UNCHANGED totals
  BY DEF Show
<1>2. ApiQuery(url)' = ApiQuery(url)
  BY <1>1 DEF ApiQuery, AppSort
<1>3. req \in [Slot -> Pending \cup {Free}] /\ \A j \in Slot : req[j] # Free => i = j
  BY UnderWay DEF IInv, Types
<1>4. \A j \in Slot : req'[j] = Free
  BY <1>1, <1>3
<1>5. Types'
  <2>1. req' \in [Slot -> Pending \cup {Free}]
    BY <1>1, <1>3
  <2> QED
    BY <1>1, <2>1 DEF IInv, Types
<1>6. OneRequest'
  BY <1>4 DEF OneRequest
<1>7. ScreenOK'
  BY <1>1, <1>2 DEF ScreenOK
<1>8. SteadyOK'
  BY <1>1, <1>2, <1>4 DEF IInv, SteadyOK, PageAt, Rows
<1>9. PartsOK' /\ SummaryOK'
  BY <1>1, TotalsStay DEF IInv
<1> QED
  BY <1>5, <1>6, <1>7, <1>8, <1>9 DEF IInv

\* The answer is a page,
LEMMA ShowPageStep ==
  ASSUME IInv, NEW i \in Slot, ShowPage(i)
  PROVE  IInv'
<1>1. req[i].phase = "reading" /\ req[i].page # Unread /\ req[i].total # Unread /\ req[i] # Free
  BY DEF ShowPage, Free
<1>2. req[i] \in Pending /\ req[i].query = ApiQuery(url) /\ Current(i)
      /\ ApiQuery(url).offset = url.offset /\ url.offset \in Nat
  BY <1>1, UnderWay
<1>3. PICK page, total : page = req[i].page[1] /\ total = req[i].total[1]
  OBVIOUS
<1>4. page \in Seq(Nat) /\ total \in Nat
  <2>1. req[i].page \in Seq(Seq(Nat)) /\ req[i].page # <<>> /\ req[i].total \in Seq(Nat) /\ req[i].total # <<>>
    BY <1>1, <1>2 DEF Pending, Unread
  <2> QED
    BY <1>3, <2>1
<1>5. steady => page \in PageAt(url.offset) /\ total = Cardinality(Rows)
  BY <1>1, <1>3 DEF IInv, SteadyOK
<1> DEFINE answer == [kind |-> "page", page |-> page, total |-> total, offset |-> url.offset,
                      current |-> Current(i)]
<1>6. Current(i) = TRUE
  BY <1>2 DEF Current
<1>7. /\ answer \in Screen /\ answer.kind = "page" /\ answer.current /\ answer.offset = url.offset
      /\ answer.page = page /\ answer.total = total
  BY <1>2, <1>4, <1>6 DEF Screen
<1>8. Show(i, answer)
  BY <1>2, <1>3 DEF ShowPage
<1>9. steady => pages' = [o \in DOMAIN pages \cup {url.offset} |-> IF o = url.offset THEN ToSet(page) ELSE pages[o]]
  BY <1>2, <1>3 DEF ShowPage
<1>10. steady => \A o \in DOMAIN pages' : o \in Nat /\ \E p \in PageAt(o) : pages'[o] = ToSet(p)
  BY <1>2, <1>5, <1>9 DEF IInv, SteadyOK
<1> HIDE DEF answer
<1> QED
  BY <1>1, <1>5, <1>7, <1>8, <1>10, ShowStep

\* what is wrong with the parameters,
LEMMA ShowErrorsStep ==
  ASSUME IInv, NEW i \in Slot, ShowErrors(i)
  PROVE  IInv'
<1>1. req[i].phase = "rejected" /\ req[i] # Free
  BY DEF ShowErrors, Free
<1>2. req[i].query = ApiQuery(url) /\ Current(i) /\ ApiQuery(url) \in Query
  BY <1>1, UnderWay
<1>3. QueryErrors(ApiQuery(url)) \in SUBSET Error
  BY <1>2, ErrorsType
<1> DEFINE answer == [kind |-> "invalid", errors |-> QueryErrors(ApiQuery(url)), current |-> Current(i)]
<1>4. Current(i) = TRUE
  BY <1>2 DEF Current
<1>5. /\ answer \in Screen /\ answer.kind = "invalid" /\ answer.current
      /\ answer.errors = QueryErrors(ApiQuery(url))
  BY <1>3, <1>4 DEF Screen
<1>6. Show(i, answer) /\ pages' = pages
  BY <1>2 DEF ShowErrors
<1>7. steady => \A o \in DOMAIN pages' : o \in Nat /\ \E p \in PageAt(o) : pages'[o] = ToSet(p)
  BY <1>6 DEF IInv, SteadyOK
<1> HIDE DEF answer
<1> QED
  BY <1>1, <1>5, <1>6, <1>7, ShowStep

\* or a failure.
LEMMA ShowFailureStep ==
  ASSUME IInv, NEW i \in Slot, ShowFailure(i)
  PROVE  IInv'
<1>1. req[i] # Free
  BY DEF ShowFailure
<1>2. Current(i) = TRUE
  BY <1>1, UnderWay DEF Current
<1> DEFINE answer == [kind |-> "failed", current |-> Current(i)]
<1>3. answer \in Screen /\ answer.kind = "failed" /\ answer.current
  BY <1>2 DEF Screen
<1>4. Show(i, answer) /\ pages' = pages
  BY DEF ShowFailure
<1>5. steady => \A o \in DOMAIN pages' : o \in Nat /\ \E p \in PageAt(o) : pages'[o] = ToSet(p)
  BY <1>4 DEF IInv, SteadyOK
<1> HIDE DEF answer
<1> QED
  BY <1>1, <1>3, <1>4, <1>5, ShowStep

\* Whatever the server does keeps the invariant.
LEMMA HandleStep ==
  ASSUME IInv, NEW i \in Slot, Handle(i)
  PROVE  IInv'
BY ValidateStep, ReadPageStep, ReadTotalStep, ShowPageStep, ShowErrorsStep, ShowFailureStep DEF Handle

-----------------------------------------------------------------------------
(* The summary, and other people *)

\* A part is read from the tables of now, which are among those of the request.
LEMMA ReadPartStep ==
  ASSUME IInv, NEW name \in DOMAIN part, ReadPart(name)
  PROVE  IInv'
<1>1. PICK rows :
        /\ rows \in CASE name = "projects" -> {OwnProjects(viewer, db)}
                      [] name = "projectCount" -> {Cardinality(DOMAIN db.owner)}
                      [] name = "perProjectStatus" -> {PerProjectStatus(viewer, db)}
                      [] name = "tasksByStatus" -> {TasksByStatus(viewer, db)}
                      [] name = "openByPriority" -> {OpenByPriority(viewer, db)}
                      [] name = "upcoming" -> Upcoming(viewer, db, Now, Week, UpcomingLimit)
        /\ part' = [part EXCEPT ![name] = <<rows>>]
  BY DEF ReadPart
<1>2. part[name] = Unread /\ UNCHANGED <<db, viewer, panel, list>> /\ summary = Nothing
      /\ summary' = summary /\ past' = past
  BY DEF ReadPart
<1>3. Types' /\ OneRequest' /\ ScreenOK' /\ SteadyOK'
  BY <1>2, ListStays DEF IInv
<1>4. PartsOK'
  <2>1. /\ IsFiniteSet(past) /\ db \in past /\ \A d \in past : Tables(d)
        /\ DOMAIN part = PartsOf(viewer)
        /\ \A n \in DOMAIN part : part[n] # Unread => PartRead(n)
    BY DEF IInv, PartsOK
  <2>2. DOMAIN part' = DOMAIN part /\ part'[name] = <<rows>>
        /\ \A n \in DOMAIN part : n # name => part'[n] = part[n]
    BY <1>1
  <2>3. \A n \in DOMAIN part : n # name /\ part[n] # Unread => PartRead(n)'
    BY <1>2, <2>1, <2>2 DEF PartRead
  <2>4. PartRead(name)'
    <3> SUFFICES ASSUME name \in {"projects", "perProjectStatus", "tasksByStatus", "openByPriority"}
                 PROVE  part'[name] =
                          <<CASE name = "projects" -> OwnProjects(viewer, db)
                              [] name = "perProjectStatus" -> PerProjectStatus(viewer, db)
                              [] name = "tasksByStatus" -> TasksByStatus(viewer, db)
                              [] name = "openByPriority" -> OpenByPriority(viewer, db)>>
      BY <1>2, <2>1 DEF PartRead
    <3> QED
      BY <1>1, <2>2
  <2> QED
    BY <1>2, <2>1, <2>2, <2>3, <2>4 DEF PartsOK
<1>5. SummaryOK'
  BY <1>2 DEF SummaryOK, Nothing
<1> QED
  BY <1>3, <1>4, <1>5 DEF IInv

\* The summary is shown once every part is there.
LEMMA ShowSummaryStep ==
  ASSUME IInv, ShowSummary
  PROVE  IInv'
<1>1. panel = "summary" /\ (\A name \in DOMAIN part : part[name] # Unread)
      /\ summary' = (IF viewer \in Admins THEN AdminSummary ELSE PmSummary)
      /\ UNCHANGED <<db, viewer, panel, list>> /\ part' = part /\ past' = past
  BY DEF ShowSummary
<1>2. Types' /\ OneRequest' /\ ScreenOK' /\ SteadyOK'
  BY <1>1, ListStays DEF IInv
<1>3. PartsOK'
  BY <1>1 DEF IInv, PartsOK, PartRead
<1>4. SummaryOK'
  BY <1>1 DEF SummaryOK, AdminSummary, PmSummary, Read
<1> QED
  BY <1>2, <1>3, <1>4 DEF IInv

\* A failure says nothing of the tables.
LEMMA FailSummaryStep ==
  ASSUME IInv, FailSummary
  PROVE  IInv'
<1>1. summary' = Failure /\ UNCHANGED <<db, viewer, panel, list>> /\ part' = part /\ past' = past
  BY DEF FailSummary
<1>2. Types' /\ OneRequest' /\ ScreenOK' /\ SteadyOK'
  BY <1>1, ListStays DEF IInv
<1>3. PartsOK'
  BY <1>1 DEF IInv, PartsOK, PartRead
<1>4. SummaryOK'
  BY <1>1 DEF SummaryOK, Failure
<1> QED
  BY <1>2, <1>3, <1>4 DEF IInv

\* A retry starts from the tables of now, and has read nothing.
LEMMA RetrySummaryStep ==
  ASSUME IInv, RetrySummary
  PROVE  IInv'
<1>1. summary' = Nothing /\ UNCHANGED <<db, viewer, panel, list>>
      /\ part' = AllUnread /\ past' = {db} /\ db' = db /\ viewer' = viewer
  BY DEF RetrySummary
<1>2. Types' /\ OneRequest' /\ ScreenOK' /\ SteadyOK'
  BY <1>1, ListStays DEF IInv
<1>3. PartsOK'
  <2>1. IsFiniteSet(past') /\ db' \in past' /\ \A d \in past' : Tables(d)
    BY <1>1, FS_Singleton DEF IInv, Types
  <2>2. DOMAIN part' = PartsOf(viewer)' /\ \A name \in DOMAIN part' : part'[name] = Unread
    BY <1>1 DEF AllUnread
  <2> QED
    BY <2>1, <2>2 DEF PartsOK, Unread
<1>4. SummaryOK'
  BY <1>1 DEF SummaryOK, Nothing
<1> QED
  BY <1>2, <1>3, <1>4 DEF IInv

\* Others change the tables: what was read stays what it was at its moment.
LEMMA ChangeStep ==
  ASSUME IInv, Change
  PROVE  IInv'
<1>1. viewer' = viewer /\ panel' = panel /\ url' = url /\ req' = req /\ shown' = shown
      /\ loading' = loading /\ part' = part /\ summary' = summary
      /\ steady' = FALSE /\ past' = past \cup {db'}
  BY DEF Change
<1>2. ApiQuery(url)' = ApiQuery(url)
  BY <1>1 DEF ApiQuery, AppSort
<1>3. Tables(db')
  BY ChangeTables DEF IInv, Types
<1>4. Types'
  BY <1>1, <1>3 DEF IInv, Types
<1>5. OneRequest'
  BY <1>1, <1>2 DEF IInv, OneRequest
<1>6. ScreenOK'
  BY <1>1, <1>2 DEF IInv, ScreenOK, Settled
<1>7. SteadyOK'
  BY <1>1 DEF SteadyOK
<1>8. PartsOK'
  <2>1. IsFiniteSet(past')
    BY <1>1, FS_AddElement DEF IInv, PartsOK
  <2>2. \A name : PartRead(name) => PartRead(name)'
    BY <1>1 DEF PartRead
  <2> QED
    BY <1>1, <1>3, <2>1, <2>2 DEF IInv, PartsOK
<1>9. SummaryOK'
  BY <1>1 DEF IInv, SummaryOK, AdminSummary, PmSummary, Read
<1> QED
  BY <1>4, <1>5, <1>6, <1>7, <1>8, <1>9 DEF IInv

\* No step leaves the invariant.
LEMMA NextInv ==
  ASSUME IInv, [Next]_vars
  PROVE  IInv'
<1>1. CASE UNCHANGED vars
  <2>1. UNCHANGED <<db, viewer, panel, list, totals>>
    BY <1>1 DEF vars
  <2> QED
    BY <2>1, ListStays, TotalsStay DEF IInv
<1>2. CASE Next
  BY <1>2, UserStep, HandleStep, ReadPartStep, ShowSummaryStep, FailSummaryStep,
     RetrySummaryStep, ChangeStep DEF Next
<1> QED
  BY <1>1, <1>2

-----------------------------------------------------------------------------
(* What the summaries count *)

\* The rows of each key that rows have, and those of each key of K.
Grouped(rows, key) == [k \in {key[t] : t \in rows} |-> Cardinality({t \in rows : key[t] = k})]

Counted(counts, K, rows, key) ==
  DOMAIN counts = K /\ \A k \in K : counts[k] = Cardinality({t \in rows : key[t] = k})

\* A group nobody is in counts nothing.
LEMMA CountsAre ==
  ASSUME NEW K, NEW rows, NEW key
  PROVE  Counted(CountsBy(K, Grouped(rows, key)), K, rows, key)
<1>1. PICK groups, counts : groups = Grouped(rows, key) /\ counts = CountsBy(K, groups)
  OBVIOUS
<1>2. counts = [k \in K |-> IF k \in DOMAIN groups THEN groups[k] ELSE 0]
  BY <1>1 DEF CountsBy
<1>3. DOMAIN groups = {key[t] : t \in rows}
      /\ \A k \in DOMAIN groups : groups[k] = Cardinality({t \in rows : key[t] = k})
  BY <1>1 DEF Grouped
<1>4. ASSUME NEW k \in K
      PROVE  counts[k] = Cardinality({t \in rows : key[t] = k})
  <2>1. CASE k \in DOMAIN groups
    BY <1>2, <1>3, <2>1
  <2>2. CASE k \notin DOMAIN groups
    <3>1. {t \in rows : key[t] = k} = {}
      BY <1>3, <2>2
    <3> QED
      BY <1>2, <2>2, <3>1, FS_EmptySet
  <2> QED
    BY <2>1, <2>2
<1> QED
  BY <1>1, <1>2, <1>4 DEF Counted

\* The keys of the groups are finitely many.
LEMMA FiniteKeys == IsFiniteSet(TaskStatus) /\ IsFiniteSet(Priority)
<1>1. \A x : IsFiniteSet({x})
  BY FS_Singleton
<1>2. IsFiniteSet({"TODO"} \cup {"IN_PROGRESS"}) /\ IsFiniteSet({"IN_REVIEW"} \cup {"DONE"})
      /\ IsFiniteSet({"LOW"} \cup {"MEDIUM"}) /\ IsFiniteSet({"HIGH"} \cup {"URGENT"})
  BY <1>1, FS_Union, Zenon
<1>3. IsFiniteSet(({"TODO"} \cup {"IN_PROGRESS"}) \cup ({"IN_REVIEW"} \cup {"DONE"}))
      /\ IsFiniteSet(({"LOW"} \cup {"MEDIUM"}) \cup ({"HIGH"} \cup {"URGENT"}))
  BY <1>2, FS_Union, Zenon
<1>4. IsFiniteSet((({"TODO"} \cup {"IN_PROGRESS"}) \cup ({"IN_REVIEW"} \cup {"DONE"})) \cup {"OVERDUE"})
  BY <1>1, <1>3, FS_Union, Zenon
<1>5. /\ TaskStatus = (({"TODO"} \cup {"IN_PROGRESS"}) \cup ({"IN_REVIEW"} \cup {"DONE"})) \cup {"OVERDUE"}
      /\ Priority = ({"LOW"} \cup {"MEDIUM"}) \cup ({"HIGH"} \cup {"URGENT"})
  BY DEF TaskStatus, Priority
<1> QED
  BY <1>3, <1>4, <1>5, Zenon

\* A row has a known status, a known priority and an existing project.
LEMMA RowType ==
  ASSUME NEW d, Tables(d), NEW t \in DOMAIN d.task
  PROVE  /\ d.task[t].status \in TaskStatus /\ d.task[t].priority \in Priority
         /\ d.task[t].project \in DOMAIN d.owner
BY DEF Tables

\* adminSummary: the tasks of each status, and all of them.
LEMMA ByStatusIs ==
  ASSUME NEW d, Tables(d), NEW u, NEW byStatus, byStatus = CountsBy(TaskStatus, TasksByStatus(u, d))
  PROVE  /\ Total(byStatus) = Cardinality({t \in InScope(u, d) : d.task[t].status \in TaskStatus})
         /\ byStatus["OVERDUE"] = Cardinality({t \in InScope(u, d) : d.task[t].status \in {"OVERDUE"}})
<1>1. PICK rows : rows = InScope(u, d)
  OBVIOUS
<1>2. IsFiniteSet(rows)
  BY <1>1, MatchingType
<1>3. PICK key : key = [t \in rows |-> d.task[t].status]
  OBVIOUS
<1>4. \A t \in rows : key[t] = d.task[t].status
  BY <1>3
<1>5. TasksByStatus(u, d) = Grouped(rows, key)
  <2>1. TasksByStatus(u, d) = [k \in {d.task[t].status : t \in rows} |->
                                 Cardinality({t \in rows : d.task[t].status = k})]
    BY <1>1 DEF TasksByStatus, GroupBy
  <2>2. {d.task[t].status : t \in rows} = {key[t] : t \in rows}
    BY <1>4
  <2>3. \A k : {t \in rows : d.task[t].status = k} = {t \in rows : key[t] = k}
    BY <1>4
  <2> QED
    BY <2>1, <2>2, <2>3 DEF Grouped
<1>6. DOMAIN byStatus = TaskStatus
      /\ \A k \in TaskStatus : byStatus[k] = Cardinality({t \in rows : key[t] = k})
  <2>1. Counted(byStatus, TaskStatus, rows, key)
    BY <1>5, CountsAre
  <2> QED
    BY <2>1 DEF Counted
<1>7. IsFiniteSet(TaskStatus)
  BY FiniteKeys
<1>8. Total(byStatus) = Cardinality({t \in rows : key[t] \in TaskStatus})
  BY <1>2, <1>6, <1>7, SumOfGroups
<1>9. {t \in rows : key[t] \in TaskStatus} = {t \in rows : d.task[t].status \in TaskStatus}
      /\ {t \in rows : key[t] = "OVERDUE"} = {t \in rows : d.task[t].status \in {"OVERDUE"}}
  BY <1>4
<1> QED
  BY <1>1, <1>6, <1>8, <1>9 DEF TaskStatus

\* pmSummary: the open tasks of each priority, and all of them.
LEMMA OpenAre ==
  ASSUME NEW d, Tables(d), NEW u
  PROVE  Total(CountsBy(Priority, OpenByPriority(u, d))) = Cardinality(Open(InScope(u, d), d))
<1>1. PICK rows, counts : rows = Open(InScope(u, d), d) /\ counts = CountsBy(Priority, OpenByPriority(u, d))
  OBVIOUS
<1>2. IsFiniteSet(rows) /\ rows \subseteq DOMAIN d.task
  BY <1>1, MatchingType, FS_Subset DEF Open
<1>3. PICK key : key = [t \in rows |-> d.task[t].priority]
  OBVIOUS
<1>4. \A t \in rows : key[t] = d.task[t].priority
  BY <1>3
<1>5. OpenByPriority(u, d) = Grouped(rows, key)
  <2>1. OpenByPriority(u, d) = [k \in {d.task[t].priority : t \in rows} |->
                                  Cardinality({t \in rows : d.task[t].priority = k})]
    BY <1>1 DEF OpenByPriority, GroupBy
  <2>2. {d.task[t].priority : t \in rows} = {key[t] : t \in rows}
    BY <1>4
  <2>3. \A k : {t \in rows : d.task[t].priority = k} = {t \in rows : key[t] = k}
    BY <1>4
  <2> QED
    BY <2>1, <2>2, <2>3 DEF Grouped
<1>6. DOMAIN counts = Priority
      /\ \A k \in Priority : counts[k] = Cardinality({t \in rows : key[t] = k})
  <2>1. Counted(counts, Priority, rows, key)
    BY <1>1, <1>5, CountsAre
  <2> QED
    BY <2>1 DEF Counted
<1>7. IsFiniteSet(Priority)
  BY FiniteKeys
<1>8. Total(counts) = Cardinality({t \in rows : key[t] \in Priority})
  BY <1>2, <1>6, <1>7, SumOfGroups
<1>9. {t \in rows : key[t] \in Priority} = rows
  BY <1>2, <1>4, RowType
<1> QED
  BY <1>1, <1>8, <1>9

\* The tasks of a project in u's scope whose status is one of S.
Of(u, d, p, S) == {t \in InScope(u, d) : d.task[t].project = p /\ d.task[t].status \in S}

\* A project's line counts its tasks and no other's.
LEMMA TallyIs ==
  ASSUME NEW d, Tables(d), NEW u, NEW p
  PROVE  ProjectTally(p, PerProjectStatus(u, d)) =
           [total |-> Cardinality(Of(u, d, p, TaskStatus)),
            done |-> Cardinality(Of(u, d, p, {"DONE"})),
            overdue |-> Cardinality(Of(u, d, p, {"OVERDUE"}))]
<1>1. PICK all, rows : all = InScope(u, d) /\ rows = {t \in all : d.task[t].project = p}
  OBVIOUS
<1>2. IsFiniteSet(rows)
  BY <1>1, MatchingType, FS_Subset
<1>3. PICK groups : groups = PerProjectStatus(u, d)
  OBVIOUS
<1>4. groups = [k \in {<<d.task[t].project, d.task[t].status>> : t \in all} |->
                  Cardinality({t \in all : <<d.task[t].project, d.task[t].status>> = k})]
  BY <1>1, <1>3 DEF PerProjectStatus, GroupBy
<1>5. PICK own : own = [s \in {k[2] : k \in {l \in DOMAIN groups : l[1] = p}} |-> groups[<<p, s>>]]
  OBVIOUS
<1>6. PICK key : key = [t \in rows |-> d.task[t].status]
  OBVIOUS
<1>7. \A t \in rows : key[t] = d.task[t].status
  BY <1>6
<1>8. own = Grouped(rows, key)
  <2>1. DOMAIN groups = {<<d.task[t].project, d.task[t].status>> : t \in all}
    BY <1>4
  <2>2. {k[2] : k \in {l \in DOMAIN groups : l[1] = p}} = {key[t] : t \in rows}
    <3>1. ASSUME NEW k \in DOMAIN groups, k[1] = p
          PROVE  \E t \in rows : k[2] = key[t]
      <4>1. PICK t \in all : k = <<d.task[t].project, d.task[t].status>>
        BY <2>1
      <4> QED
        BY <1>1, <1>7, <3>1, <4>1
    <3>2. ASSUME NEW t \in rows
          PROVE  \E k \in DOMAIN groups : k[1] = p /\ k[2] = key[t]
      <4>1. <<d.task[t].project, d.task[t].status>> \in DOMAIN groups
        BY <1>1, <2>1
      <4> QED
        BY <1>1, <1>7, <4>1
    <3> QED
      BY <3>1, <3>2
  <2>3. ASSUME NEW s \in {key[t] : t \in rows}
        PROVE  groups[<<p, s>>] = Cardinality({t \in rows : key[t] = s})
    <3>1. PICK t \in rows : s = key[t]
      OBVIOUS
    <3>2. <<p, s>> \in {<<d.task[r].project, d.task[r].status>> : r \in all}
      BY <1>1, <1>7, <3>1
    <3>3. groups[<<p, s>>] = Cardinality({r \in all : <<d.task[r].project, d.task[r].status>> = <<p, s>>})
      BY <1>4, <3>2
    <3>4. {r \in all : <<d.task[r].project, d.task[r].status>> = <<p, s>>} = {r \in rows : key[r] = s}
      BY <1>1, <1>7
    <3> QED
      BY <3>3, <3>4
  <2> QED
    BY <1>5, <2>2, <2>3 DEF Grouped
<1>9. PICK byStatus : byStatus = CountsBy(TaskStatus, own)
  OBVIOUS
<1>10. DOMAIN byStatus = TaskStatus
       /\ \A k \in TaskStatus : byStatus[k] = Cardinality({t \in rows : key[t] = k})
  <2>1. Counted(byStatus, TaskStatus, rows, key)
    BY <1>8, <1>9, CountsAre
  <2> QED
    BY <2>1 DEF Counted
<1>11. Total(byStatus) = Cardinality({t \in rows : key[t] \in TaskStatus})
  BY <1>2, <1>10, FiniteKeys, SumOfGroups
<1>12. /\ {t \in rows : key[t] \in TaskStatus} = Of(u, d, p, TaskStatus)
       /\ {t \in rows : key[t] = "DONE"} = Of(u, d, p, {"DONE"})
       /\ {t \in rows : key[t] = "OVERDUE"} = Of(u, d, p, {"OVERDUE"})
  BY <1>1, <1>7 DEF Of
<1>13. "DONE" \in TaskStatus /\ "OVERDUE" \in TaskStatus
  BY DEF TaskStatus
<1>14. ProjectTally(p, groups) =
         [total |-> Total(byStatus), done |-> byStatus["DONE"], overdue |-> byStatus["OVERDUE"]]
  BY <1>5, <1>9 DEF ProjectTally
<1> QED
  BY <1>3, <1>10, <1>11, <1>12, <1>13, <1>14

\* What is neither done nor overdue is open.
LEMMA OpenOf ==
  ASSUME NEW d, Tables(d), NEW u, NEW p
  PROVE  Cardinality(Of(u, d, p, TaskStatus)) - Cardinality(Of(u, d, p, {"DONE"}))
             - Cardinality(Of(u, d, p, {"OVERDUE"}))
           = Cardinality({t \in Open(InScope(u, d), d) : d.task[t].project = p})
<1>1. PICK all, done, late, open :
        /\ all = Of(u, d, p, TaskStatus) /\ done = Of(u, d, p, {"DONE"}) /\ late = Of(u, d, p, {"OVERDUE"})
        /\ open = {t \in Open(InScope(u, d), d) : d.task[t].project = p}
  OBVIOUS
<1>2. IsFiniteSet(done) /\ IsFiniteSet(late) /\ IsFiniteSet(open)
  BY <1>1, MatchingType, FS_Subset DEF Of, Open
<1>3. TaskStatus = OpenStatuses \cup {"DONE"} \cup {"OVERDUE"}
      /\ "DONE" \notin OpenStatuses /\ "OVERDUE" \notin OpenStatuses
  BY DEF TaskStatus, OpenStatuses
<1>4. all = (open \cup done) \cup late /\ open \cap done = {} /\ (open \cup done) \cap late = {}
  BY <1>1, <1>3 DEF Of, Open
<1>5. IsFiniteSet(open \cup done)
      /\ Cardinality(open \cup done) = Cardinality(open) + Cardinality(done) - Cardinality({})
  BY <1>2, <1>4, FS_Union
<1>6. Cardinality(all) = Cardinality(open \cup done) + Cardinality(late) - Cardinality({})
  BY <1>2, <1>4, <1>5, FS_Union
<1>7. Cardinality({}) = 0
  BY FS_EmptySet
<1>8. Cardinality(open) \in Nat /\ Cardinality(done) \in Nat /\ Cardinality(late) \in Nat
  BY <1>2, FS_CardinalityType
<1> QED
  BY <1>1, <1>5, <1>6, <1>7, <1>8

-----------------------------------------------------------------------------
(* The properties *)

\* The invariant implies the types,
LEMMA TypeOKHolds ==
  ASSUME IInv
  PROVE  TypeOK
<1>1. /\ viewer \in User /\ panel \in {"list", "summary"} /\ url \in Query /\ shown \in Screen
      /\ req \in [Slot -> Pending \cup {Free}]
  BY DEF IInv, Types
<1>2. /\ DOMAIN url.lists = ListKey /\ {url.from, url.to} \subseteq Days \cup {NoDay}
      /\ url.sort \in Sorts \cup {"default"} /\ url.offset \in Nat \cup HandOffsets
  BY <1>1 DEF Query
<1>3. \A i \in Slot : req[i] # Free => req[i].phase \in {"asked", "reading", "rejected"}
  BY <1>1 DEF Pending
<1>4. shown.kind \in {"nothing", "page", "invalid", "failed"}
  BY <1>1 DEF Screen
<1>5. summary.kind \in {"nothing", "failed", "pm", "admin"}
  BY DEF IInv, SummaryOK, Nothing, Failure, PmSummary, AdminSummary
<1> QED
  BY <1>1, <1>2, <1>3, <1>4, <1>5 DEF TypeOK

\* that the list shown as loaded is the current one,
LEMMA LatestHolds ==
  ASSUME IInv
  PROVE  LatestWins
BY DEF IInv, ScreenOK, LatestWins

\* and that an empty page is one of an empty list, for no other is asked for.
LEMMA EmptyHolds ==
  ASSUME IInv
  PROVE  EmptyMeansNone
<1> SUFFICES ASSUME Settled, steady, shown.kind = "page", shown.page = <<>>
             PROVE  Rows = {}
  BY DEF EmptyMeansNone, Rows
<1>1. url \in Query /\ Tables(db) /\ PageSize \in Nat \ {0}
  BY SizesAssumption DEF IInv, Types
<1>2. shown.page \in PageAt(url.offset) /\ (url.offset = 0 \/ url.offset < Cardinality(Rows))
      /\ url.offset \in Nat
  <2>1. shown.offset \in Nat
    BY DEF IInv, Types, Screen
  <2> QED
    BY <2>1 DEF IInv, ScreenOK, SteadyOK
<1>3. PICK q \in Query : q = ApiQuery(url) /\ q.offset = url.offset /\ q.offset \in Nat
  BY <1>1, <1>2, ApiQueryType
<1>4. shown.page \in Pages(viewer, db, q, PageSize)
  <2>1. [q EXCEPT !.offset = url.offset] = q
    BY <1>3 DEF Query
  <2> QED
    BY <1>2, <1>3, <2>1 DEF PageAt
<1>5. Cardinality(Rows) <= url.offset
  BY <1>1, <1>3, <1>4, PageIs DEF IsCut, Rows
<1>6. IsFiniteSet(Rows) /\ Cardinality(Rows) \in Nat
  BY <1>1, MatchingType DEF Rows
<1>7. Cardinality(Rows) = 0
  BY <1>2, <1>3, <1>5, <1>6
<1> QED
  BY <1>6, <1>7, FS_EmptySet

Starts(n, P) == {o \in 0..n : o % P = 0 /\ o < n}

\* The cuts that start at starts part the rows.
Parted(s, starts, P, n, rows) ==
  /\ UNION {Cut(s, o, P, n) : o \in starts} = rows
  /\ \A o, p \in starts : o # p => Cut(s, o, P, n) \cap Cut(s, p, P, n) = {}

\* The pages of a list that is read from end to end.
LEMMA CutsPartition ==
  ASSUME NEW rows, NEW n \in Nat, NEW P \in Nat \ {0}, NEW s, Lists(s, n, rows)
  PROVE  Parted(s, Starts(n, P), P, n, rows)
<1> DEFINE starts == Starts(n, P)
<1> USE DEF Lists, Starts
<1>1. \A o \in starts : Cut(s, o, P, n) \subseteq rows
  BY DEF Cut
<1>2. ASSUME NEW t \in rows
      PROVE  \E o \in starts : t \in Cut(s, o, P, n)
  <2>1. PICK i \in 1..n : s[i] = t
    OBVIOUS
  <2>2. i - 1 \in Nat
    OBVIOUS
  <2>3. PICK o \in 0..(i - 1) : o % P = 0 /\ i - 1 < o + P
    BY <2>2, Multiple
  <2>4. o \in starts /\ o < i /\ i <= o + P
    BY <2>3
  <2> QED
    BY <2>1, <2>4 DEF Cut
<1>3. ASSUME NEW o \in starts, NEW p \in starts, o < p
      PROVE  Cut(s, o, P, n) \cap Cut(s, p, P, n) = {}
  <2>1. o \in Nat /\ p \in Nat /\ o % P = 0 /\ p % P = 0
    OBVIOUS
  <2>2. o + P <= p
    BY <1>3, <2>1, Apart
  <2> SUFFICES ASSUME NEW i \in 1..n, NEW j \in 1..n, i <= o + P, p < j, s[i] = s[j]
               PROVE  FALSE
    BY DEF Cut
  <2> QED
    BY <2>1, <2>2
<1>4. \A o, p \in starts : o # p => o < p \/ p < o
  OBVIOUS
<1>5. ASSUME NEW o \in starts, NEW p \in starts, o # p
      PROVE  Cut(s, o, P, n) \cap Cut(s, p, P, n) = {}
  BY <1>3, <1>4, <1>5
<1>6. UNION {Cut(s, o, P, n) : o \in starts} = rows
  <2> HIDE DEF starts
  <2> QED
    BY <1>1, <1>2
<1> QED
  BY <1>5, <1>6 DEF Parted

\* The pages that were seen of an unchanged list are the parts of its one order.
LEMMA PagesHold ==
  ASSUME IInv
  PROVE  PagesPartition
<1> DEFINE starts == {o \in 0..Cardinality(Rows) : o % PageSize = 0 /\ o < Cardinality(Rows)}
<1> SUFFICES ASSUME steady, starts \subseteq DOMAIN pages
             PROVE  /\ UNION {pages[o] : o \in starts} = Rows
                    /\ \A o, p \in starts : o # p => pages[o] \cap pages[p] = {}
  BY DEF PagesPartition, Rows
<1>1. Tables(db) /\ url \in Query /\ PageSize \in Nat \ {0}
  BY SizesAssumption DEF IInv, Types
<1>2. PICK q \in Query : q = ApiQuery(url)
  BY <1>1, ApiQueryType
<1>3. PICK n : n = Cardinality(Rows)
  OBVIOUS
<1>4. IsFiniteSet(Rows) /\ n \in Nat /\ Rows \subseteq DOMAIN db.task
  BY <1>1, <1>3, MatchingType DEF Rows
<1> DEFINE O == Orders(Rows, SortOf(q), db)
<1>5. ASSUME NEW o \in starts
      PROVE  \E s \in O : pages[o] = Cut(s, o, PageSize, n)
  <2>1. o \in Nat
    BY <1>4
  <2>2. PICK p \in PageAt(o) : pages[o] = ToSet(p)
    BY DEF IInv, SteadyOK
  <2>3. PICK r : r = [q EXCEPT !.offset = o]
    OBVIOUS
  <2>4. p \in Pages(viewer, db, r, PageSize)
    BY <1>2, <2>2, <2>3 DEF PageAt
  <2>5. Matching(viewer, db, r) = Rows /\ SortOf(r) = SortOf(q) /\ r.offset = o
    BY <1>2, <2>3, SameList DEF Rows
  <2>6. PICK s \in Orders(Matching(viewer, db, r), SortOf(r), db) :
          IsCut(p, s, r.offset, PageSize, Cardinality(Matching(viewer, db, r)))
    BY <1>1, <2>1, <2>4, <2>5, PageIs
  <2> QED
    BY <1>3, <2>2, <2>5, <2>6 DEF IsCut
<1>6. \A r, s \in O : r = s
  <2>1. SortOf(q) \in Sorts
    BY <1>1, <1>2, ApiQueryType
  <2> QED
    BY <1>1, <1>4, <2>1, OneOrder
<1>7. CASE starts = {}
  <2>1. 0 % PageSize = 0
    BY <1>1
  <2>2. n = 0
    BY <1>3, <1>4, <1>7, <2>1
  <2>3. Rows = {}
    BY <1>3, <1>4, <2>2, FS_EmptySet
  <2> QED
    BY <1>7, <2>3
<1>8. CASE starts # {}
  <2>1. PICK s \in O : TRUE
    BY <1>5, <1>8
  <2>2. \A o \in starts : pages[o] = Cut(s, o, PageSize, n)
    <3> HIDE DEF O, starts
    <3> QED
      BY <1>5, <1>6, <2>1
  <2>3. Lists(s, n, Rows)
    BY <1>3, <1>4, <2>1, OrderIs, Zenon
  <2>4. PICK S : S = Starts(n, PageSize)
    OBVIOUS
  <2>5. S = starts
    BY <1>3, <2>4 DEF Starts
  <2>6. Parted(s, S, PageSize, n, Rows)
    BY <1>1, <1>4, <2>3, <2>4, CutsPartition
  <2> HIDE DEF starts, O
  <2>7. {pages[o] : o \in starts} = {Cut(s, o, PageSize, n) : o \in S}
    BY <2>2, <2>5
  <2> QED
    BY <2>2, <2>5, <2>6, <2>7 DEF Parted
<1> QED
  BY <1>7, <1>8

NoBlanks(raw) == " " \notin ToSet(Flat(raw))

\* Without values of blanks, the page counts the values the server counts.
LEMMA SameValues ==
  ASSUME NEW raw \in Seq(Seq(STRING)), NoBlanks(raw)
  PROVE  ListParam(raw) = ListValues(raw)
<1>1. PICK flat \in Seq(STRING) : flat = Flat(raw)
  BY FlatType
<1>2. \A i \in DOMAIN flat : Trim(flat[i]) = flat[i]
  BY <1>1, Zenon DEF ToSet, Trim, NoBlanks
<1>3. [i \in DOMAIN flat |-> Trim(flat[i])] = flat
  <2>1. flat = [i \in DOMAIN flat |-> flat[i]]
    <3>1. STRING \subseteq STRING
      OBVIOUS
    <3> QED
      BY <1>1, <3>1, SeqFacts
  <2> QED
    BY <1>2, <2>1
<1> QED
  BY <1>1, <1>3 DEF ListParam, ListValues

\* An error of the server is at the position the page looks the value up at.
LEMMA ErrorsHold ==
  ASSUME IInv
  PROVE  ErrorNamesValue
<1> DEFINE Named(e, named) == named \notin Enum[e[1]] /\ (named = "" <=> e[2] = Whole)
<1> HIDE DEF Named
<1> SUFFICES ASSUME Settled, shown.kind = "invalid", NEW e \in shown.errors,
                    e[1] \in ListKey, NoBlanks(url.lists[e[1]])
             PROVE  Named(e, ValueAt(url, e[1], e[2]))
  BY Zenon DEF ErrorNamesValue, NoBlanks, Named
<1>1. url \in Query /\ shown.errors = QueryErrors(ApiQuery(url))
  BY DEF IInv, Types, ScreenOK
<1>2. PICK key \in ListKey : key = e[1]
  OBVIOUS
<1>3. PICK raw \in Seq(Seq(STRING)) : raw = url.lists[key]
  BY <1>1 DEF Query
<1>4. ApiQuery(url).lists = url.lists
  BY <1>1, ApiQueryType
<1>5. PICK values \in Seq(STRING) : /\ values = ListValues(raw) /\ values = ListParam(raw)
                                   /\ \A i \in DOMAIN values : values[i] # ""
  BY <1>2, <1>3, ListsType, SameValues, Zenon
<1>6. e \in IF raw # <<>> /\ values = <<>> THEN {<<key, Whole>>}
            ELSE {<<key, i - 1>> : i \in {j \in DOMAIN values : values[j] \notin Enum[key]}}
  <2>1. e \in FieldErrors(ApiQuery(url))
    <3>1. "dueTo" \notin ListKey
      BY Zenon DEF ListKey
    <3>2. <<"dueTo", 0>>[1] = "dueTo"
      OBVIOUS
    <3>3. \A x : x \in QueryErrors(ApiQuery(url)) =>
                   x \in FieldErrors(ApiQuery(url)) \/ x = <<"dueTo", 0>>
      BY Zenon DEF QueryErrors
    <3> QED
      BY <1>1, <1>2, <3>1, <3>2, <3>3, Zenon
  <2>2. e \notin OffsetErrors(ApiQuery(url))
    <3>1. "offset" \notin ListKey
      BY Zenon DEF ListKey
    <3>2. <<"offset", 0>>[1] = "offset"
      OBVIOUS
    <3> QED
      BY <3>1, <3>2, Zenon DEF OffsetErrors
  <2>3. PICK k \in ListKey :
          e \in LET vs == ListParam(ApiQuery(url).lists[k])
                IN IF ApiQuery(url).lists[k] # <<>> /\ vs = <<>> THEN {<<k, Whole>>}
                   ELSE {<<k, i - 1>> : i \in {j \in DOMAIN vs : vs[j] \notin Enum[k]}}
    BY <2>1, <2>2, Zenon DEF FieldErrors
  <2>4. e[1] = k
    <3>1. PICK vs : vs = ListParam(ApiQuery(url).lists[k])
      OBVIOUS
    <3>2. e = <<k, Whole>> \/ \E i \in DOMAIN vs : e = <<k, i - 1>>
      BY <2>3, <3>1
    <3>3. CASE e = <<k, Whole>>
      BY <3>3
    <3>4. CASE \E i \in DOMAIN vs : e = <<k, i - 1>>
      BY <3>4
    <3> QED
      BY <3>2, <3>3, <3>4
  <2> QED
    BY <1>2, <1>3, <1>4, <1>5, <2>3, <2>4, Zenon
<1>7. "" \notin Enum[key]
  <2>1. Enum["status"] = TaskStatus /\ Enum["priority"] = Priority
    BY DEF Enum
  <2>2. "" \notin TaskStatus /\ "" \notin Priority
    BY Zenon DEF TaskStatus, Priority
  <2> QED
    BY <2>1, <2>2, Zenon DEF ListKey
<1>8. ValueAt(url, key, e[2]) =
        IF (IF e[2] = Whole THEN 1 ELSE e[2] + 1) \in DOMAIN values
        THEN values[IF e[2] = Whole THEN 1 ELSE e[2] + 1] ELSE ""
  BY <1>3, <1>5, Zenon DEF ValueAt
<1>9. CASE raw # <<>> /\ values = <<>>
  <2>1. e = <<key, Whole>>
    BY <1>6, <1>9
  <2>2. e[2] = Whole
    BY <2>1
  <2>3. ~ (1 \in DOMAIN values)
    <3>1. DOMAIN <<>> = {}
      OBVIOUS
    <3> QED
      BY <1>9, <3>1
  <2> QED
    BY <1>2, <1>7, <1>8, <2>2, <2>3, Zenon DEF Named
<1>10. CASE ~ (raw # <<>> /\ values = <<>>)
  <2>1. PICK i \in DOMAIN values : values[i] \notin Enum[key] /\ e = <<key, i - 1>>
    BY <1>6, <1>10
  <2>2. values[i] # ""
    BY <1>5, <2>1, Zenon
  <2>3. e[2] # Whole /\ e[2] + 1 = i
    <3>1. DOMAIN values = 1..Len(values) /\ Len(values) \in Nat
      BY <1>5, SeqFacts, Zenon
    <3>2. i \in 1..Len(values)
      BY <3>1, Zenon
    <3>3. i \in Nat /\ i >= 1
      BY <3>1, <3>2
    <3>4. PICK at : at = i - 1
      OBVIOUS
    <3>5. e[2] = at
      BY <2>1, <3>4
    <3>6. at # Whole /\ at + 1 = i
      BY <3>3, <3>4 DEF Whole
    <3> QED
      BY <3>5, <3>6, Zenon
  <2>4. ValueAt(url, key, e[2]) = values[i]
    BY <1>8, <2>1, <2>3, Zenon
  <2> QED
    BY <1>2, <2>1, <2>2, <2>3, <2>4, Zenon DEF Named
<1> QED
  BY <1>9, <1>10

\* A summary that is shown was put together from parts that were read.
LEMMA PmFacts ==
  ASSUME IInv, summary.kind = "pm"
  PROVE  /\ viewer \in Managers /\ summary = PmSummary
         /\ PartRead("projects") /\ PartRead("perProjectStatus") /\ PartRead("openByPriority")
<1>1. summary \notin {Nothing, Failure}
  BY DEF Nothing, Failure
<1>2. panel = "summary" /\ (\A name \in DOMAIN part : part[name] # Unread)
      /\ summary = (IF viewer \in Admins THEN AdminSummary ELSE PmSummary)
  BY <1>1 DEF IInv, SummaryOK
<1>3. viewer \notin Admins
  BY <1>2 DEF AdminSummary
<1>4. viewer \in Managers
  BY <1>2, <1>3 DEF IInv, Types, User
<1>5. PartsOf(viewer) = {"projects", "perProjectStatus", "openByPriority", "upcoming"}
  BY <1>4, RolesAssumption DEF PartsOf
<1>6. \A name \in DOMAIN part : PartRead(name)
  BY <1>2 DEF IInv, PartsOK
<1>7. DOMAIN part = PartsOf(viewer)
  BY DEF IInv, PartsOK
<1> QED
  BY <1>2, <1>3, <1>4, <1>5, <1>6, <1>7

\* The same of an admin's summary.
LEMMA AdminFacts ==
  ASSUME IInv, summary.kind = "admin"
  PROVE  summary = AdminSummary /\ PartRead("tasksByStatus")
<1>1. summary \notin {Nothing, Failure}
  BY DEF Nothing, Failure
<1>2. panel = "summary" /\ (\A name \in DOMAIN part : part[name] # Unread)
      /\ summary = (IF viewer \in Admins THEN AdminSummary ELSE PmSummary)
  BY <1>1 DEF IInv, SummaryOK
<1>3. viewer \in Admins
  BY <1>2 DEF PmSummary
<1>4. PartsOf(viewer) = {"projectCount", "tasksByStatus"}
  BY <1>3, RolesAssumption DEF PartsOf
<1>5. \A name \in DOMAIN part : PartRead(name)
  BY <1>2 DEF IInv, PartsOK
<1>6. DOMAIN part = PartsOf(viewer)
  BY DEF IInv, PartsOK
<1> QED
  BY <1>2, <1>3, <1>4, <1>5, <1>6

\* A project that stayed its manager's is told as it was at one moment.
LEMMA TallyHolds ==
  ASSUME IInv
  PROVE  TallyTrue
<1> SUFFICES ASSUME summary.kind = "pm", NEW p \in DOMAIN summary.projects,
                    \A d \in past : p \in DOMAIN d.owner /\ d.owner[p] = viewer
             PROVE  \E d \in past :
                      LET of(S) == Cardinality({t \in DOMAIN d.task : /\ d.task[t].project = p
                                                                      /\ d.task[t].status \in S})
                      IN summary.projects[p] = [total |-> of(TaskStatus), done |-> of({"DONE"}),
                                                overdue |-> of({"OVERDUE"})]
  BY DEF TallyTrue
<1>1. viewer \in Managers /\ summary = PmSummary
      /\ PartRead("projects") /\ PartRead("perProjectStatus")
  BY PmFacts
<1>2. summary.projects = [x \in Read("projects") |-> ProjectTally(x, Read("perProjectStatus"))]
  BY <1>1 DEF PmSummary
<1>3. PICK d \in past : Read("perProjectStatus") = PerProjectStatus(viewer, d)
  BY <1>1 DEF PartRead, Read
<1>4. Tables(d)
  BY DEF IInv, PartsOK
<1>5. summary.projects[p] = ProjectTally(p, PerProjectStatus(viewer, d))
  BY <1>2, <1>3
<1>6. \A S : Of(viewer, d, p, S) = {t \in DOMAIN d.task : d.task[t].project = p /\ d.task[t].status \in S}
  BY <1>1, RolesAssumption DEF Of, InScope, InTaskScope, OwnerOf
<1>7. summary.projects[p] = [total |-> Cardinality(Of(viewer, d, p, TaskStatus)),
                             done |-> Cardinality(Of(viewer, d, p, {"DONE"})),
                             overdue |-> Cardinality(Of(viewer, d, p, {"OVERDUE"}))]
  BY <1>4, <1>5, TallyIs
<1>8. \A S : Cardinality(Of(viewer, d, p, S))
              = Cardinality({t \in DOMAIN d.task : d.task[t].project = p /\ d.task[t].status \in S})
  BY <1>6
<1>9. summary.projects[p] =
        [total |-> Cardinality({t \in DOMAIN d.task : /\ d.task[t].project = p
                                                       /\ d.task[t].status \in TaskStatus}),
         done |-> Cardinality({t \in DOMAIN d.task : /\ d.task[t].project = p
                                                      /\ d.task[t].status \in {"DONE"}}),
         overdue |-> Cardinality({t \in DOMAIN d.task : /\ d.task[t].project = p
                                                         /\ d.task[t].status \in {"OVERDUE"}})]
  BY <1>7, <1>8, Zenon
<1> QED
  BY <1>3, <1>9, Zenon

\* What the summary shows when nothing has changed since it was asked.
LEMMA AddsHold ==
  ASSUME IInv
  PROVE  AddsUp
<1> SUFFICES ASSUME Cardinality(past) = 1
             PROVE  AddsUp
  BY DEF AddsUp
<1>1. past = {db} /\ Tables(db)
  <2>1. IsFiniteSet(past) /\ db \in past /\ Tables(db)
    BY DEF IInv, PartsOK
  <2>2. IsFiniteSet(past \ {db}) /\ Cardinality(past \ {db}) = 0
    BY <2>1, FS_RemoveElement
  <2> QED
    BY <2>1, <2>2, FS_EmptySet
<1>2. PICK all : all = InScope(viewer, db)
  OBVIOUS
<1>3. ASSUME summary.kind = "admin"
      PROVE  /\ summary.total = Cardinality({t \in all : db.task[t].status \in TaskStatus})
             /\ summary.overdue = Cardinality({t \in all : db.task[t].status \in {"OVERDUE"}})
  <2>1. summary = AdminSummary /\ PartRead("tasksByStatus")
    BY <1>3, AdminFacts
  <2>2. Read("tasksByStatus") = TasksByStatus(viewer, db)
    BY <1>1, <2>1 DEF PartRead, Read
  <2>3. PICK byStatus : byStatus = CountsBy(TaskStatus, TasksByStatus(viewer, db))
    OBVIOUS
  <2>4. summary.total = Total(byStatus) /\ summary.overdue = byStatus["OVERDUE"]
    BY <2>1, <2>2, <2>3 DEF AdminSummary
  <2> QED
    BY <1>1, <1>2, <2>3, <2>4, ByStatusIs
<1>4. ASSUME summary.kind = "pm"
      PROVE  LET line == summary.projects
             IN /\ Total([p \in DOMAIN line |-> line[p].total])
                     = Cardinality({t \in all : db.task[t].status \in TaskStatus})
                /\ Total(summary.openTasksByPriority)
                     = Total([p \in DOMAIN line |-> line[p].total - line[p].done - line[p].overdue])
  <2>1. viewer \in Managers /\ summary = PmSummary /\ PartRead("projects")
        /\ PartRead("perProjectStatus") /\ PartRead("openByPriority")
    BY <1>4, PmFacts
  <2>2. /\ Read("projects") = OwnProjects(viewer, db)
        /\ Read("perProjectStatus") = PerProjectStatus(viewer, db)
        /\ Read("openByPriority") = OpenByPriority(viewer, db)
    BY <1>1, <2>1 DEF PartRead, Read
  <2>3. PICK line, own : line = summary.projects /\ own = OwnProjects(viewer, db)
    OBVIOUS
  <2>4. line = [p \in own |-> ProjectTally(p, PerProjectStatus(viewer, db))]
        /\ summary.openTasksByPriority = CountsBy(Priority, OpenByPriority(viewer, db))
    BY <2>1, <2>2, <2>3 DEF PmSummary
  <2>5. DOMAIN line = own /\
        \A p \in own : line[p] = [total |-> Cardinality(Of(viewer, db, p, TaskStatus)),
                                  done |-> Cardinality(Of(viewer, db, p, {"DONE"})),
                                  overdue |-> Cardinality(Of(viewer, db, p, {"OVERDUE"}))]
    BY <1>1, <2>4, TallyIs
  <2>6. IsFiniteSet(own) /\ IsFiniteSet(all) /\ all \subseteq DOMAIN db.task
        /\ \A t \in all : db.task[t].status \in TaskStatus /\ db.task[t].project \in own
    <3>1. IsFiniteSet(own)
      BY <1>1, <2>3, FS_Subset DEF Tables, OwnProjects
    <3>2. IsFiniteSet(all) /\ all \subseteq DOMAIN db.task
      BY <1>1, <1>2, MatchingType
    <3>3. ASSUME NEW t \in all
          PROVE  db.task[t].status \in TaskStatus /\ db.task[t].project \in own
      <4>1. db.task[t].status \in TaskStatus /\ db.task[t].project \in DOMAIN db.owner
        BY <1>1, <3>2, RowType
      <4>2. db.owner[db.task[t].project] = viewer
        BY <1>2, <2>1, RolesAssumption DEF InScope, InTaskScope, OwnerOf
      <4> QED
        BY <2>3, <4>1, <4>2 DEF OwnProjects
    <3> QED
      BY <3>1, <3>2, <3>3
  <2>7. PICK key, open : /\ key = [t \in all |-> db.task[t].project]
                         /\ open = Open(all, db)
    OBVIOUS
  <2>8. open \subseteq all /\ IsFiniteSet(open) /\ \A t \in all : key[t] = db.task[t].project
    BY <2>6, <2>7, FS_Subset DEF Open
  <2>9. Total([p \in own |-> line[p].total]) = Cardinality(all)
    <3>1. PICK totals1 : totals1 = [p \in own |-> line[p].total]
      OBVIOUS
    <3>2. ASSUME NEW p \in own
          PROVE  totals1[p] = Cardinality({t \in all : key[t] = p})
      <4>1. totals1[p] = Cardinality(Of(viewer, db, p, TaskStatus))
        BY <2>5, <3>1
      <4>2. Of(viewer, db, p, TaskStatus) = {t \in all : key[t] = p}
        BY <1>2, <2>6, <2>8 DEF Of
      <4> QED
        BY <4>1, <4>2
    <3>3. DOMAIN totals1 = own
      BY <3>1
    <3>4. Total(totals1) = Cardinality({t \in all : key[t] \in own})
      BY <2>6, <3>2, <3>3, SumOfGroups
    <3>5. {t \in all : key[t] \in own} = all
      BY <2>6, <2>8
    <3> QED
      BY <3>1, <3>4, <3>5
  <2>10. Total([p \in own |-> line[p].total - line[p].done - line[p].overdue]) = Cardinality(open)
    <3>1. PICK opens : opens = [p \in own |-> line[p].total - line[p].done - line[p].overdue]
      OBVIOUS
    <3>2. ASSUME NEW p \in own
          PROVE  opens[p] = Cardinality({t \in open : key[t] = p})
      <4>1. opens[p] = Cardinality(Of(viewer, db, p, TaskStatus)) - Cardinality(Of(viewer, db, p, {"DONE"}))
                         - Cardinality(Of(viewer, db, p, {"OVERDUE"}))
        BY <2>5, <3>1
      <4>2. opens[p] = Cardinality({t \in open : db.task[t].project = p})
        BY <1>1, <1>2, <2>7, <4>1, OpenOf
      <4>3. {t \in open : db.task[t].project = p} = {t \in open : key[t] = p}
        BY <2>8
      <4> QED
        BY <4>2, <4>3
    <3>3. DOMAIN opens = own
      BY <3>1
    <3>4. Total(opens) = Cardinality({t \in open : key[t] \in own})
      BY <2>6, <2>8, <3>2, <3>3, SumOfGroups
    <3>5. {t \in open : key[t] \in own} = open
      BY <2>6, <2>8
    <3> QED
      BY <3>1, <3>4, <3>5
  <2>11. Total(summary.openTasksByPriority) = Cardinality(open)
    BY <1>1, <1>2, <2>4, <2>7, OpenAre
  <2>12. {t \in all : db.task[t].status \in TaskStatus} = all
    BY <2>6
  <2> QED
    BY <2>3, <2>5, <2>9, <2>10, <2>11, <2>12
<1> QED
  BY <1>2, <1>3, <1>4 DEF AddsUp

-----------------------------------------------------------------------------
(* The theorems *)

\* The inductive invariant: there is one request at most, it and what is shown as
\* current answer the address bar, and what was read of unchanged tables still holds.
THEOREM Inductive == Spec => []IInv
<1>1. Init => IInv
  BY InitInv
<1>2. IInv /\ [Next]_vars => IInv'
  BY NextInv
<1> QED
  BY <1>1, <1>2, PTL DEF Spec

\* Types.  However Previous, Next, filters, links and retries are mixed, the list
\* never asks below its first task (useTaskFilters, Pagination).
THEOREM DashboardTypes == Spec => []TypeOK
BY Inductive, TypeOKHolds, PTL

\* However slow an answer, and however often the filters change while it is on its
\* way, the list shown as loaded is the one the address bar asks for: the cleanup of
\* useApi's effect aborts the request before.
THEOREM LatestAnswerWins == Spec => []LatestWins
BY Inductive, LatestHolds, PTL

\* For every page size and every filter, paging through an unchanged list shows each
\* matching task exactly once, because every sort order ends in the task's id
\* (listTasks' ORDER BY, LIMIT and OFFSET).
THEOREM PagesPartitionTheList == Spec => []PagesPartition
BY Inductive, PagesHold, PTL

\* "No tasks match these filters" is true of a list nobody changes, because every
\* change of a filter goes back to the first page.
THEOREM EmptyListIsEmpty == Spec => []EmptyMeansNone
BY Inductive, EmptyHolds, PTL

\* The value the page names beside an error is the one the server rejected: both
\* count the values of a parameter in the same way, except for those of blanks.
THEOREM ErrorsNameTheValue == Spec => []ErrorNamesValue
BY Inductive, ErrorsHold, PTL

\* A summary is put together from queries of different moments; each project's line
\* is still what was true at one of them, and the totals agree with the lists when
\* nothing changed meanwhile (pmSummary, adminSummary).
THEOREM SummaryIsTrue == Spec => []SummaryTrue
<1>1. IInv => SummaryTrue
  BY TallyHolds, AddsHold DEF SummaryTrue
<1> QED
  BY <1>1, Inductive, PTL
=============================================================================

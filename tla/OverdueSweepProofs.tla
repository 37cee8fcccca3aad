------------------------- MODULE OverdueSweepProofs -------------------------
(***************************************************************************)
(* Proofs about OverdueSweep, for any number of instances, any finite set of *)
(* tasks and any batch size.                                                *)
(***************************************************************************)
EXTENDS OverdueSweep, FiniteSetTheorems, WellFoundedInduction, TLAPS

-----------------------------------------------------------------------------
(* Least and greatest numbers *)

\* A nonempty set of numbers has a least element.
LEMMA LeastNumber ==
  ASSUME NEW S \in SUBSET Nat, S # {}
  PROVE  \E m \in S : \A x \in S : m <= x
<1> DEFINE Less == {p \in Nat \X Nat : p[1] < p[2]}
<1>1. IsWellFoundedOn(Less, Nat)
  <2>1. OpToRel(<, Nat) = Less
    BY Zenon DEF OpToRel
  <2> QED
    BY <2>1, NatLessThanWellFounded, Zenon
<1>2. PICK m \in S : \A x \in S : ~ (<<x, m>> \in Less)
  <2> HIDE DEF Less
  <2> QED
    BY <1>1, WFMin
<1>3. ASSUME NEW x \in S, x < m PROVE FALSE
  <2>1. <<x, m>> \in Less
    BY <1>3
  <2> QED
    BY <1>2, <2>1
<1> QED
  BY <1>3

\* A finite nonempty set of numbers has a greatest element.
LEMMA GreatestNumber ==
  ASSUME NEW S \in SUBSET Nat, IsFiniteSet(S), S # {}
  PROVE  \E m \in S : \A x \in S : x <= m
<1> DEFINE NoGreatest(T) == T # {} /\ ~ \E m \in T : \A x \in T : x <= m
           Sizes == {Cardinality(T) : T \in {U \in SUBSET S : NoGreatest(U)}}
<1> SUFFICES ASSUME NoGreatest(S) PROVE FALSE
  OBVIOUS
<1>1. Sizes \subseteq Nat /\ Sizes # {}
  <2>1. \A T \in SUBSET S : Cardinality(T) \in Nat
    BY FS_Subset, FS_CardinalityType
  <2> QED
    BY <2>1
<1>2. PICK n \in Sizes : \A k \in Sizes : n <= k
  <2> HIDE DEF Sizes
  <2> QED
    BY <1>1, LeastNumber
<1>3. PICK T \in SUBSET S : NoGreatest(T) /\ n = Cardinality(T)
  BY <1>2
<1>4. IsFiniteSet(T) /\ Cardinality(T) \in Nat
  BY FS_Subset, FS_CardinalityType
<1>5. PICK t \in T : TRUE
  BY <1>3
<1>6. PICK u \in T : t < u
  BY <1>3, <1>5
<1> DEFINE R == T \ {t}
<1>7. R \in SUBSET S /\ R # {} /\ Cardinality(R) = n - 1
  <2>1. Cardinality(R) = Cardinality(T) - 1
    BY <1>4, <1>5, FS_RemoveElement, Zenon
  <2>2. u \in R
    BY <1>6
  <2> QED
    BY <1>3, <2>1, <2>2
<1>8. ~ NoGreatest(R)
  <2>1. SUFFICES ASSUME NoGreatest(R) PROVE FALSE
    OBVIOUS
  <2>2. Cardinality(R) \in Sizes
    BY <1>7, <2>1
  <2> QED
    <3>1. n <= n - 1 /\ n \in Nat
      BY <1>2, <1>3, <1>4, <1>7, <2>2
    <3> QED
      BY <3>1
<1>9. PICK m \in R : \A x \in R : x <= m
  BY <1>7, <1>8
<1>10. \A x \in T : x <= m
  <2> SUFFICES ASSUME NEW x \in T PROVE x <= m
    OBVIOUS
  <2>1. CASE x # t
    BY <1>9, <2>1
  <2>2. CASE x = t
    <3>1. u <= m /\ u \in Nat /\ t \in Nat /\ m \in Nat
      BY <1>5, <1>6, <1>9
    <3> QED
      BY <2>2, <3>1, <1>6
  <2> QED
    BY <2>1, <2>2
<1> QED
  BY <1>3, <1>9, <1>10

-----------------------------------------------------------------------------
(* The first of a set of numbers *)

\* The first n of a set of numbers come before the others, and are all of it when
\* they are fewer than n.
LEMMA FirstOnes ==
  ASSUME NEW S \in SUBSET Nat, IsFiniteSet(S), NEW n \in Nat \ {0},
         NEW F, F = {t \in S : Cardinality({u \in S : u < t}) < n}
  PROVE  /\ IsFiniteSet(F)
         /\ \A t \in S \ F, b \in F : b < t
         /\ Cardinality(F) < n => F = S
<1> DEFINE Below(t) == {u \in S : u < t}
<1>1. \A t \in S : IsFiniteSet(Below(t)) /\ Cardinality(Below(t)) \in Nat
  <2>1. \A t \in S : Below(t) \in SUBSET S
    OBVIOUS
  <2> QED
    BY <2>1, FS_Subset, FS_CardinalityType
<1>2. IsFiniteSet(F) /\ Cardinality(F) \in Nat
  BY FS_Subset, FS_CardinalityType
<1>3. ASSUME NEW t \in S \ F, NEW b \in F, ~ (b < t) PROVE FALSE
  <2>1. t # b /\ t < b
    BY <1>3
  <2>2. Below(t) \in SUBSET Below(b)
    <3>1. t \in Nat /\ b \in Nat
      OBVIOUS
    <3>2. ASSUME NEW u \in S, u < t PROVE u < b
      BY <2>1, <3>1, <3>2
    <3> QED
      BY <3>2
  <2>3. Cardinality(Below(t)) <= Cardinality(Below(b))
    <3>1. IsFiniteSet(Below(b))
      BY <1>1
    <3> HIDE DEF Below
    <3> QED
      BY <2>2, <3>1, FS_Subset
  <2>4. Cardinality(Below(b)) < n /\ ~ (Cardinality(Below(t)) < n)
    OBVIOUS
  <2>5. Cardinality(Below(b)) \in Nat /\ Cardinality(Below(t)) \in Nat
    BY <1>1
  <2> QED
    BY <2>3, <2>4, <2>5
<1>4. ASSUME Cardinality(F) < n, S \ F # {} PROVE FALSE
  <2>1. PICK m \in S \ F : \A x \in S \ F : m <= x
    BY <1>4, LeastNumber
  <2>2. Below(m) \in SUBSET F
    <3>1. ASSUME NEW u \in S, u < m, u \notin F PROVE FALSE
      <4>1. m <= u /\ m \in Nat /\ u \in Nat
        BY <2>1, <3>1
      <4> QED
        BY <3>1, <4>1
    <3> QED
      BY <3>1
  <2>3. Cardinality(Below(m)) <= Cardinality(F)
    <3> HIDE DEF Below
    <3> QED
      BY <1>2, <2>2, FS_Subset
  <2>4. ~ (Cardinality(Below(m)) < n)
    BY <2>1
  <2>5. Cardinality(Below(m)) \in Nat
    BY <1>1, <2>1
  <2> QED
    BY <1>2, <1>4, <2>3, <2>4, <2>5
<1> QED
  BY <1>2, <1>3, <1>4

\* LastOf is the last of the ids.
LEMMA LastIsLast ==
  ASSUME NEW ids \in SUBSET Nat, IsFiniteSet(ids), ids # {}
  PROVE  LastOf(ids) \in ids
BY GreatestNumber DEF LastOf

\* Group skips no status that a candidate has.
LEMMA GroupSkipsNothing ==
  ASSUME NEW seen, NEW k \in 1..4
  PROVE  /\ Group(seen, k) \in k..4
         /\ \A h \in k..(Group(seen, k) - 1), t \in DOMAIN seen : seen[t] # OpenStatuses[h]
<1> DEFINE Has == {g \in k..4 : g = 4 \/ \E t \in DOMAIN seen : seen[t] = OpenStatuses[g]}
           IsNext(g) == /\ g = 4 \/ \E t \in DOMAIN seen : seen[t] = OpenStatuses[g]
                        /\ \A h \in k..(g - 1) : \A t \in DOMAIN seen : seen[t] # OpenStatuses[h]
<1>1. PICK g \in Has : \A h \in Has : g <= h
  <2>1. Has \in SUBSET Nat /\ 4 \in Has
    OBVIOUS
  <2> HIDE DEF Has
  <2> QED
    BY <2>1, LeastNumber
<1>2. g \in k..4 /\ IsNext(g)
  <2>1. \A h \in k..(g - 1) : h \in k..4 /\ ~ (g <= h)
    OBVIOUS
  <2> QED
    BY <1>1, <2>1
<1>3. Group(seen, k) = CHOOSE x \in k..4 : IsNext(x)
  BY DEF Group
<1>4. Group(seen, k) \in k..4 /\ IsNext(Group(seen, k))
  <2> HIDE DEF IsNext
  <2> QED
    BY <1>2, <1>3
<1> QED
  BY <1>4
-----------------------------------------------------------------------------
(* The inductive invariant *)

\* The lock is held by one instance at most.
Mutex == \A i, j \in Instance : run[i].pc = "update" /\ run[j].pc = "update" => i = j

\* What is drafted is still open: users' updates wait for it.
DraftsOpen == \A i \in Instance : \A t \in run[i].drafted : status[t] \in Open

\* A run that reads has put its last batch behind it.
ReadsAfresh == \A i \in Instance : run[i].pc = "read" => DOMAIN run[i].seen = {}

\* What a run still owes: the tasks that were overdue when it began, have not been
\* touched since, and have not been flagged by anyone.
Due(i) == {t \in owed[i] : status[t] # "OVERDUE"}

\* A run still finds a task it owes: it is overdue, and behind the cursor or a
\* candidate of this batch, with the status it was read with.
Reachable(i) ==
  \A t \in Due(i) : /\ Overdue(t, run[i].now)
                    /\ t > run[i].cursor \/ t \in DOMAIN run[i].seen
                    /\ t \in DOMAIN run[i].seen => status[t] = run[i].seen[t]

\* In the batch it is drafted, or its status is still to be updated.
Upcoming(i) ==
  \A t \in Due(i) \cap DOMAIN run[i].seen :
    t \in run[i].drafted \/ \E g \in run[i].next..3 : run[i].seen[t] = OpenStatuses[g]

\* The last batch holds all that is owed.
LastHoldsAll(i) == Short(DOMAIN run[i].seen) => Due(i) \subseteq DOMAIN run[i].seen

Debt(i) == /\ run[i].pc # "idle" => Reachable(i)
           /\ run[i].pc \in {"lock", "update"} => Upcoming(i) /\ LastHoldsAll(i)

\* A run that reports completion owes nothing.
Paid(i) == outcome[i] = "complete" => Due(i) = {}

DebtsOK == \A i \in Instance : Debt(i) /\ Paid(i)

IInv == TypeOK /\ Mutex /\ DraftsOpen /\ ReadsAfresh /\ FlaggedOnce /\ DebtsOK

-----------------------------------------------------------------------------
(* Types *)

\* A row of locals is typed by its parts.
LEMMA LocalType ==
  ASSUME NEW p \in {"idle", "read", "lock", "update"}, NEW n \in Nat,
         NEW c \in Task \cup {0}, NEW ids \in SUBSET Task, NEW s \in [ids -> Open],
         NEW k \in 1..4, NEW d \in SUBSET Task
  PROVE  Local(p, n, c, s, k, d) \in RunRow
<1>1. s \in Seen
  BY DEF Seen
<1> QED
  BY <1>1 DEF Local, RunRow

\* There is no candidate in a row without a batch.
LEMMA NoTasksType == NoTasks \in [{} -> Open] /\ DOMAIN NoTasks = {}
BY DEF NoTasks, Open

\* The row of an instance that is not sweeping.
LEMMA NoRunType ==
  /\ NoRun \in RunRow /\ NoRun.pc = "idle" /\ NoRun.drafted = {} /\ DOMAIN NoRun.seen = {}
<1>1. NoRun \in RunRow
  <2>1. Local("idle", 0, 0, NoTasks, 4, {}) \in RunRow
    <3>1. NoTasks \in Seen
      BY NoTasksType DEF Seen
    <3> QED
      BY <3>1 DEF Local, RunRow
  <2> QED
    BY <2>1 DEF NoRun
<1> QED
  BY <1>1, NoTasksType DEF NoRun, Local

\* The candidates of a batch have statuses.
LEMMA SeenType ==
  ASSUME NEW s \in Seen
  PROVE  DOMAIN s \in SUBSET Task /\ s \in [DOMAIN s -> Open]
BY DEF Seen

\* Batches are finite, and so are the tasks left.
LEMMA BatchFacts ==
  ASSUME TypeOK, NEW i \in Instance
  PROVE  /\ Batch(i) \subseteq Behind(i) /\ Behind(i) \subseteq Task
         /\ IsFiniteSet(Batch(i))
         /\ \A t \in Behind(i) \ Batch(i), b \in Batch(i) : b < t
         /\ Short(Batch(i)) => Batch(i) = Behind(i)
         /\ Batch(i) # {} => LastOf(Batch(i)) \in Batch(i)
<1>1. Behind(i) \in SUBSET Nat /\ Behind(i) \in SUBSET Task /\ IsFiniteSet(Behind(i))
  <2>1. Behind(i) \in SUBSET Task
    BY DEF Behind
  <2>2. IsFiniteSet(Behind(i))
    BY <2>1, SizesAssumption, FS_Subset
  <2> QED
    BY <2>1, <2>2, SizesAssumption
<1>2. Batch(i) = {t \in Behind(i) : Cardinality({u \in Behind(i) : u < t}) < BatchSize}
  BY DEF Batch
<1>3. /\ IsFiniteSet(Batch(i))
      /\ \A t \in Behind(i) \ Batch(i), b \in Batch(i) : b < t
      /\ Cardinality(Batch(i)) < BatchSize => Batch(i) = Behind(i)
  <2> HIDE DEF Batch, Behind
  <2> QED
    BY <1>1, <1>2, FirstOnes, SizesAssumption
<1>4. Batch(i) # {} => LastOf(Batch(i)) \in Batch(i)
  <2>1. Batch(i) \in SUBSET Nat
    BY <1>1, <1>2
  <2> QED
    BY <1>3, <2>1, LastIsLast
<1> QED
  BY <1>1, <1>2, <1>3, <1>4 DEF Short

-----------------------------------------------------------------------------
(* What no step of another instance disturbs *)

\* A run keeps track of its debts while nobody changes what it still owes.
LEMMA DebtKept ==
  ASSUME NEW j \in Instance, Debt(j), run'[j] = run[j], Due(j)' \subseteq Due(j),
         \A t \in Due(j)' : status'[t] = status[t] /\ due'[t] = due[t]
  PROVE  Debt(j)'
<1>1. Reachable(j) => Reachable(j)'
  BY DEF Reachable, Overdue
<1>2. Upcoming(j) => Upcoming(j)'
  BY DEF Upcoming
<1>3. LastHoldsAll(j) => LastHoldsAll(j)'
  BY DEF LastHoldsAll, Short
<1> QED
  BY <1>1, <1>2, <1>3 DEF Debt

\* A finished run stays without debts while nobody undoes a flag.
LEMMA PaidKept ==
  ASSUME NEW j \in Instance, Paid(j), outcome'[j] \in {outcome[j], "none", "failed", "skipped"},
         Due(j)' \subseteq Due(j)
  PROVE  Paid(j)'
BY DEF Paid

\* The invariant holds at first.
LEMMA InitIInv == Init => IInv
<1> SUFFICES ASSUME Init PROVE IInv
  OBVIOUS
<1>1. PICK seed \in Seeds : /\ status = [t \in Task |-> seed[t].status]
                            /\ due = [t \in Task |-> seed[t].due]
  BY DEF Init
<1>2. \A t \in Task : status[t] \in Status \ {"OVERDUE"} /\ due[t] \in Nat
  BY <1>1, BoundsAssumption
<1>3. \A i \in Instance : run[i] = NoRun
  BY DEF Init
<1>4. TypeOK
  BY <1>1, <1>2, <1>3, NoRunType DEF Init, TypeOK
<1>5. Mutex /\ DraftsOpen /\ ReadsAfresh
  BY <1>3, NoRunType DEF Mutex, DraftsOpen, ReadsAfresh
<1>6. FlaggedOnce
  BY <1>2 DEF Init, FlaggedOnce
<1>7. DebtsOK
  BY <1>3, NoRunType DEF Init, DebtsOK, Debt, Paid
<1> QED
  BY <1>4, <1>5, <1>6, <1>7 DEF IInv

-----------------------------------------------------------------------------
(* The steps of one run *)

\* A step that only changes the locals of one run keeps the invariant, if that
\* run keeps track of its debts.
LEMMA RunStep ==
  ASSUME IInv, NEW i \in Instance, NEW r \in RunRow, run' = [run EXCEPT ![i] = r],
         UNCHANGED <<clock, status, due, up, entries, edits>>, faults' \in Nat,
         outcome' \in [Instance -> {"none", "complete", "skipped", "failed"}],
         owed' \in [Instance -> SUBSET Task],
         r.drafted \subseteq DOMAIN r.seen, r.drafted # {} => r.pc = "update",
         r.pc = "update" => \A j \in Instance \ {i} : run[j].pc # "update",
         \A t \in r.drafted : status[t] \in Open,
         r.pc = "read" => DOMAIN r.seen = {},
         \A j \in Instance \ {i} : owed'[j] = owed[j] /\ outcome'[j] = outcome[j],
         Debt(i)', Paid(i)'
  PROVE  IInv'
<1>1. run' \in [Instance -> RunRow] /\ run'[i] = r
  BY DEF IInv, TypeOK
<1>2. \A j \in Instance \ {i} : run'[j] = run[j]
  BY DEF IInv, TypeOK
<1>3. TypeOK'
  BY <1>1, <1>2 DEF IInv, TypeOK
<1>4. Mutex'
  BY <1>1, <1>2 DEF IInv, Mutex
<1>5. DraftsOpen' /\ ReadsAfresh'
  BY <1>1, <1>2 DEF IInv, DraftsOpen, ReadsAfresh
<1>6. FlaggedOnce'
  BY DEF IInv, FlaggedOnce
<1>7. DebtsOK'
  <2> SUFFICES ASSUME NEW j \in Instance, j # i PROVE Debt(j)' /\ Paid(j)'
    BY DEF DebtsOK
  <2>1. Debt(j) /\ Paid(j) /\ run'[j] = run[j] /\ outcome'[j] = outcome[j]
    BY <1>2 DEF IInv, DebtsOK
  <2>2. Due(j)' = Due(j)
    BY DEF Due
  <2> QED
    BY <2>1, <2>2, DebtKept, PaidKept
<1> QED
  BY <1>3, <1>4, <1>5, <1>6, <1>7 DEF IInv

\* A run that is over keeps the invariant, if it owes nothing when it says so.
LEMMA FinishStep ==
  ASSUME IInv, NEW i \in Instance, NEW how \in {"complete", "skipped", "failed"},
         Finish(i, how), UNCHANGED <<clock, status, due, up, owed, entries, edits>>,
         faults' \in Nat, how = "complete" => Due(i) = {}
  PROVE  IInv'
<1>1. run' = [run EXCEPT ![i] = NoRun] /\ outcome' = [outcome EXCEPT ![i] = how]
  BY DEF Finish
<1>2. run'[i] = NoRun /\ outcome'[i] = how
  BY <1>1 DEF IInv, TypeOK
<1>3. Debt(i)'
  BY <1>2, NoRunType DEF Debt
<1>4. Paid(i)'
  BY <1>2 DEF Paid, Due
<1>5. outcome' \in [Instance -> {"none", "complete", "skipped", "failed"}]
      /\ owed' \in [Instance -> SUBSET Task]
  BY <1>1 DEF IInv, TypeOK
<1>6. \A j \in Instance \ {i} : owed'[j] = owed[j] /\ outcome'[j] = outcome[j]
  BY <1>1 DEF IInv, TypeOK
<1> QED
  BY <1>1, <1>3, <1>4, <1>5, <1>6, NoRunType, RunStep

\* Sweeps begin with the tasks that are overdue.
LEMMA BeginStep == ASSUME IInv, NEW i \in Instance, Begin(i) PROVE IInv'
<1> DEFINE r == Local("read", clock, 0, NoTasks, 4, {})
<1>1. /\ run' = [run EXCEPT ![i] = r] /\ outcome' = [outcome EXCEPT ![i] = "none"]
      /\ owed' = [owed EXCEPT ![i] = {t \in Task : Overdue(t, clock)}]
      /\ UNCHANGED <<clock, status, due, up, entries, edits, faults>>
  BY DEF Begin
<1>2. /\ r \in RunRow /\ r.pc = "read" /\ r.now = clock /\ r.cursor = 0
      /\ r.drafted = {} /\ DOMAIN r.seen = {}
  <2>1. NoTasks \in Seen
    BY NoTasksType DEF Seen
  <2> QED
    BY <2>1, NoTasksType DEF Local, RunRow, IInv, TypeOK
<1> HIDE DEF r
<1>3. /\ outcome' \in [Instance -> {"none", "complete", "skipped", "failed"}]
      /\ owed' \in [Instance -> SUBSET Task] /\ faults' \in Nat
      /\ run'[i] = r /\ outcome'[i] = "none" /\ owed'[i] = {t \in Task : Overdue(t, clock)}
      /\ \A j \in Instance \ {i} : owed'[j] = owed[j] /\ outcome'[j] = outcome[j]
  BY <1>1 DEF IInv, TypeOK
<1>4. Debt(i)'
  <2>1. \A t \in Due(i)' : Overdue(t, clock) /\ t > 0
    <3> SUFFICES ASSUME NEW t \in Due(i)' PROVE Overdue(t, clock) /\ t > 0
      OBVIOUS
    <3>1. t \in Task /\ Overdue(t, clock)
      BY <1>3 DEF Due
    <3>2. t \in Nat /\ t # 0
      BY <3>1, SizesAssumption
    <3> QED
      BY <3>1, <3>2
  <2>2. Reachable(i)'
    BY <1>1, <1>2, <1>3, <2>1 DEF Reachable, Overdue
  <2> QED
    BY <1>2, <1>3, <2>2 DEF Debt
<1>5. Paid(i)'
  BY <1>3 DEF Paid
<1> QED
  BY <1>1, <1>2, <1>3, <1>4, <1>5, RunStep

\* What is still owed and behind the cursor is a candidate, or comes after all
\* candidates.
LEMMA ReadStep == ASSUME IInv, NEW i \in Instance, ReadCandidates(i) PROVE IInv'
<1> USE DEF IInv
<1>1. /\ TypeOK /\ run[i].pc = "read" /\ DOMAIN run[i].seen = {}
      /\ UNCHANGED <<clock, status, due, up, owed, entries, edits, faults>>
  BY DEF ReadCandidates, ReadsAfresh
<1>2. Due(i) \subseteq Behind(i)
  <2>1. Reachable(i)
    BY <1>1 DEF DebtsOK, Debt
  <2>2. Due(i) \subseteq Task
    BY <1>1 DEF Due, TypeOK
  <2> QED
    BY <1>1, <2>1, <2>2 DEF Reachable, Behind
<1>3. CASE Batch(i) = {}
  <2>1. Finish(i, "complete")
    BY <1>3 DEF ReadCandidates
  <2>2. Due(i) = {}
    <3>1. Short(Batch(i))
      BY <1>3, FS_EmptySet, SizesAssumption DEF Short
    <3> QED
      BY <1>1, <1>2, <1>3, <3>1, BatchFacts
  <2>3. faults' \in Nat
    BY <1>1 DEF TypeOK
  <2> QED
    BY <1>1, <2>1, <2>2, <2>3, FinishStep
<1>4. CASE Batch(i) # {}
  <2> DEFINE ids == Batch(i)
             seen == [t \in ids |-> status[t]]
             last == LastOf(ids)
             k == Group(seen, 1)
             r == Local("lock", run[i].now, last, seen, k, {})
  <2>1. run' = [run EXCEPT ![i] = r] /\ outcome' = outcome
    BY <1>4 DEF ReadCandidates
  <2>2. /\ ids \subseteq Behind(i) /\ Behind(i) \subseteq Task /\ last \in ids
        /\ \A t \in Behind(i) \ ids, b \in ids : b < t
        /\ Short(ids) => ids = Behind(i)
    BY <1>1, <1>4, BatchFacts
  <2>3. seen \in [ids -> Open] /\ DOMAIN seen = ids /\ \A t \in ids : seen[t] = status[t]
    BY <2>2 DEF Behind, Overdue
  <2> HIDE DEF ids, seen, last
  <2>4. k \in 1..4 /\ \A h \in 1..(k - 1), t \in DOMAIN seen : seen[t] # OpenStatuses[h]
    BY GroupSkipsNothing
  <2> HIDE DEF k
  <2>5. /\ r \in RunRow /\ r.pc = "lock" /\ r.now = run[i].now /\ r.cursor = last
        /\ r.seen = seen /\ r.next = k /\ r.drafted = {}
    <3>1. seen \in Seen
      BY <2>2, <2>3 DEF Seen
    <3> QED
      BY <1>1, <2>2, <2>4, <3>1 DEF Local, RunRow, TypeOK
  <2> HIDE DEF r
  <2>6. run'[i] = r /\ Due(i)' = Due(i)
    BY <1>1, <2>1 DEF TypeOK, Due
  <2>7. Reachable(i)'
    <3> SUFFICES ASSUME NEW t \in Due(i)
                 PROVE  /\ Overdue(t, run[i].now)
                        /\ t > last \/ t \in ids
                        /\ t \in ids => status[t] = seen[t]
      BY <1>1, <2>3, <2>5, <2>6 DEF Reachable, Overdue
    <3>1. t \in Behind(i)
      BY <1>2
    <3>2. t > last \/ t \in ids
      BY <2>2, <3>1
    <3> QED
      BY <2>3, <3>1, <3>2 DEF Behind
  <2>8. Upcoming(i)'
    <3> SUFFICES ASSUME NEW t \in ids PROVE \E g \in k..3 : seen[t] = OpenStatuses[g]
      BY <2>3, <2>5, <2>6 DEF Upcoming
    <3>1. PICK g \in 1..3 : seen[t] = OpenStatuses[g]
      BY <2>3 DEF Open
    <3>2. g \notin 1..(k - 1)
      BY <2>3, <2>4, <3>1
    <3> QED
      BY <2>4, <3>1, <3>2
  <2>9. LastHoldsAll(i)'
    BY <1>2, <2>2, <2>3, <2>5, <2>6 DEF LastHoldsAll, Short
  <2>10. Debt(i)'
    BY <2>7, <2>8, <2>9 DEF Debt
  <2>11. Paid(i)'
    BY <2>1, <2>6 DEF Paid, DebtsOK
  <2> QED
    BY <1>1, <2>1, <2>3, <2>5, <2>10, <2>11, RunStep DEF TypeOK
<1> QED
  BY <1>3, <1>4

\* Only one transaction gets the lock.
LEMMA LockStep == ASSUME IInv, NEW i \in Instance, TryLock(i) PROVE IInv'
<1> USE DEF IInv
<1>1. /\ TypeOK /\ run[i].pc = "lock" /\ run[i] \in RunRow
      /\ UNCHANGED <<clock, status, due, up, owed, entries, edits, faults>>
  BY DEF TryLock, TypeOK
<1>2. CASE LockFree(i) /\ run' = [run EXCEPT ![i].pc = "update"] /\ UNCHANGED outcome
  <2> DEFINE r == [run[i] EXCEPT !.pc = "update"]
  <2>1. run' = [run EXCEPT ![i] = r] /\ outcome' = outcome
    BY <1>2
  <2>2. /\ r \in RunRow /\ r.pc = "update" /\ r.drafted = {} /\ r.seen = run[i].seen
        /\ r.now = run[i].now /\ r.cursor = run[i].cursor /\ r.next = run[i].next
        /\ r.drafted = run[i].drafted
    BY <1>1 DEF RunRow, TypeOK
  <2> HIDE DEF r
  <2>3. run'[i] = r /\ Due(i)' = Due(i)
    BY <1>1, <2>1 DEF TypeOK, Due
  <2>4. Reachable(i) /\ Upcoming(i) /\ LastHoldsAll(i)
    BY <1>1 DEF DebtsOK, Debt
  <2>5. Reachable(i)'
    BY <1>1, <2>2, <2>3, <2>4 DEF Reachable, Overdue
  <2>6. Upcoming(i)' /\ LastHoldsAll(i)'
    BY <2>2, <2>3, <2>4 DEF Upcoming, LastHoldsAll, Short
  <2>7. Debt(i)' /\ Paid(i)'
    BY <2>1, <2>3, <2>5, <2>6 DEF Debt, Paid, DebtsOK
  <2>8. \A j \in Instance \ {i} : run[j].pc # "update"
    BY <1>2 DEF LockFree
  <2> QED
    BY <1>1, <2>1, <2>2, <2>7, <2>8, RunStep DEF TypeOK
<1>3. CASE Finish(i, "skipped")
  BY <1>1, <1>3, FinishStep DEF TypeOK
<1> QED
  BY <1>2, <1>3 DEF TryLock

\* The UPDATE of a status drafts every task owed that was read with it.
LEMMA UpdateStep == ASSUME IInv, NEW i \in Instance, UpdateStatus(i) PROVE IInv'
<1> USE DEF IInv
<1> DEFINE n == run[i].next
           seen == run[i].seen
           k == Group(seen, n + 1)
           more == Matches(i, OpenStatuses[n])
           r == [run[i] EXCEPT !.drafted = @ \cup more, !.next = k]
<1>1. /\ TypeOK /\ run[i].pc = "update" /\ run[i] \in RunRow /\ n # 4
      /\ UNCHANGED <<clock, status, due, up, outcome, owed, entries, edits, faults>>
      /\ run' = [run EXCEPT ![i] = r]
  BY DEF UpdateStatus, TypeOK
<1>2. n \in 1..3 /\ DOMAIN seen \in SUBSET Task /\ seen \in [DOMAIN seen -> Open]
  <2>1. n \in 1..4 /\ seen \in Seen
    BY <1>1 DEF RunRow
  <2> QED
    BY <1>1, <2>1, SeenType
<1>3. /\ k \in (n + 1)..4
      /\ \A h \in (n + 1)..(k - 1), t \in DOMAIN seen : seen[t] # OpenStatuses[h]
  <2>1. n + 1 \in 1..4
    BY <1>2
  <2> HIDE DEF n, seen
  <2> QED
    BY <2>1, GroupSkipsNothing
<1>4. more = {t \in DOMAIN seen : /\ seen[t] = OpenStatuses[n] /\ status[t] = OpenStatuses[n]
                                  /\ due[t] < run[i].now}
  BY DEF Matches
<1>5. k \in 1..4 /\ more \in SUBSET DOMAIN seen /\ \A t \in more : status[t] \in Open
  BY <1>2, <1>3, <1>4 DEF Open
<1> HIDE DEF n, k, more
<1>6. /\ r \in RunRow /\ r.pc = "update" /\ r.drafted = run[i].drafted \cup more
      /\ r.seen = seen /\ r.now = run[i].now /\ r.cursor = run[i].cursor /\ r.next = k
  BY <1>1, <1>2, <1>5 DEF RunRow
<1> HIDE DEF r
<1>7. run'[i] = r /\ Due(i)' = Due(i)
  BY <1>1 DEF TypeOK, Due
<1>8. Reachable(i) /\ Upcoming(i) /\ LastHoldsAll(i)
  BY <1>1 DEF DebtsOK, Debt
<1>9. Reachable(i)' /\ LastHoldsAll(i)'
  BY <1>1, <1>6, <1>7, <1>8 DEF Reachable, Overdue, LastHoldsAll, Short
<1>10. Upcoming(i)'
  <2> SUFFICES ASSUME NEW t \in Due(i) \cap DOMAIN seen, t \notin run[i].drafted \cup more
               PROVE  \E g \in k..3 : seen[t] = OpenStatuses[g]
    BY <1>6, <1>7 DEF Upcoming
  <2>1. PICK g \in n..3 : seen[t] = OpenStatuses[g]
    BY <1>8 DEF Upcoming, n
  <2>2. g # n
    <3>1. status[t] = seen[t] /\ due[t] < run[i].now
      BY <1>8 DEF Reachable, Overdue
    <3> QED
      BY <1>4, <2>1, <3>1
  <2>3. g \notin (n + 1)..(k - 1)
    BY <1>3, <2>1
  <2> QED
    BY <1>2, <1>3, <2>1, <2>2, <2>3
<1>11. Debt(i)' /\ Paid(i)'
  BY <1>1, <1>7, <1>9, <1>10 DEF Debt, Paid, DebtsOK
<1>12. r.drafted \subseteq DOMAIN r.seen /\ \A t \in r.drafted : status[t] \in Open
  BY <1>1, <1>5, <1>6 DEF TypeOK, DraftsOpen
<1>13. \A j \in Instance \ {i} : run[j].pc # "update"
  BY <1>1 DEF Mutex
<1> QED
  BY <1>1, <1>6, <1>11, <1>12, <1>13, RunStep DEF TypeOK

\* A failing run leaves nothing behind.
LEMMA FailStep == ASSUME IInv, NEW i \in Instance, Fail(i) PROVE IInv'
<1>1. /\ Finish(i, "failed") /\ faults' = faults + 1
      /\ UNCHANGED <<clock, status, due, up, owed, entries, edits>>
  BY DEF Fail
<1>2. faults' \in Nat
  BY <1>1 DEF IInv, TypeOK
<1> QED
  BY <1>1, <1>2, FinishStep

\* A committed batch has flagged all it owed; the last one leaves nothing owed.
LEMMA CommitStep == ASSUME IInv, NEW i \in Instance, CommitBatch(i) PROVE IInv'
<1> USE DEF IInv
<1> DEFINE done == run[i].drafted
<1>1. /\ TypeOK /\ run[i].pc = "update" /\ run[i].next = 4 /\ run[i] \in RunRow
      /\ status' = [t \in Task |-> IF t \in done THEN "OVERDUE" ELSE status[t]]
      /\ entries' = [t \in Task |-> IF t \in done THEN entries[t] + 1 ELSE entries[t]]
      /\ UNCHANGED <<clock, due, up, owed, edits, faults>>
  BY DEF CommitBatch, TypeOK
<1>2. \A t \in done : status[t] \in Open /\ status[t] # "OVERDUE"
  BY DEF DraftsOpen, Open, OpenStatuses
<1>3. \A j \in Instance \ {i} : run[j].pc # "update" /\ run[j].drafted = {}
  BY <1>1 DEF Mutex, TypeOK
<1>4. \A j \in Instance : /\ Due(j)' \subseteq Due(j)
                          /\ \A t \in Due(j)' : t \notin done /\ status'[t] = status[t]
  <2> SUFFICES ASSUME NEW j \in Instance, NEW t \in Due(j)'
               PROVE  t \in Due(j) /\ t \notin done /\ status'[t] = status[t]
    OBVIOUS
  <2>1. t \in owed[j] /\ t \in Task /\ status'[t] # "OVERDUE"
    BY <1>1 DEF Due, TypeOK
  <2> QED
    BY <1>1, <2>1 DEF Due
<1>5. Reachable(i) /\ Upcoming(i) /\ LastHoldsAll(i)
  BY <1>1 DEF DebtsOK, Debt
<1>6. \A t \in Due(i)' : t \notin DOMAIN run[i].seen
  <2>1. \A g \in 4..3 : FALSE
    OBVIOUS
  <2> QED
    BY <1>1, <1>4, <1>5, <2>1 DEF Upcoming
<1>7. PICK r \in RunRow :
        /\ run' = [run EXCEPT ![i] = r] /\ r.pc \in {"idle", "read"}
        /\ r.drafted = {} /\ DOMAIN r.seen = {}
        /\ r.pc = "read" => r.now = run[i].now /\ r.cursor = run[i].cursor
        /\ r.pc = "read" => outcome' = outcome
        /\ r.pc = "idle" => /\ Short(DOMAIN run[i].seen)
                            /\ outcome' = [outcome EXCEPT ![i] = "complete"]
  <2>1. CASE Short(DOMAIN run[i].seen) /\ Finish(i, "complete")
    BY <2>1, NoRunType DEF Finish
  <2>2. CASE /\ run' = [run EXCEPT ![i] = Local("read", @.now, @.cursor, NoTasks, 4, {})]
             /\ outcome' = outcome
    <3> DEFINE s == Local("read", run[i].now, run[i].cursor, NoTasks, 4, {})
    <3>1. NoTasks \in Seen
      BY NoTasksType DEF Seen
    <3>2. /\ s \in RunRow /\ s.pc = "read" /\ s.drafted = {} /\ DOMAIN s.seen = {}
          /\ s.now = run[i].now /\ s.cursor = run[i].cursor
      BY <1>1, <3>1, NoTasksType DEF Local, RunRow
    <3>3. run' = [run EXCEPT ![i] = s]
      BY <2>2
    <3> HIDE DEF s
    <3> QED
      BY <2>2, <3>2, <3>3
  <2> QED
    BY <2>1, <2>2 DEF CommitBatch
<1>8. /\ run' \in [Instance -> RunRow] /\ run'[i] = r
      /\ \A j \in Instance \ {i} : run'[j] = run[j] /\ outcome'[j] = outcome[j]
      /\ outcome' \in [Instance -> {"none", "complete", "skipped", "failed"}]
  BY <1>7 DEF TypeOK
<1>9. TypeOK'
  <2>1. status' \in [Task -> Status]
    BY <1>1 DEF TypeOK, Status
  <2>2. entries' \in [Task -> Nat]
    BY <1>1 DEF TypeOK
  <2> QED
    BY <1>1, <1>7, <1>8, <2>1, <2>2 DEF TypeOK
<1>10. Mutex' /\ ReadsAfresh'
  BY <1>7, <1>8 DEF Mutex, ReadsAfresh
<1>11. DraftsOpen'
  BY <1>3, <1>7, <1>8 DEF DraftsOpen
<1>12. FlaggedOnce'
  <2> SUFFICES ASSUME NEW t \in Task
               PROVE  entries'[t] = IF status'[t] = "OVERDUE" THEN 1 ELSE 0
    BY DEF FlaggedOnce
  <2>1. entries[t] = IF status[t] = "OVERDUE" THEN 1 ELSE 0
    BY DEF FlaggedOnce
  <2> QED
    BY <1>1, <1>2, <2>1
<1>13. DebtsOK'
  <2>1. ASSUME NEW j \in Instance \ {i} PROVE Debt(j)' /\ Paid(j)'
    <3>1. Debt(j) /\ Paid(j)
      BY DEF DebtsOK
    <3> QED
      BY <1>1, <1>4, <1>8, <3>1, DebtKept, PaidKept
  <2>2. CASE r.pc = "idle"
    <3>1. Due(i)' = {}
      BY <1>4, <1>5, <1>6, <1>7, <2>2 DEF LastHoldsAll
    <3> QED
      BY <1>8, <2>1, <2>2, <3>1 DEF DebtsOK, Debt, Paid
  <2>3. CASE r.pc = "read"
    <3>1. Paid(i)'
      BY <1>4, <1>7, <2>3 DEF Paid, DebtsOK
    <3>2. Reachable(i)'
      BY <1>1, <1>4, <1>5, <1>6, <1>7, <1>8, <2>3 DEF Reachable, Overdue
    <3> QED
      BY <1>8, <2>1, <2>3, <3>1, <3>2 DEF DebtsOK, Debt
  <2> QED
    BY <1>7, <2>2, <2>3
<1> QED
  BY <1>9, <1>10, <1>11, <1>12, <1>13

-----------------------------------------------------------------------------
(* The steps of the environment *)

\* A user's change of an unlocked task touches no draft, and nothing that is owed.
LEMMA EditStep ==
  ASSUME IInv, NEW t \in Task, Edit(t),
         status' \in [Task -> Status], due' \in [Task -> Nat], entries' \in [Task -> Nat],
         \A u \in Task \ {t} : status'[u] = status[u] /\ due'[u] = due[u] /\ entries'[u] = entries[u],
         entries'[t] = IF status'[t] = "OVERDUE" THEN 1 ELSE 0
  PROVE  IInv'
<1> USE DEF IInv
<1>1. /\ owed' = [i \in Instance |-> owed[i] \ {t}] /\ edits' = edits + 1
      /\ UNCHANGED <<clock, up, run, outcome, faults>>
      /\ \A i \in Instance : t \notin run[i].drafted
  BY DEF Edit, Locked
<1>2. TypeOK'
  BY <1>1 DEF TypeOK
<1>3. Mutex' /\ ReadsAfresh'
  BY <1>1 DEF Mutex, ReadsAfresh
<1>4. DraftsOpen'
  <2> SUFFICES ASSUME NEW i \in Instance, NEW u \in run[i].drafted PROVE status'[u] \in Open
    BY <1>1 DEF DraftsOpen
  <2>1. u \in Task \ {t}
    BY <1>1 DEF TypeOK, RunRow
  <2> QED
    BY <2>1 DEF DraftsOpen
<1>5. FlaggedOnce'
  BY DEF FlaggedOnce
<1>6. DebtsOK'
  <2> SUFFICES ASSUME NEW j \in Instance PROVE Debt(j)' /\ Paid(j)'
    BY DEF DebtsOK
  <2>1. Debt(j) /\ Paid(j) /\ run'[j] = run[j] /\ outcome'[j] = outcome[j]
    BY <1>1 DEF DebtsOK
  <2>2. \A u \in Due(j)' : u \in owed[j] /\ u \in Task \ {t} /\ status'[u] # "OVERDUE"
    BY <1>1 DEF Due, TypeOK
  <2>3. /\ Due(j)' \subseteq Due(j)
        /\ \A u \in Due(j)' : status'[u] = status[u] /\ due'[u] = due[u]
    BY <2>2 DEF Due
  <2> QED
    BY <2>1, <2>3, DebtKept, PaidKept
<1> QED
  BY <1>2, <1>3, <1>4, <1>5, <1>6

\* Users move tasks to statuses other than OVERDUE, which is not theirs to set.
LEMMA MoveStep ==
  ASSUME IInv, NEW t \in Task, NEW s \in Moves, Move(t, s) PROVE IInv'
<1>1. /\ Edit(t) /\ status' = [status EXCEPT ![t] = s] /\ entries' = [entries EXCEPT ![t] = 0]
      /\ due' = due
  BY DEF Move
<1>2. s \in Status /\ s # "OVERDUE"
  BY BoundsAssumption
<1>3. /\ status' \in [Task -> Status] /\ due' \in [Task -> Nat] /\ entries' \in [Task -> Nat]
      /\ \A u \in Task \ {t} : status'[u] = status[u] /\ due'[u] = due[u] /\ entries'[u] = entries[u]
      /\ status'[t] = s /\ entries'[t] = 0
  BY <1>1, <1>2 DEF IInv, TypeOK
<1> QED
  BY <1>1, <1>2, <1>3, EditStep

\* A new date is an edit like any other.
LEMMA RescheduleStep ==
  ASSUME IInv, NEW t \in Task, NEW d \in {0, MaxClock}, Reschedule(t, d) PROVE IInv'
<1>1. Edit(t) /\ due' = [due EXCEPT ![t] = d] /\ UNCHANGED <<status, entries>>
  BY DEF Reschedule
<1>2. d \in Nat
  BY BoundsAssumption
<1>3. /\ status' \in [Task -> Status] /\ due' \in [Task -> Nat] /\ entries' \in [Task -> Nat]
      /\ \A u \in Task \ {t} : status'[u] = status[u] /\ due'[u] = due[u] /\ entries'[u] = entries[u]
  BY <1>1, <1>2 DEF IInv, TypeOK
<1>4. entries'[t] = IF status'[t] = "OVERDUE" THEN 1 ELSE 0
  BY <1>1 DEF IInv, FlaggedOnce
<1> QED
  BY <1>1, <1>3, <1>4, EditStep

\* The clock and the scheduler touch neither tasks nor runs.
LEMMA QuietStep ==
  ASSUME IInv, UNCHANGED <<status, due, run, outcome, owed, entries, edits>>,
         clock' \in Nat, faults' \in Nat, up' \in [Instance -> {"up", "stopping", "stopped"}]
  PROVE  IInv'
<1> USE DEF IInv
<1>1. TypeOK'
  BY DEF TypeOK
<1>2. Mutex' /\ ReadsAfresh' /\ DraftsOpen' /\ FlaggedOnce'
  BY DEF Mutex, ReadsAfresh, DraftsOpen, FlaggedOnce
<1>3. DebtsOK'
  <2> SUFFICES ASSUME NEW j \in Instance PROVE Debt(j)' /\ Paid(j)'
    BY DEF DebtsOK
  <2>1. Debt(j) /\ Paid(j) /\ Due(j)' = Due(j)
    BY DEF DebtsOK, Due
  <2> QED
    BY <2>1, DebtKept, PaidKept
<1> QED
  BY <1>1, <1>2, <1>3

\* Every step keeps the invariant.
LEMMA NextIInv == IInv /\ [Next]_vars => IInv'
<1> SUFFICES ASSUME IInv, [Next]_vars PROVE IInv'
  OBVIOUS
<1>1. ASSUME NEW i \in Instance, Proceed(i) PROVE IInv'
  <2>1. CASE Begin(i)
    BY <2>1, BeginStep
  <2>2. CASE ReadCandidates(i)
    BY <2>2, ReadStep
  <2>3. CASE TryLock(i)
    BY <2>3, LockStep
  <2>4. CASE UpdateStatus(i)
    BY <2>4, UpdateStep
  <2>5. CASE CommitBatch(i)
    BY <2>5, CommitStep
  <2>6. CASE Stopped(i)
    BY <2>6, QuietStep DEF Stopped, IInv, TypeOK
  <2> QED
    BY <1>1, <2>1, <2>2, <2>3, <2>4, <2>5, <2>6 DEF Proceed
<1>2. ASSUME NEW i \in Instance, StopJobs(i) PROVE IInv'
  BY <1>2, QuietStep DEF StopJobs, IInv, TypeOK
<1>3. ASSUME NEW i \in Instance, Fail(i) PROVE IInv'
  BY <1>3, FailStep
<1>4. ASSUME NEW t \in Task, NEW s \in Moves, Move(t, s) PROVE IInv'
  BY <1>4, MoveStep
<1>5. ASSUME NEW t \in Task, NEW d \in {0, MaxClock}, Reschedule(t, d) PROVE IInv'
  BY <1>5, RescheduleStep
<1>6. CASE Tick
  BY <1>6, QuietStep DEF Tick, IInv, TypeOK
<1>7. CASE UNCHANGED vars
  BY <1>7, QuietStep DEF vars, IInv, TypeOK
<1> QED
  BY <1>1, <1>2, <1>3, <1>4, <1>5, <1>6, <1>7 DEF Next

-----------------------------------------------------------------------------
(* Theorems *)

\* The inductive invariant: mutual exclusion of transactions, and where a run will
\* still find each task it owes.
THEOREM Inductive == Spec => []IInv
<1> QED
  BY InitIInv, NextIInv, PTL DEF Spec

\* Types; candidates and flagged rows belong to a transaction in progress.
THEOREM TypeCorrect == Spec => []TypeOK
<1>1. IInv => TypeOK
  BY DEF IInv
<1> QED
  BY <1>1, Inductive, PTL

\* However many instances sweep at once, a task is flagged and logged once
\* between two moves by users.
THEOREM OncePerTask == Spec => []FlaggedOnce
<1>1. IInv => FlaggedOnce
  BY DEF IInv
<1> QED
  BY <1>1, Inductive, PTL

\* A sweep that reports completion has flagged all that was overdue when it began
\* and has not been touched since, for any number of tasks, batches and instances.
THEOREM NothingLeft == Spec => []CompleteSweep
<1>1. IInv => CompleteSweep
  <2> SUFFICES ASSUME IInv, NEW i \in Instance, outcome[i] = "complete", NEW t \in owed[i]
               PROVE  status[t] = "OVERDUE"
    BY DEF CompleteSweep
  <2> QED
    BY DEF IInv, DebtsOK, Paid, Due
<1> QED
  BY <1>1, Inductive, PTL
=============================================================================

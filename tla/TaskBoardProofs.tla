-------------------------- MODULE TaskBoardProofs --------------------------
(***************************************************************************)
(* Theorems about TaskBoard, for any users, projects, tasks and requests.   *)
(*                                                                          *)
(* None of the properties is inductive.  What closes them is what a request *)
(* in flight is known to carry (Plans): the checks it passed when it read.  *)
(***************************************************************************)
EXTENDS TaskBoard, SequenceTheorems, TLAPS

-----------------------------------------------------------------------------
(* The inductive invariant *)

StatusOnly(p) == /\ p.assignee = Keep
                 /\ p.due = Keep
                 /\ p.status \in DeveloperStatuses

Checked(p) == /\ p.status # "OVERDUE"
              /\ p.assignee \in Developers \cup {Nobody, Keep}

\* What the checks before its transaction have established of a plan.
PlanOK(w) ==
  /\ w.op \in {"update", "create"} => Checked(w.patch)
  /\ w.op = "update" /\ w.user \in Developers => StatusOnly(w.patch)
  /\ w.op = "delete" => w.user \notin Developers

Plans == \A r \in DOMAIN plan : PlanOK(plan[r])

\* A request that has not ended has left nothing behind.
Fresh == /\ DOMAIN plan \cap done = {}
         /\ DOMAIN task \subseteq SeedTask \cup done
         /\ DOMAIN project \subseteq SeedProject \cup done
         /\ \A n \in notified : n.by \in done

IInv == /\ TypeOK
        /\ Plans
        /\ Fresh
        /\ NoOrphans
        /\ CompletionInStep
        /\ TrailMatches

-----------------------------------------------------------------------------
(* Plans and bodies *)

\* The operation of a plan tells its kind.
LEMMA PlanKinds ==
  ASSUME NEW w \in Plan
  PROVE  /\ w.op = "update" => w \in UpdatePlan
         /\ w.op = "create" => w \in CreatePlan
         /\ w.op = "delete" => w \in DeletePlan
         /\ w.op = "newProject" => w \in NewProjectPlan
         /\ w.op = "transfer" => w \in TransferPlan
         /\ w.op = "drop" => w \in DropPlan
         /\ w.op = "sweep" => w \in SweepPlan
<1>1. CASE w \in UpdatePlan
  BY <1>1 DEF UpdatePlan
<1>2. CASE w \in CreatePlan
  BY <1>2 DEF CreatePlan
<1>3. CASE w \in DeletePlan
  BY <1>3 DEF DeletePlan
<1>4. CASE w \in NewProjectPlan
  BY <1>4 DEF NewProjectPlan
<1>5. CASE w \in TransferPlan
  BY <1>5 DEF TransferPlan
<1>6. CASE w \in DropPlan
  BY <1>6 DEF DropPlan
<1>7. CASE w \in SweepPlan
  BY <1>7 DEF SweepPlan
<1>8. QED
  BY <1>1, <1>2, <1>3, <1>4, <1>5, <1>6, <1>7 DEF Plan

\* The parts of a body.
LEMMA PatchParts ==
  ASSUME NEW p \in Patches
  PROVE  /\ p.status \in Status \cup {Keep}
         /\ p.due \in Dues \cup {Keep}
  BY BoundsAssumption DEF Patch

\* The row an update writes.
LEMMA PatchedType ==
  ASSUME NEW row \in TaskRow, NEW p \in Patches, NEW before \in TaskRow, Checked(p)
  PROVE  /\ Patched(row, p, before) \in TaskRow
         /\ Patched(row, p, before).project = row.project
         /\ Patched(row, p, before).status = Given(p.status, row.status)
         /\ Patched(row, p, before).assignee = Given(p.assignee, row.assignee)
         /\ Patched(row, p, before).due = Given(p.due, row.due)
         /\ Patched(row, p, before).completed
              = Completion(before.status, p.status, row.completed)
<1>1. Given(p.status, row.status) \in Status
  BY PatchParts DEF Given, TaskRow
<1>2. Given(p.assignee, row.assignee) \in Developers \cup {Nobody}
  BY DEF Checked, Given, TaskRow
<1>3. Given(p.due, row.due) \in Dues
  BY PatchParts DEF Given, TaskRow
<1>4. Completion(before.status, p.status, row.completed) \in BOOLEAN
  BY PatchParts DEF Completion, TaskRow, Status, Keep
<1>5. QED
  BY <1>1, <1>2, <1>3, <1>4 DEF Patched, TaskRow

\* The row a creation stores.
LEMMA NewTaskType ==
  ASSUME NEW p \in ProjectId, NEW body \in Patches, Checked(body)
  PROVE  /\ NewTask(p, body) \in TaskRow
         /\ NewTask(p, body).completed <=> NewTask(p, body).status = "DONE"
         /\ NewTask(p, body).status # "OVERDUE"
<1>1. Given(body.status, "TODO") \in Status \ {"OVERDUE"}
  BY PatchParts DEF Given, Status, Checked
<1>2. Given(body.assignee, Nobody) \in Developers \cup {Nobody}
  BY DEF Checked, Given
<1>3. Given(body.due, "never") \in Dues
  BY PatchParts DEF Given, Dues
<1>4. /\ Completion("TODO", body.status, FALSE) \in BOOLEAN
      /\ Completion("TODO", body.status, FALSE) <=> Given(body.status, "TODO") = "DONE"
  BY PatchParts DEF Completion, Given, Status, Keep
<1>5. QED
  BY <1>1, <1>2, <1>3, <1>4 DEF NewTask, TaskRow

\* Every status there is, spelled out.
LEMMA CompletionFollows ==
  ASSUME NEW before \in Status, NEW after \in Status \cup {Keep},
         NEW current \in BOOLEAN, current <=> before = "DONE"
  PROVE  Completion(before, after, current) <=> Given(after, before) = "DONE"
  BY DEF Completion, Given, Status, Keep

\* The entries of an update.
LEMMA MoveEntriesType ==
  ASSUME NEW u \in User, NEW p \in Patches, NEW before \in TaskRow
  PROVE  MoveEntries(u, p, before) \in Seq(Entry)
<1>1. CASE p.status \in {Keep, before.status}
  BY <1>1 DEF MoveEntries
<1>2. CASE p.status \notin {Keep, before.status}
  <2> DEFINE e == [action |-> "TASK_STATUS_CHANGED", by |-> u, from |-> before.status,
                   to |-> p.status]
  <2>1. e \in Entry
    BY <1>2, PatchParts DEF Entry, TaskRow
  <2>2. <<e>> \in Seq(Entry)
    BY <2>1
  <2>3. QED
    BY <1>2, <2>2 DEF MoveEntries
<1>3. QED
  BY <1>1, <1>2

-----------------------------------------------------------------------------
(* Trails *)

\* The trail of a task that has status s.
Trail(trail, s) == /\ trail # <<>>
                   /\ trail[Len(trail)].to = s
                   /\ \A i \in 2..Len(trail) : trail[i].from = trail[i-1].to

\* An entry that starts where the trail ends continues it.
LEMMA TrailGrows ==
  ASSUME NEW trail \in Seq(Entry), NEW s, Trail(trail, s),
         NEW e \in Entry, e.from = s
  PROVE  /\ Append(trail, e) \in Seq(Entry)
         /\ Trail(Append(trail, e), e.to)
<1> DEFINE new == Append(trail, e)
<1>1. /\ new \in Seq(Entry)
      /\ Len(new) = Len(trail) + 1
      /\ Len(trail) \in Nat
      /\ \A i \in 1..Len(trail) : new[i] = trail[i]
      /\ new[Len(trail) + 1] = e
  BY AppendProperties, LenProperties
<1>2. Len(trail) # 0
  BY EmptySeq DEF Trail
<1>3. new # <<>> /\ new[Len(new)].to = e.to
  BY <1>1, <1>2, EmptySeq
<1>4. ASSUME NEW i \in 2..Len(new) PROVE new[i].from = new[i-1].to
  <2>1. CASE i = Len(trail) + 1
    <3>1. i - 1 \in 1..Len(trail)
      BY <2>1, <1>1, <1>2
    <3>2. new[i-1] = trail[Len(trail)]
      BY <3>1, <2>1, <1>1
    <3>3. QED
      BY <3>2, <2>1, <1>1 DEF Trail
  <2>2. CASE i # Len(trail) + 1
    <3>1. i \in 2..Len(trail) /\ i \in 1..Len(trail) /\ i - 1 \in 1..Len(trail)
      BY <2>2, <1>1
    <3>2. new[i] = trail[i] /\ new[i-1] = trail[i-1]
      BY <3>1, <1>1
    <3>3. QED
      BY <3>1, <3>2 DEF Trail
  <2>3. QED
    BY <2>1, <2>2
<1>5. QED
  BY <1>1, <1>3, <1>4 DEF Trail

\* An update of the row it has read continues the trail to the new status.
LEMMA UpdateTrail ==
  ASSUME NEW trail \in Seq(Entry), NEW u \in User, NEW p \in Patches,
         NEW before \in TaskRow, Trail(trail, before.status)
  PROVE  Trail(trail \o MoveEntries(u, p, before), Given(p.status, before.status))
<1>1. CASE p.status \in {Keep, before.status}
  <2>1. MoveEntries(u, p, before) = <<>>
    BY <1>1 DEF MoveEntries
  <2>2. trail \o <<>> = trail
    BY ConcatEmptySeq
  <2>3. Given(p.status, before.status) = before.status
    BY <1>1 DEF Given
  <2>4. QED
    BY <2>1, <2>2, <2>3
<1>2. CASE p.status \notin {Keep, before.status}
  <2> DEFINE e == [action |-> "TASK_STATUS_CHANGED", by |-> u, from |-> before.status,
                   to |-> p.status]
  <2>1. e \in Entry
    BY <1>2, PatchParts DEF Entry, TaskRow
  <2>2. trail \o <<e>> = Append(trail, e)
    BY <2>1, AppendIsConcat
  <2>3. Trail(Append(trail, e), p.status)
    BY <2>1, TrailGrows
  <2>4. QED
    BY <1>2, <2>2, <2>3 DEF MoveEntries, Given
<1>3. QED
  BY <1>1, <1>2

\* TrailMatches, task by task.
LEMMA TrailsOf == TrailMatches <=> \A t \in DOMAIN task \ raced : Trail(moves[t], task[t].status)
  BY DEF TrailMatches, Trail

-----------------------------------------------------------------------------
(* Both halves of every request *)

\* A handler that enters its transaction with a well-formed plan keeps IInv.
LEMMA BeginKeeps ==
  ASSUME IInv, NEW r \in Request, Idle(r), NEW w \in Plan, PlanOK(w), Begin(r, w)
  PROVE  IInv'
<1>1. /\ DOMAIN plan' = DOMAIN plan \cup {r}
      /\ plan'[r] = w
      /\ \A q \in DOMAIN plan : q # r => plan'[q] = plan[q]
      /\ UNCHANGED <<active, project, task, moves, notified, done, raced>>
  BY DEF Begin
<1>2. TypeOK'
  BY <1>1 DEF IInv, TypeOK
<1>3. Plans'
  BY <1>1 DEF IInv, Plans
<1>4. Fresh'
  BY <1>1 DEF IInv, Fresh, Idle
<1>5. NoOrphans' /\ CompletionInStep' /\ TrailMatches'
  BY <1>1 DEF IInv, NoOrphans, CompletionInStep, TrailMatches
<1>6. QED
  BY <1>2, <1>3, <1>4, <1>5 DEF IInv

\* What ending a request does, whatever its transaction wrote.
LEMMA EndKeeps ==
  ASSUME IInv, NEW r \in Request, r \in DOMAIN plan, End(r)
  PROVE  /\ active' \in [User -> BOOLEAN]
         /\ DOMAIN plan' \subseteq Request
         /\ \A q \in DOMAIN plan' : plan'[q] \in Plan
         /\ done' \subseteq Request
         /\ Plans'
         /\ DOMAIN plan' \cap done' = {}
         /\ done' = done \cup {r}
<1>1. /\ DOMAIN plan' = DOMAIN plan \ {r}
      /\ \A q \in DOMAIN plan' : plan'[q] = plan[q]
      /\ done' = done \cup {r}
      /\ active' = active
  BY DEF End
<1>2. QED
  BY <1>1 DEF IInv, TypeOK, Plans, Fresh

\* A request that writes nothing.
LEMMA NothingWritten ==
  ASSUME IInv, NEW r \in Request, r \in DOMAIN plan, End(r),
         UNCHANGED <<project, task, moves, notified, raced>>
  PROVE  IInv'
<1>1. TypeOK'
  BY EndKeeps DEF IInv, TypeOK
<1>2. Fresh'
  BY EndKeeps DEF IInv, Fresh
<1>3. NoOrphans' /\ CompletionInStep' /\ TrailMatches'
  BY DEF IInv, NoOrphans, CompletionInStep, TrailMatches
<1>4. QED
  BY <1>1, <1>2, <1>3, EndKeeps DEF IInv

-----------------------------------------------------------------------------
(* What the checks of a request establish *)

\* A developer manages nothing.
LEMMA DevelopersDoNotManage ==
  ASSUME NEW u \in Developers, NEW p
  PROVE  ~ CanManageProject(u, p)
  BY RolesAssumption DEF CanManageProject

\* The two forms of the rule agree: a row is in a user's scope exactly when the
\* check gives that user some access to it.
THEOREM ScopeIsAccess ==
  ASSUME NEW u \in User, NEW t, NEW p
  PROVE  InTaskScope(u, t, p) <=> TaskAccess(u, t, p) # "none"
<1>1. CASE CanManageProject(u, p)
  BY <1>1 DEF TaskAccess, InTaskScope, CanManageProject
<1>2. CASE ~ CanManageProject(u, p)
  BY <1>2 DEF TaskAccess, InTaskScope, CanManageProject
<1>3. QED
  BY <1>1, <1>2

\* A body that its sender may send and whose assignee was accepted satisfies
\* Checked, and a developer's is a change of status only.
LEMMA MaySendChecked ==
  ASSUME NEW u \in User, NEW t, NEW p, NEW body \in Patches,
         MaySend(TaskAccess(u, t, p), body), Assignable(body.assignee)
  PROVE  /\ Checked(body)
         /\ u \in Developers => StatusOnly(body)
<1>1. body.assignee \in Developers \cup {Nobody, Keep}
  BY DEF Assignable
<1>2. CASE CanManageProject(u, p)
  <2>1. body.status # "OVERDUE"
    BY <1>2 DEF MaySend, TaskAccess, DeveloperStatuses
  <2>2. u \notin Developers
    BY <1>2, DevelopersDoNotManage
  <2>3. QED
    BY <1>1, <2>1, <2>2 DEF Checked
<1>3. CASE ~ CanManageProject(u, p)
  <2>1. StatusOnly(body)
    BY <1>3 DEF MaySend, TaskAccess, StatusOnly
  <2>2. QED
    BY <1>1, <2>1 DEF Checked, StatusOnly, DeveloperStatuses
<1>4. QED
  BY <1>2, <1>3

\* Reading for an update, deletion or creation keeps IInv.
LEMMA ReadInv ==
  ASSUME IInv, NEW r \in Request, NEW u \in User, Read(r, u)
  PROVE  IInv'
<1>1. ASSUME NEW t \in DOMAIN task, NEW p \in Patches, ReadForUpdate(r, u, t, p)
      PROVE  IInv'
  <2> DEFINE w == [op |-> "update", user |-> u, task |-> t, before |-> task[t], patch |-> p]
  <2>1. task[t] \in TaskRow /\ t \in TaskId
    BY DEF IInv, TypeOK
  <2>2. w \in Plan
    BY <2>1 DEF Plan, UpdatePlan
  <2>3. Checked(p) /\ (u \in Developers => StatusOnly(p))
    BY <1>1, MaySendChecked DEF ReadForUpdate, Access
  <2>4. PlanOK(w)
    BY <2>3 DEF PlanOK
  <2>5. Idle(r) /\ Begin(r, w)
    BY <1>1 DEF ReadForUpdate
  <2> HIDE DEF w
  <2>6. QED
    BY <2>2, <2>4, <2>5, BeginKeeps
<1>2. ASSUME NEW t \in DOMAIN task, ReadForDelete(r, u, t)
      PROVE  IInv'
  <2> DEFINE w == [op |-> "delete", user |-> u, task |-> t]
  <2>1. w \in Plan
    BY DEF Plan, DeletePlan, IInv, TypeOK
  <2>2. u \notin Developers
    BY <1>2, DevelopersDoNotManage DEF ReadForDelete, Access, TaskAccess
  <2>3. PlanOK(w)
    BY <2>2 DEF PlanOK
  <2>4. Idle(r) /\ Begin(r, w)
    BY <1>2 DEF ReadForDelete
  <2> HIDE DEF w
  <2>5. QED
    BY <2>1, <2>3, <2>4, BeginKeeps
<1>3. ASSUME NEW p \in DOMAIN project, NEW b \in Patches, ReadForCreate(r, u, p, b)
      PROVE  IInv'
  <2> DEFINE w == [op |-> "create", user |-> u, project |-> p, patch |-> b]
  <2>1. w \in Plan
    BY DEF Plan, CreatePlan, IInv, TypeOK
  <2>2. PlanOK(w)
    BY <1>3 DEF PlanOK, ReadForCreate, Checked, Assignable
  <2>3. Idle(r) /\ Begin(r, w)
    BY <1>3 DEF ReadForCreate
  <2> HIDE DEF w
  <2>4. QED
    BY <2>1, <2>2, <2>3, BeginKeeps
<1>4. ASSUME NEW p \in DOMAIN project, NEW o \in Managers, ReadForTransfer(r, u, p, o)
      PROVE  IInv'
  <2> DEFINE w == [op |-> "transfer", user |-> u, project |-> p, owner |-> o]
  <2>1. w \in Plan
    BY DEF Plan, TransferPlan, IInv, TypeOK
  <2>2. PlanOK(w)
    BY DEF PlanOK
  <2>3. Idle(r) /\ Begin(r, w)
    BY <1>4 DEF ReadForTransfer
  <2> HIDE DEF w
  <2>4. QED
    BY <2>1, <2>2, <2>3, BeginKeeps
<1>5. ASSUME NEW p \in DOMAIN project, ReadForDrop(r, u, p)
      PROVE  IInv'
  <2> DEFINE w == [op |-> "drop", user |-> u, project |-> p]
  <2>1. w \in Plan
    BY DEF Plan, DropPlan, IInv, TypeOK
  <2>2. PlanOK(w)
    BY DEF PlanOK
  <2>3. Idle(r) /\ Begin(r, w)
    BY <1>5 DEF ReadForDrop
  <2> HIDE DEF w
  <2>4. QED
    BY <2>1, <2>2, <2>3, BeginKeeps
<1>6. ASSUME NEW o \in Managers, ReadForNewProject(r, u, o)
      PROVE  IInv'
  <2> DEFINE w == [op |-> "newProject", user |-> u, owner |-> o]
  <2>1. w \in Plan
    BY DEF Plan, NewProjectPlan
  <2>2. PlanOK(w)
    BY DEF PlanOK
  <2>3. Idle(r) /\ Begin(r, w)
    BY <1>6 DEF ReadForNewProject
  <2> HIDE DEF w
  <2>4. QED
    BY <2>1, <2>2, <2>3, BeginKeeps
<1>7. QED
  BY <1>1, <1>2, <1>3, <1>4, <1>5, <1>6 DEF Read

\* Reading the candidates of a sweep keeps IInv.
LEMMA CandidatesInv ==
  ASSUME IInv, NEW r \in Request, ReadCandidates(r)
  PROVE  IInv'
<1> DEFINE S == {c \in DOMAIN task : Overdue(c)}
           f == [t \in S |-> task[t].status]
           w == [op |-> "sweep", seen |-> f]
<1>1. S \in SUBSET TaskId /\ f \in [S -> OpenStatuses]
  BY DEF IInv, TypeOK, Overdue
<1>2. f \in UNION {[T -> OpenStatuses] : T \in SUBSET TaskId}
  BY <1>1
<1>3. w \in Plan
  BY <1>2 DEF Plan, SweepPlan
<1>4. PlanOK(w)
  BY DEF PlanOK
<1>5. Idle(r) /\ Begin(r, w)
  BY DEF ReadCandidates
<1> HIDE DEF w
<1>6. QED
  BY <1>3, <1>4, <1>5, BeginKeeps

-----------------------------------------------------------------------------
(* PATCH /api/tasks/:taskId *)

\* What an update that finds its row in scope does, one value at a time.
LEMMA UpdateEffect ==
  ASSUME IInv, NEW r \in Request, Carries(r, "update"), NEW w, w = plan[r],
         NEW t, t = w.task, TaskWritable(w.user, t),
         task' = [task EXCEPT ![t] = Patched(@, w.patch, w.before)],
         moves' = [moves EXCEPT ![t] = @ \o MoveEntries(w.user, w.patch, w.before)],
         raced' = IF task[t] = w.before THEN raced ELSE raced \cup {t}
  PROVE  /\ w \in UpdatePlan /\ Checked(w.patch) /\ w.patch \in Patches
         /\ w.user \in User /\ w.before \in TaskRow
         /\ t \in DOMAIN task /\ t \in TaskId /\ task[t] \in TaskRow
         /\ DOMAIN task' = DOMAIN task
         /\ \A x \in DOMAIN task : x # t => task'[x] = task[x]
         /\ task'[t] = Patched(task[t], w.patch, w.before)
         /\ task'[t] \in TaskRow
         /\ moves' \in [TaskId -> Seq(Entry)]
         /\ \A x \in TaskId : x # t => moves'[x] = moves[x]
         /\ moves'[t] = moves[t] \o MoveEntries(w.user, w.patch, w.before)
         /\ raced \subseteq raced'
         /\ t \notin raced' => t \notin raced /\ task[t] = w.before
<1>1. /\ w \in UpdatePlan
      /\ PlanOK(w) /\ w.op = "update"
  BY PlanKinds DEF Carries, IInv, TypeOK, Plans
<1>2. /\ Checked(w.patch)
      /\ w.patch \in Patches /\ w.user \in User /\ w.before \in TaskRow
  BY <1>1 DEF PlanOK, UpdatePlan
<1>3. t \in DOMAIN task /\ t \in TaskId /\ task[t] \in TaskRow
  BY DEF IInv, TypeOK, TaskWritable
<1>4. /\ DOMAIN task' = DOMAIN task
      /\ \A x \in DOMAIN task : x # t => task'[x] = task[x]
      /\ task'[t] = Patched(task[t], w.patch, w.before)
  BY <1>3
<1>5. task'[t] \in TaskRow
  BY <1>2, <1>3, <1>4, PatchedType
<1>6. moves \in [TaskId -> Seq(Entry)]
  BY DEF IInv, TypeOK
<1>7. moves[t] \o MoveEntries(w.user, w.patch, w.before) \in Seq(Entry)
  BY <1>2, <1>3, <1>6, MoveEntriesType, ConcatProperties
<1>8. /\ moves' \in [TaskId -> Seq(Entry)]
      /\ \A x \in TaskId : x # t => moves'[x] = moves[x]
      /\ moves'[t] = moves[t] \o MoveEntries(w.user, w.patch, w.before)
  BY <1>3, <1>6, <1>7
<1>9. QED
  BY <1>1, <1>2, <1>3, <1>4, <1>5, <1>8

\* The transaction of PATCH /api/tasks/:id keeps IInv.
LEMMA UpdateInv ==
  ASSUME IInv, NEW r \in Request, CommitUpdate(r)
  PROVE  IInv'
<1> DEFINE refused == /\ ~ TaskWritable(plan[r].user, plan[r].task)
                      /\ UNCHANGED <<task, moves, notified, raced>>
<1>1. r \in DOMAIN plan /\ End(r) /\ UNCHANGED project
  BY DEF CommitUpdate, Carries
<1>2. CASE refused
  BY <1>1, <1>2, NothingWritten
<1>3. CASE ~ refused
  <2>1. PICK w : w = plan[r]
    OBVIOUS
  <2>2. PICK t : t = w.task
    OBVIOUS
  <2>3. /\ TaskWritable(w.user, t)
        /\ task' = [task EXCEPT ![t] = Patched(@, w.patch, w.before)]
        /\ moves' = [moves EXCEPT ![t] = @ \o MoveEntries(w.user, w.patch, w.before)]
        /\ notified' = notified \cup AssignNotices(r, t, w.patch, w.before)
                                \cup ReviewNotices(r, w.user, t, w.patch, w.before)
        /\ raced' = IF task[t] = w.before THEN raced ELSE raced \cup {t}
    BY <1>3, <2>1, <2>2 DEF CommitUpdate
  <2>4. Carries(r, "update")
    BY DEF CommitUpdate
  <2> DEFINE Effect ==
         /\ w \in UpdatePlan /\ Checked(w.patch) /\ w.patch \in Patches
         /\ w.user \in User /\ w.before \in TaskRow
         /\ t \in DOMAIN task /\ t \in TaskId /\ task[t] \in TaskRow
         /\ DOMAIN task' = DOMAIN task
         /\ \A x \in DOMAIN task : x # t => task'[x] = task[x]
         /\ task'[t] = Patched(task[t], w.patch, w.before)
         /\ task'[t] \in TaskRow
         /\ moves' \in [TaskId -> Seq(Entry)]
         /\ \A x \in TaskId : x # t => moves'[x] = moves[x]
         /\ moves'[t] = moves[t] \o MoveEntries(w.user, w.patch, w.before)
         /\ raced \subseteq raced'
         /\ t \notin raced' => t \notin raced /\ task[t] = w.before
  <2>5. Effect
    BY <2>1, <2>2, <2>3, <2>4, UpdateEffect, ZenonT(40)
  <2>6. ASSUME NEW n \in notified' \ notified
        PROVE  n \in Notice /\ n.task = t /\ n.by = r
    <3>1. ProjectOf(t).owner \in User
      BY <2>5 DEF IInv, TypeOK, NoOrphans, ProjectOf, ProjectRow, User
    <3>2. CASE n \in AssignNotices(r, t, w.patch, w.before)
      BY <3>2, <2>5 DEF AssignNotices, Notice, User
    <3>3. CASE n \in ReviewNotices(r, w.user, t, w.patch, w.before)
      BY <3>1, <3>3, <2>5 DEF ReviewNotices, Notice
    <3>4. QED
      BY <2>3, <3>2, <3>3
  <2>7. TypeOK'
    <3>1. DOMAIN task' \subseteq TaskId /\ task' \in [DOMAIN task' -> TaskRow]
      <4>1. \A x \in DOMAIN task' : task'[x] \in TaskRow
        BY <2>5 DEF IInv, TypeOK
      <4>2. task' = [x \in DOMAIN task' |-> task'[x]]
        BY <2>3
      <4>3. QED
        BY <4>1, <4>2, <2>5 DEF IInv, TypeOK
    <3>2. notified' \subseteq Notice
      BY <2>6 DEF IInv, TypeOK
    <3>3. raced' \subseteq TaskId
      BY <2>3, <2>5 DEF IInv, TypeOK
    <3>4. QED
      BY <1>1, <2>5, <3>1, <3>2, <3>3, EndKeeps DEF IInv, TypeOK
  <2>8. Fresh'
    BY <1>1, <2>5, <2>6, EndKeeps DEF IInv, Fresh
  <2>9. NoOrphans'
    <3>1. \A x \in DOMAIN task' : task'[x].project = task[x].project
      BY <2>5, PatchedType
    <3>2. QED
      BY <1>1, <2>5, <2>6, <3>1 DEF IInv, NoOrphans
  <2>10. CompletionInStep'
    <3> SUFFICES ASSUME NEW x \in DOMAIN task', x \notin raced'
                 PROVE  task'[x].completed <=> task'[x].status = "DONE"
      BY DEF CompletionInStep
    <3>1. CASE x # t
      BY <3>1, <2>5 DEF IInv, CompletionInStep
    <3>2. CASE x = t
      <4>1. /\ task[t] = w.before
            /\ w.before.completed \in BOOLEAN /\ w.before.status \in Status
            /\ w.before.completed <=> w.before.status = "DONE"
        BY <3>2, <2>5 DEF IInv, CompletionInStep, TaskRow
      <4>2. /\ task'[t].completed = Completion(w.before.status, w.patch.status, w.before.completed)
            /\ task'[t].status = Given(w.patch.status, w.before.status)
        BY <4>1, <2>5, PatchedType
      <4>3. QED
        BY <3>2, <4>1, <4>2, <2>5, PatchParts, CompletionFollows
    <3>3. QED
      BY <3>1, <3>2
  <2>11. TrailMatches'
    <3>1. ASSUME NEW x \in DOMAIN task', x \notin raced'
          PROVE  Trail(moves'[x], task'[x].status)
      <4>1. CASE x # t
        <5>1. x \in DOMAIN task \ raced /\ x \in TaskId
          BY <3>1, <2>5 DEF IInv, TypeOK
        <5>2. Trail(moves[x], task[x].status)
          BY <5>1, TrailsOf DEF IInv
        <5>3. moves'[x] = moves[x] /\ task'[x] = task[x]
          BY <4>1, <5>1, <2>5
        <5>4. QED
          BY <5>2, <5>3
      <4>2. CASE x = t
        <5>1. task[t] = w.before /\ Trail(moves[t], w.before.status)
          BY <4>2, <2>5, <3>1, TrailsOf DEF IInv
        <5>2. moves[t] \in Seq(Entry)
          BY <2>5 DEF IInv, TypeOK
        <5>3. task'[t].status = Given(w.patch.status, w.before.status)
          BY <5>1, <2>5, PatchedType
        <5>4. Trail(moves'[t], Given(w.patch.status, w.before.status))
          BY <5>1, <5>2, <2>5, UpdateTrail
        <5>5. QED
          BY <4>2, <5>3, <5>4
      <4>3. QED
        BY <4>1, <4>2
    <3>2. QED
      BY <3>1 DEF TrailMatches, Trail
  <2>12. QED
    BY <1>1, <2>7, <2>8, <2>9, <2>10, <2>11, EndKeeps DEF IInv
<1>4. QED
  BY <1>2, <1>3

-----------------------------------------------------------------------------
(* POST /api/projects/:projectId/tasks *)

\* What the transaction of POST /api/tasks does to the tables, row by row.
LEMMA CreateEffect ==
  ASSUME IInv, NEW r \in Request, CommitCreate(r), NEW w, w = plan[r],
         ProjectFound(w.project)
  PROVE  /\ w \in CreatePlan
         /\ r \in TaskId /\ r \notin DOMAIN task
         /\ DOMAIN task' = DOMAIN task \cup {r}
         /\ \A x \in DOMAIN task : task'[x] = task[x]
         /\ task' = [x \in DOMAIN task' |-> task'[x]]
         /\ task'[r] \in TaskRow
         /\ task'[r].project = w.project /\ w.project \in DOMAIN project
         /\ task'[r].completed <=> task'[r].status = "DONE"
         /\ task'[r].status # "OVERDUE"
         /\ moves' \in [TaskId -> Seq(Entry)]
         /\ \A x \in TaskId : x # r => moves'[x] = moves[x]
         /\ Trail(moves'[r], task'[r].status)
         /\ notified' = notified \cup {[to |-> d, type |-> "TASK_ASSIGNED", task |-> r, by |-> r] :
                                         d \in {task'[r].assignee} \cap Developers}
<1>1. w \in CreatePlan /\ PlanOK(w) /\ w.op = "create"
  BY PlanKinds DEF CommitCreate, Carries, IInv, TypeOK, Plans
<1>2. PICK row : row = NewTask(w.project, w.patch)
  OBVIOUS
<1>3. /\ row \in TaskRow
      /\ row.completed <=> row.status = "DONE"
      /\ row.status # "OVERDUE"
  BY <1>1, <1>2, NewTaskType DEF CreatePlan, PlanOK
<1>4. row.project = w.project /\ w.project \in DOMAIN project
  BY <1>2 DEF NewTask, ProjectFound
<1>5. PICK e : e = [action |-> "TASK_CREATED", by |-> w.user,
                    from |-> row.status, to |-> row.status]
  OBVIOUS
<1>6. /\ task' = Write(task, r, row)
      /\ moves' = [moves EXCEPT ![r] = <<e>>]
      /\ notified' = notified \cup {[to |-> d, type |-> "TASK_ASSIGNED", task |-> r, by |-> r] :
                                      d \in {row.assignee} \cap Developers}
  BY <1>2, <1>5 DEF CommitCreate
<1>7. r \in TaskId /\ r \notin DOMAIN task
  BY IdsAssumption DEF TaskId, IInv, Fresh, CommitCreate, Carries
<1>8. e \in Entry /\ <<e>> \in Seq(Entry)
  BY <1>1, <1>3, <1>5 DEF Entry, TaskRow, CreatePlan
<1>9. Trail(<<e>>, row.status)
  BY <1>5, <1>8 DEF Trail
<1>10. /\ DOMAIN task' = DOMAIN task \cup {r}
       /\ \A x \in DOMAIN task : task'[x] = task[x]
       /\ task' = [x \in DOMAIN task' |-> task'[x]]
       /\ task'[r] = row
  BY <1>6, <1>7 DEF Write
<1>11. /\ moves' \in [TaskId -> Seq(Entry)]
       /\ \A x \in TaskId : x # r => moves'[x] = moves[x]
       /\ moves'[r] = <<e>>
  BY <1>6, <1>7, <1>8 DEF IInv, TypeOK
<1>12. QED
  BY <1>1, <1>3, <1>4, <1>6, <1>7, <1>9, <1>10, <1>11

\* The transaction of POST /api/tasks keeps IInv.
LEMMA CreateInv ==
  ASSUME IInv, NEW r \in Request, CommitCreate(r)
  PROVE  IInv'
<1>1. r \in DOMAIN plan /\ End(r) /\ UNCHANGED <<project, raced>>
  BY DEF CommitCreate, Carries
<1>2. CASE ~ ProjectFound(plan[r].project)
  <2>1. UNCHANGED <<task, moves, notified>>
    BY <1>2 DEF CommitCreate
  <2>2. QED
    BY <1>1, <2>1, NothingWritten
<1>3. CASE ProjectFound(plan[r].project)
  <2>1. PICK w : w = plan[r]
    OBVIOUS
  <2> DEFINE Effect ==
         /\ w \in CreatePlan
         /\ r \in TaskId /\ r \notin DOMAIN task
         /\ DOMAIN task' = DOMAIN task \cup {r}
         /\ \A x \in DOMAIN task : task'[x] = task[x]
         /\ task' = [x \in DOMAIN task' |-> task'[x]]
         /\ task'[r] \in TaskRow
         /\ task'[r].project = w.project /\ w.project \in DOMAIN project
         /\ task'[r].completed <=> task'[r].status = "DONE"
         /\ task'[r].status # "OVERDUE"
         /\ moves' \in [TaskId -> Seq(Entry)]
         /\ \A x \in TaskId : x # r => moves'[x] = moves[x]
         /\ Trail(moves'[r], task'[r].status)
         /\ notified' = notified \cup {[to |-> d, type |-> "TASK_ASSIGNED", task |-> r, by |-> r] :
                                         d \in {task'[r].assignee} \cap Developers}
  <2>2. Effect
    BY <1>3, <2>1, CreateEffect
  <2>3. ASSUME NEW n \in notified' \ notified
        PROVE  n \in Notice /\ n.task = r /\ n.by = r
    BY <2>2 DEF Notice, User
  <2>4. TypeOK'
    <3>1. DOMAIN task' \subseteq TaskId /\ task' \in [DOMAIN task' -> TaskRow]
      <4>1. \A x \in DOMAIN task' : task'[x] \in TaskRow
        BY <2>2 DEF IInv, TypeOK
      <4>2. QED
        BY <4>1, <2>2 DEF IInv, TypeOK
    <3>2. notified' \subseteq Notice
      BY <2>3 DEF IInv, TypeOK
    <3>3. QED
      BY <1>1, <2>2, <3>1, <3>2, EndKeeps DEF IInv, TypeOK
  <2>5. Fresh'
    BY <1>1, <2>2, <2>3, EndKeeps DEF IInv, Fresh
  <2>6. NoOrphans'
    BY <1>1, <2>2, <2>3 DEF IInv, NoOrphans
  <2>7. CompletionInStep'
    BY <1>1, <2>2 DEF IInv, CompletionInStep
  <2>8. TrailMatches'
    <3>1. ASSUME NEW x \in DOMAIN task', x \notin raced'
          PROVE  Trail(moves'[x], task'[x].status)
      <4>1. CASE x # r
        <5>1. x \in DOMAIN task \ raced /\ x \in TaskId
          BY <1>1, <3>1, <4>1, <2>2 DEF IInv, TypeOK
        <5>2. Trail(moves[x], task[x].status)
          BY <5>1, TrailsOf DEF IInv
        <5>3. QED
          BY <4>1, <5>1, <5>2, <2>2
      <4>2. CASE x = r
        BY <4>2, <2>2
      <4>3. QED
        BY <4>1, <4>2
    <3>2. QED
      BY <3>1 DEF TrailMatches, Trail
  <2>9. QED
    BY <1>1, <2>4, <2>5, <2>6, <2>7, <2>8, EndKeeps DEF IInv
<1>4. QED
  BY <1>2, <1>3

-----------------------------------------------------------------------------
(* Deletions: rows disappear, and the notifications about them *)

\* Deleting projects P and tasks T, with the notifications of T, keeps IInv when
\* every task left has its project.
LEMMA DropRows ==
  ASSUME IInv, NEW r \in Request, r \in DOMAIN plan, End(r),
         NEW P, NEW T, \A t \in DOMAIN task \ T : task[t].project \notin P,
         project' = Without(project, P),
         task' = Without(task, T),
         notified' = {n \in notified : n.task \notin T},
         UNCHANGED <<moves, raced>>
  PROVE  IInv'
<1>1. /\ DOMAIN task' = DOMAIN task \ T
      /\ \A t \in DOMAIN task' : task'[t] = task[t]
      /\ task' = [t \in DOMAIN task' |-> task'[t]]
  BY DEF Without
<1>2. /\ DOMAIN project' = DOMAIN project \ P
      /\ \A p \in DOMAIN project' : project'[p] = project[p]
      /\ project' = [p \in DOMAIN project' |-> project'[p]]
  BY DEF Without
<1>3. TypeOK'
  <2>1. DOMAIN task' \subseteq TaskId /\ task' \in [DOMAIN task' -> TaskRow]
    <3>1. \A t \in DOMAIN task' : task'[t] \in TaskRow
      BY <1>1 DEF IInv, TypeOK
    <3>2. QED
      BY <1>1, <3>1 DEF IInv, TypeOK
  <2>2. DOMAIN project' \subseteq ProjectId /\ project' \in [DOMAIN project' -> ProjectRow]
    <3>1. \A p \in DOMAIN project' : project'[p] \in ProjectRow
      BY <1>2 DEF IInv, TypeOK
    <3>2. QED
      BY <1>2, <3>1 DEF IInv, TypeOK
  <2>3. QED
    BY <2>1, <2>2, EndKeeps DEF IInv, TypeOK
<1>4. Fresh'
  BY <1>1, <1>2, EndKeeps DEF IInv, Fresh
<1>5. NoOrphans'
  BY <1>1, <1>2 DEF IInv, NoOrphans
<1>6. CompletionInStep'
  BY <1>1 DEF IInv, CompletionInStep
<1>7. TrailMatches'
  <2>1. \A t \in DOMAIN task' \ raced' : Trail(moves'[t], task'[t].status)
    BY <1>1, TrailsOf DEF IInv
  <2>2. QED
    BY <2>1 DEF TrailMatches, Trail
<1>8. QED
  BY <1>3, <1>4, <1>5, <1>6, <1>7, EndKeeps DEF IInv

\* A deletion of no project leaves the projects as they were.
LEMMA WithoutNothing ==
  ASSUME TypeOK
  PROVE  project = Without(project, {})
  BY DEF TypeOK, Without

\* The transaction of DELETE /api/tasks/:id keeps IInv.
LEMMA DeleteInv ==
  ASSUME IInv, NEW r \in Request, CommitDelete(r)
  PROVE  IInv'
<1>1. r \in DOMAIN plan /\ End(r) /\ UNCHANGED <<project, moves, raced>>
  BY DEF CommitDelete, Carries
<1>2. PICK t : t = plan[r].task
  OBVIOUS
<1>3. CASE UNCHANGED <<task, notified>>
  BY <1>1, <1>3, NothingWritten
<1>4. CASE ~ UNCHANGED <<task, notified>>
  <2>1. task' = Without(task, {t}) /\ notified' = {n \in notified : n.task # t}
    BY <1>2, <1>4 DEF CommitDelete
  <2>2. notified' = {n \in notified : n.task \notin {t}}
    BY <2>1
  <2>3. project' = Without(project, {})
    BY <1>1, WithoutNothing DEF IInv
  <2>4. QED
    BY <1>1, <2>1, <2>2, <2>3, DropRows
<1>5. QED
  BY <1>3, <1>4

\* DELETE /api/projects/:id, with its cascade, keeps IInv.
LEMMA DropInv ==
  ASSUME IInv, NEW r \in Request, CommitDrop(r)
  PROVE  IInv'
<1>1. r \in DOMAIN plan /\ End(r) /\ UNCHANGED <<moves, raced>>
  BY DEF CommitDrop, Carries
<1>2. PICK p : p = plan[r].project
  OBVIOUS
<1>3. PICK T : T = {t \in DOMAIN task : task[t].project = p}
  OBVIOUS
<1>4. CASE UNCHANGED <<project, task, notified>>
  BY <1>1, <1>4, NothingWritten
<1>5. CASE ~ UNCHANGED <<project, task, notified>>
  <2>1. /\ project' = Without(project, {p})
        /\ task' = Without(task, T)
        /\ notified' = {n \in notified : n.task \notin T}
    BY <1>2, <1>3, <1>5 DEF CommitDrop
  <2>2. \A t \in DOMAIN task \ T : task[t].project \notin {p}
    BY <1>3
  <2>3. QED
    BY <1>1, <2>1, <2>2, DropRows
<1>6. QED
  BY <1>4, <1>5

-----------------------------------------------------------------------------
(* Projects *)

\* Only project rows are written, and none disappears.
LEMMA ProjectsWritten ==
  ASSUME IInv, NEW r \in Request, r \in DOMAIN plan, End(r),
         DOMAIN project \subseteq DOMAIN project',
         DOMAIN project' \subseteq DOMAIN project \cup {r},
         project' \in [DOMAIN project' -> ProjectRow],
         UNCHANGED <<task, moves, notified, raced>>
  PROVE  IInv'
<1>1. TypeOK'
  BY EndKeeps DEF IInv, TypeOK, ProjectId
<1>2. Fresh'
  BY EndKeeps DEF IInv, Fresh
<1>3. NoOrphans' /\ CompletionInStep' /\ TrailMatches'
  BY DEF IInv, NoOrphans, CompletionInStep, TrailMatches
<1>4. QED
  BY <1>1, <1>2, <1>3, EndKeeps DEF IInv

\* POST /api/projects keeps IInv.
LEMMA NewProjectInv ==
  ASSUME IInv, NEW r \in Request, CommitNewProject(r)
  PROVE  IInv'
<1>1. r \in DOMAIN plan /\ End(r) /\ UNCHANGED <<task, moves, notified, raced>>
  BY DEF CommitNewProject, Carries
<1>2. plan[r] \in NewProjectPlan
  BY PlanKinds DEF CommitNewProject, Carries, IInv, TypeOK
<1>3. PICK o \in Managers : o = plan[r].owner
  BY <1>2 DEF NewProjectPlan
<1>4. [owner |-> o] \in ProjectRow
  BY DEF ProjectRow
<1>5. project' = Write(project, r, [owner |-> o])
  BY <1>3 DEF CommitNewProject
<1>6. /\ DOMAIN project' = DOMAIN project \cup {r}
      /\ project' \in [DOMAIN project' -> ProjectRow]
  BY <1>4, <1>5 DEF Write, IInv, TypeOK
<1>7. QED
  BY <1>1, <1>6, ProjectsWritten

\* PATCH /api/projects/:id, which may change the owner, keeps IInv.
LEMMA TransferInv ==
  ASSUME IInv, NEW r \in Request, CommitTransfer(r)
  PROVE  IInv'
<1>1. r \in DOMAIN plan /\ End(r) /\ UNCHANGED <<task, moves, notified, raced>>
  BY DEF CommitTransfer, Carries
<1>2. plan[r] \in TransferPlan
  BY PlanKinds DEF CommitTransfer, Carries, IInv, TypeOK
<1>3. PICK o \in Managers : o = plan[r].owner
  BY <1>2 DEF TransferPlan
<1>4. PICK p : p = plan[r].project
  OBVIOUS
<1>5. CASE UNCHANGED project
  BY <1>1, <1>5, NothingWritten
<1>6. CASE ~ UNCHANGED project
  <2>1. project' = [project EXCEPT ![p].owner = o]
    BY <1>3, <1>4, <1>6 DEF CommitTransfer
  <2>2. /\ DOMAIN project' = DOMAIN project
        /\ project' \in [DOMAIN project' -> ProjectRow]
    BY <2>1 DEF IInv, TypeOK, ProjectRow
  <2>3. QED
    BY <1>1, <2>2, ProjectsWritten
<1>7. QED
  BY <1>5, <1>6

-----------------------------------------------------------------------------
(* The overdue sweep *)

\* The entry the sweep adds for a task it found in status s.
SweepEntry(s) == [action |-> "TASK_STATUS_CHANGED", by |-> System, from |-> s,
                  to |-> "OVERDUE"]

\* The entry a sweep writes is a well-formed entry of the trail.
LEMMA SweepEntryType ==
  ASSUME NEW s \in OpenStatuses
  PROVE  SweepEntry(s) \in Entry /\ SweepEntry(s).from = s /\ SweepEntry(s).to = "OVERDUE"
  BY DEF SweepEntry, Entry, OpenStatuses, Status

\* The sweep flags only open tasks past their date, by the status they have now.
LEMMA SweepEffect ==
  ASSUME IInv, NEW r \in Request, CommitSweep(r), NEW F, F = StillOverdue(plan[r].seen)
  PROVE  /\ F \subseteq DOMAIN task
         /\ \A t \in F : task[t].status \in OpenStatuses /\ task[t].due = "past"
         /\ DOMAIN task' = DOMAIN task
         /\ task' = [t \in DOMAIN task' |-> task'[t]]
         /\ \A t \in F : task'[t] = [task[t] EXCEPT !.status = "OVERDUE"]
         /\ \A t \in DOMAIN task \ F : task'[t] = task[t]
         /\ moves' = [t \in TaskId |-> moves'[t]]
         /\ \A t \in F : moves'[t] = Append(moves[t], SweepEntry(task[t].status))
         /\ \A t \in TaskId \ F : moves'[t] = moves[t]
<1>1. plan[r] \in SweepPlan
  BY PlanKinds DEF CommitSweep, Carries, IInv, TypeOK
<1>2. PICK seen : seen = plan[r].seen
  OBVIOUS
<1>3. PICK S \in SUBSET TaskId : seen \in [S -> OpenStatuses]
  BY <1>1, <1>2 DEF SweepPlan
<1>4. \A t \in F : /\ t \in S /\ t \in DOMAIN task /\ t \in TaskId
                    /\ task[t].status = seen[t]
                    /\ task[t].due = "past"
  BY <1>2, <1>3 DEF StillOverdue, IInv, TypeOK
<1>5. F \subseteq DOMAIN task
  BY <1>4
<1>6. \A t \in F : task[t].status \in OpenStatuses
  BY <1>3, <1>4
<1>7. task' = [t \in DOMAIN task |-> IF t \in F THEN [task[t] EXCEPT !.status = "OVERDUE"]
                                     ELSE task[t]]
  BY DEF CommitSweep
<1>8. moves' = [t \in TaskId |-> IF t \in F THEN Append(moves[t], SweepEntry(seen[t]))
                                 ELSE moves[t]]
  BY <1>2 DEF CommitSweep, SweepEntry
<1>9. /\ DOMAIN task' = DOMAIN task
      /\ task' = [t \in DOMAIN task' |-> task'[t]]
      /\ \A t \in F : task'[t] = [task[t] EXCEPT !.status = "OVERDUE"]
      /\ \A t \in DOMAIN task \ F : task'[t] = task[t]
  BY <1>5, <1>7
<1>10. /\ moves' = [t \in TaskId |-> moves'[t]]
       /\ \A t \in F : moves'[t] = Append(moves[t], SweepEntry(task[t].status))
       /\ \A t \in TaskId \ F : moves'[t] = moves[t]
  BY <1>4, <1>8
<1>11. QED
  BY <1>4, <1>5, <1>6, <1>9, <1>10

\* One batch of the overdue sweep keeps IInv.
LEMMA SweepInv ==
  ASSUME IInv, NEW r \in Request, CommitSweep(r)
  PROVE  IInv'
<1>1. r \in DOMAIN plan /\ End(r) /\ UNCHANGED <<project, notified, raced>>
  BY DEF CommitSweep, Carries
<1>2. PICK F : F = StillOverdue(plan[r].seen)
  OBVIOUS
<1> DEFINE Effect ==
      /\ F \subseteq DOMAIN task
      /\ \A t \in F : task[t].status \in OpenStatuses /\ task[t].due = "past"
      /\ DOMAIN task' = DOMAIN task
      /\ task' = [t \in DOMAIN task' |-> task'[t]]
      /\ \A t \in F : task'[t] = [task[t] EXCEPT !.status = "OVERDUE"]
      /\ \A t \in DOMAIN task \ F : task'[t] = task[t]
      /\ moves' = [t \in TaskId |-> moves'[t]]
      /\ \A t \in F : moves'[t] = Append(moves[t], SweepEntry(task[t].status))
      /\ \A t \in TaskId \ F : moves'[t] = moves[t]
<1>3. Effect
  BY <1>2, SweepEffect
<1>4. DOMAIN task \subseteq TaskId /\ \A t \in DOMAIN task : task[t] \in TaskRow
  BY DEF IInv, TypeOK
<1>5. \A t \in F : /\ task'[t] \in TaskRow
                    /\ task'[t].status = "OVERDUE"
                    /\ task'[t].project = task[t].project
                    /\ task'[t].completed = task[t].completed
  <2> SUFFICES ASSUME NEW t \in F
               PROVE  /\ task'[t] \in TaskRow
                      /\ task'[t].status = "OVERDUE"
                      /\ task'[t].project = task[t].project
                      /\ task'[t].completed = task[t].completed
    OBVIOUS
  <2>1. PICK row \in TaskRow : row = task[t]
    BY <1>3, <1>4
  <2>2. task'[t] = [row EXCEPT !.status = "OVERDUE"]
    BY <2>1, <1>3
  <2>3. QED
    BY <2>1, <2>2 DEF TaskRow, Status
<1>6. ASSUME NEW t \in TaskId
      PROVE  /\ moves'[t] \in Seq(Entry)
             /\ t \in F /\ Trail(moves[t], task[t].status) => Trail(moves'[t], "OVERDUE")
  <2>1. moves[t] \in Seq(Entry)
    BY DEF IInv, TypeOK
  <2>2. CASE t \notin F
    BY <2>1, <2>2, <1>3
  <2>3. CASE t \in F
    <3>1. PICK e \in Entry : /\ e = SweepEntry(task[t].status)
                             /\ e.from = task[t].status /\ e.to = "OVERDUE"
      BY <2>3, <1>3, SweepEntryType
    <3>2. moves'[t] = Append(moves[t], e)
      BY <2>3, <3>1, <1>3
    <3>3. Append(moves[t], e) \in Seq(Entry)
      BY <2>1, AppendProperties
    <3>4. Trail(moves[t], task[t].status) => Trail(Append(moves[t], e), e.to)
      BY <2>1, <3>1, TrailGrows
    <3>5. QED
      BY <3>1, <3>2, <3>3, <3>4
  <2>4. QED
    BY <2>2, <2>3
<1>7. TypeOK'
  <2>1. \A t \in DOMAIN task' : task'[t] \in TaskRow
    BY <1>3, <1>4, <1>5
  <2>2. DOMAIN task' \subseteq TaskId /\ task' \in [DOMAIN task' -> TaskRow]
    BY <2>1, <1>3, <1>4
  <2>3. moves' \in [TaskId -> Seq(Entry)]
    BY <1>3, <1>6
  <2>4. QED
    BY <1>1, <2>2, <2>3, EndKeeps DEF IInv, TypeOK
<1>8. Fresh'
  BY <1>1, <1>3, EndKeeps DEF IInv, Fresh
<1>9. NoOrphans'
  BY <1>1, <1>3, <1>5 DEF IInv, NoOrphans
<1>10. CompletionInStep'
  <2> SUFFICES ASSUME NEW t \in DOMAIN task', t \notin raced'
               PROVE  task'[t].completed <=> task'[t].status = "DONE"
    BY DEF CompletionInStep
  <2>1. task[t].completed <=> task[t].status = "DONE"
    BY <1>1, <1>3 DEF IInv, CompletionInStep
  <2>2. CASE t \in F
    BY <2>1, <2>2, <1>3, <1>5 DEF OpenStatuses
  <2>3. CASE t \notin F
    BY <2>1, <2>3, <1>3
  <2>4. QED
    BY <2>2, <2>3
<1>11. TrailMatches'
  <2>1. ASSUME NEW t \in DOMAIN task', t \notin raced'
        PROVE  Trail(moves'[t], task'[t].status)
    <3>1. t \in DOMAIN task \ raced /\ t \in TaskId
      BY <2>1, <1>1, <1>3, <1>4
    <3>2. Trail(moves[t], task[t].status)
      BY <3>1, TrailsOf DEF IInv
    <3>3. CASE t \in F
      BY <3>1, <3>2, <3>3, <1>5, <1>6
    <3>4. CASE t \notin F
      BY <3>1, <3>2, <3>4, <1>3
    <3>5. QED
      BY <3>3, <3>4
  <2>2. QED
    BY <2>1 DEF TrailMatches, Trail
<1>12. QED
  BY <1>1, <1>7, <1>8, <1>9, <1>10, <1>11, EndKeeps DEF IInv

-----------------------------------------------------------------------------
(* The environment, and all steps *)

\* Activating or deactivating an account keeps IInv.
LEMMA SetActiveInv ==
  ASSUME IInv, NEW u \in Unsteady, SetActive(u)
  PROVE  IInv'
<1>1. active' \in [User -> BOOLEAN]
  <2>1. active \in [User -> BOOLEAN] /\ u \in User
    BY BoundsAssumption DEF IInv, TypeOK
  <2>2. QED
    BY <2>1 DEF SetActive
<1>2. UNCHANGED <<project, task, moves, notified, plan, done, raced>>
  BY DEF SetActive
<1>3. TypeOK' /\ Plans' /\ Fresh'
  BY <1>1, <1>2 DEF IInv, TypeOK, Plans, Fresh
<1>4. NoOrphans' /\ CompletionInStep' /\ TrailMatches'
  BY <1>2 DEF IInv, NoOrphans, CompletionInStep, TrailMatches
<1>5. QED
  BY <1>3, <1>4 DEF IInv

\* The seeded database satisfies IInv.
LEMMA InvInit == ASSUME Init PROVE IInv
<1>0. DOMAIN task = SeedTask
  BY DEF Init
<1>1. ASSUME NEW t \in SeedTask
      PROVE  /\ task[t] \in TaskRow
             /\ task[t].project \in SeedProject
             /\ task[t].completed <=> task[t].status = "DONE"
  BY DEF Init
<1>2. DOMAIN project = SeedProject /\ project \in [SeedProject -> ProjectRow]
  BY DEF Init
<1>3. ASSUME NEW t \in TaskId
      PROVE  /\ moves[t] \in Seq(Entry)
             /\ t \in SeedTask => Trail(moves[t], task[t].status)
  <2>1. CASE t \notin SeedTask
    BY <2>1 DEF Init
  <2>2. CASE t \in SeedTask
    <3>1. PICK e : e = [action |-> "TASK_CREATED", by |-> System,
                        from |-> task[t].status, to |-> task[t].status]
      OBVIOUS
    <3>2. moves[t] = <<e>>
      BY <2>2, <3>1 DEF Init
    <3>3. e \in Entry
      <4>1. task[t].status \in Status
        BY <2>2, <1>1 DEF TaskRow
      <4>2. QED
        BY <3>1, <4>1 DEF Entry
    <3>4. QED
      BY <3>1, <3>2, <3>3 DEF Trail
  <2>3. QED
    BY <2>1, <2>2
<1>4. TypeOK
  <2>1. moves \in [TaskId -> Seq(Entry)]
    <3>1. moves = [t \in TaskId |-> moves[t]]
      BY DEF Init
    <3>2. QED
      BY <3>1, <1>3
  <2>2. task \in [DOMAIN task -> TaskRow] /\ project \in [DOMAIN project -> ProjectRow]
    BY <1>0, <1>1, <1>2 DEF Init
  <2>3. DOMAIN plan = {} /\ done = {} /\ raced = {} /\ notified = {}
    BY DEF Init
  <2>4. active \in [User -> BOOLEAN]
    BY DEF Init
  <2>5. QED
    BY <1>0, <1>1, <1>2, <2>1, <2>2, <2>3, <2>4 DEF TypeOK, TaskId, ProjectId
<1>5. Plans /\ Fresh /\ NoOrphans
  BY <1>0, <1>1, <1>2 DEF Init, Plans, Fresh, NoOrphans
<1>6. CompletionInStep
  <2> SUFFICES ASSUME NEW t \in DOMAIN task
               PROVE  task[t].completed <=> task[t].status = "DONE"
    BY DEF CompletionInStep
  <2>1. QED
    BY <1>0, <1>1
<1>7. TrailMatches
  BY <1>0, <1>1, <1>3, TrailsOf DEF TaskId
<1>8. QED
  BY <1>4, <1>5, <1>6, <1>7 DEF IInv

\* Every step keeps the invariant.
LEMMA InvStep == IInv /\ [Next]_vars => IInv'
<1> SUFFICES ASSUME IInv, [Next]_vars PROVE IInv'
  OBVIOUS
<1>1. ASSUME NEW r \in Request, NEW u \in User, Read(r, u) PROVE IInv'
  BY <1>1, ReadInv
<1>2. ASSUME NEW r \in Request, ReadCandidates(r) PROVE IInv'
  BY <1>2, CandidatesInv
<1>3. ASSUME NEW r \in Request, Commit(r) PROVE IInv'
  BY <1>3, UpdateInv, CreateInv, DeleteInv, NewProjectInv, TransferInv, DropInv, SweepInv
     DEF Commit
<1>4. ASSUME NEW r \in Request, Abandon(r) PROVE IInv'
  BY <1>4, NothingWritten DEF Abandon
<1>5. ASSUME NEW u \in Unsteady, SetActive(u) PROVE IInv'
  BY <1>5, SetActiveInv
<1>6. CASE UNCHANGED vars
  <2>1. TypeOK' /\ Plans' /\ Fresh'
    BY <1>6 DEF vars, IInv, TypeOK, Plans, Fresh
  <2>2. NoOrphans' /\ CompletionInStep' /\ TrailMatches'
    BY <1>6 DEF vars, IInv, NoOrphans, CompletionInStep, TrailMatches
  <2>3. QED
    BY <2>1, <2>2 DEF IInv
<1>7. QED
  BY <1>1, <1>2, <1>3, <1>4, <1>5, <1>6 DEF Next

-----------------------------------------------------------------------------
(* The theorems *)

\* The inductive invariant holds in every reachable state.
THEOREM Invariance == Spec => []IInv
<1>1. QED
  BY InvInit, InvStep, PTL DEF Spec

\* Types are kept; with them the rules no foreign key can state: tasks are
\* assigned to developers, projects are owned by project managers.
THEOREM TypeCorrect == Spec => []TypeOK
<1>1. IInv => TypeOK
  BY DEF IInv
<1>2. QED
  BY <1>1, Invariance, PTL

\* No task without its project, no notification without its task.
THEOREM RowsHaveParents == Spec => []NoOrphans
<1>1. IInv => NoOrphans
  BY DEF IInv
<1>2. QED
  BY <1>1, Invariance, PTL

\* completed_at follows DONE on every task no stale update has written.
THEOREM CompletionCorrect == Spec => []CompletionInStep
<1>1. IInv => CompletionInStep
  BY DEF IInv
<1>2. QED
  BY <1>1, Invariance, PTL

\* The status entries of every such task chain up to the status it has.
THEOREM TrailCorrect == Spec => []TrailMatches
<1>1. IInv => TrailMatches
  BY DEF IInv
<1>2. QED
  BY <1>1, Invariance, PTL

-----------------------------------------------------------------------------
(* What a step may do *)

\* Only commits write rows, and a step that is no commit ends a request only by
\* abandoning it.
LEMMA QuietSteps ==
  ASSUME [Next]_vars, ~ \E r \in Request : Commit(r)
  PROVE  UNCHANGED <<project, task, moves, notified, raced>>
<1>1. ASSUME NEW r \in Request, NEW u \in User, Read(r, u)
      PROVE  UNCHANGED <<project, task, moves, notified, raced>>
  BY <1>1 DEF Read, ReadForUpdate, ReadForDelete, ReadForCreate, ReadForTransfer,
              ReadForDrop, ReadForNewProject, Begin
<1>2. ASSUME NEW r \in Request, ReadCandidates(r)
      PROVE  UNCHANGED <<project, task, moves, notified, raced>>
  BY <1>2 DEF ReadCandidates, Begin
<1>3. ASSUME NEW r \in Request, Abandon(r)
      PROVE  UNCHANGED <<project, task, moves, notified, raced>>
  BY <1>3 DEF Abandon
<1>4. ASSUME NEW u \in Unsteady, SetActive(u)
      PROVE  UNCHANGED <<project, task, moves, notified, raced>>
  BY <1>4 DEF SetActive
<1>5. CASE UNCHANGED vars
  BY <1>5 DEF vars
<1>6. QED
  BY <1>1, <1>2, <1>3, <1>4, <1>5 DEF Next

\* An update writes one row, which was in its user's scope, and tells its new
\* assignee, or it writes nothing.
LEMMA UpdateStep ==
  ASSUME IInv, NEW r \in Request, CommitUpdate(r)
  PROVE  \/ UNCHANGED <<project, task, moves, notified, raced>>
         \/ \E w \in UpdatePlan, t \in DOMAIN task :
              /\ w = plan[r] /\ t = w.task /\ PlanOK(w) /\ w.op = "update"
              /\ task[t] \in TaskRow
              /\ InTaskScope(w.user, task[t], ProjectOf(t))
              /\ DOMAIN task' = DOMAIN task
              /\ \A x \in DOMAIN task : x # t => task'[x] = task[x]
              /\ task'[t].status = Given(w.patch.status, task[t].status)
              /\ task'[t].assignee = Given(w.patch.assignee, task[t].assignee)
              /\ task'[t].due = Given(w.patch.due, task[t].due)
              /\ t \notin raced' => task[t] = w.before
              /\ AssignNotices(r, t, w.patch, w.before) \subseteq notified'
              /\ UNCHANGED project
<1>1. Carries(r, "update") /\ r \in DOMAIN plan /\ UNCHANGED project
  BY DEF CommitUpdate, Carries
<1>2. PICK w : w = plan[r]
  OBVIOUS
<1>3. PICK t : t = w.task
  OBVIOUS
<1>4. w \in UpdatePlan /\ PlanOK(w) /\ w.op = "update"
  BY <1>1, <1>2, PlanKinds DEF Carries, IInv, TypeOK, Plans
<1>5. CASE UNCHANGED <<task, moves, notified, raced>>
  BY <1>1, <1>5
<1>6. CASE ~ UNCHANGED <<task, moves, notified, raced>>
  <2>1. /\ TaskWritable(w.user, t)
        /\ task' = [task EXCEPT ![t] = Patched(@, w.patch, w.before)]
        /\ moves' = [moves EXCEPT ![t] = @ \o MoveEntries(w.user, w.patch, w.before)]
        /\ notified' = notified \cup AssignNotices(r, t, w.patch, w.before)
                                \cup ReviewNotices(r, w.user, t, w.patch, w.before)
        /\ raced' = IF task[t] = w.before THEN raced ELSE raced \cup {t}
    BY <1>2, <1>3, <1>6 DEF CommitUpdate
  <2>2. /\ Checked(w.patch) /\ w.patch \in Patches /\ w.before \in TaskRow
        /\ t \in DOMAIN task /\ task[t] \in TaskRow
        /\ DOMAIN task' = DOMAIN task
        /\ \A x \in DOMAIN task : x # t => task'[x] = task[x]
        /\ task'[t] = Patched(task[t], w.patch, w.before)
        /\ t \notin raced' => task[t] = w.before
    BY <1>1, <1>2, <1>3, <2>1, UpdateEffect
  <2>3. /\ task'[t].status = Given(w.patch.status, task[t].status)
        /\ task'[t].assignee = Given(w.patch.assignee, task[t].assignee)
        /\ task'[t].due = Given(w.patch.due, task[t].due)
    BY <2>2, PatchedType
  <2>4. /\ InTaskScope(w.user, task[t], ProjectOf(t))
        /\ AssignNotices(r, t, w.patch, w.before) \subseteq notified'
    BY <2>1 DEF TaskWritable
  <2>5. QED
    BY <1>1, <1>2, <1>3, <1>4, <2>2, <2>3, <2>4
<1>7. QED
  BY <1>5, <1>6

\* A creation adds one row and tells its assignee, or it writes nothing.
LEMMA CreateStep ==
  ASSUME IInv, NEW r \in Request, CommitCreate(r)
  PROVE  /\ UNCHANGED project
         /\ \/ UNCHANGED <<task, moves, notified>>
            \/ /\ DOMAIN task' = DOMAIN task \cup {r}
               /\ \A x \in DOMAIN task : task'[x] = task[x]
               /\ task'[r].assignee \in Developers \cup {Nobody}
               /\ task'[r].assignee # Nobody =>
                    [to |-> task'[r].assignee, type |-> "TASK_ASSIGNED", task |-> r, by |-> r]
                      \in notified'
<1>1. UNCHANGED project
  BY DEF CommitCreate
<1>2. CASE ~ ProjectFound(plan[r].project)
  BY <1>1, <1>2 DEF CommitCreate
<1>3. CASE ProjectFound(plan[r].project)
  <2>1. PICK w : w = plan[r]
    OBVIOUS
  <2>2. /\ DOMAIN task' = DOMAIN task \cup {r}
        /\ \A x \in DOMAIN task : task'[x] = task[x]
        /\ task'[r] \in TaskRow
        /\ notified' = notified \cup {[to |-> d, type |-> "TASK_ASSIGNED", task |-> r, by |-> r] :
                                        d \in {task'[r].assignee} \cap Developers}
    BY <1>3, <2>1, CreateEffect
  <2>3. task'[r].assignee \in Developers \cup {Nobody}
    BY <2>2 DEF TaskRow
  <2>4. QED
    BY <1>1, <2>2, <2>3
<1>4. QED
  BY <1>2, <1>3

\* Deletions take rows away and change no other.
LEMMA DeleteStep ==
  ASSUME IInv, NEW r \in Request, CommitDelete(r)
  PROVE  /\ UNCHANGED project
         /\ \/ UNCHANGED task
            \/ \E t \in DOMAIN task :
                 /\ InTaskScope(plan[r].user, task[t], ProjectOf(t))
                 /\ plan[r].user \notin Developers
                 /\ DOMAIN task' = DOMAIN task \ {t}
                 /\ \A x \in DOMAIN task \ {t} : task'[x] = task[x]
<1>1. plan[r].user \notin Developers
  BY DEF CommitDelete, Carries, IInv, Plans, PlanOK
<1>2. QED
  BY <1>1 DEF CommitDelete, TaskWritable, Without

\* What a deletion of a project does to the projects: it removes at most one,
\* which the sender may write.
LEMMA DropStep ==
  ASSUME IInv, NEW r \in Request, CommitDrop(r)
  PROVE  \/ UNCHANGED <<project, task>>
         \/ \E p \in DOMAIN project :
              /\ InProjectScope(plan[r].user, project[p])
              /\ DOMAIN project' = DOMAIN project \ {p}
              /\ \A x \in DOMAIN project \ {p} : project'[x] = project[x]
              /\ DOMAIN task' = {t \in DOMAIN task : task[t].project # p}
              /\ \A x \in DOMAIN task' : task'[x] = task[x]
<1>1. CASE UNCHANGED <<project, task, notified>>
  BY <1>1
<1>2. CASE ~ UNCHANGED <<project, task, notified>>
  <2>1. PICK p : p = plan[r].project
    OBVIOUS
  <2>2. /\ ProjectWritable(plan[r].user, p)
        /\ project' = Without(project, {p})
        /\ task' = Without(task, {t \in DOMAIN task : task[t].project = p})
    BY <1>2, <2>1 DEF CommitDrop
  <2>3. QED
    BY <2>2 DEF ProjectWritable, Without
<1>3. QED
  BY <1>1, <1>2

\* Projects are created and transferred without touching a task.
LEMMA ProjectStep ==
  ASSUME IInv, NEW r \in Request, CommitNewProject(r) \/ CommitTransfer(r)
  PROVE  /\ UNCHANGED <<task, notified>>
         /\ DOMAIN project \subseteq DOMAIN project'
         /\ \A p \in DOMAIN project :
              project'[p] # project[p] => InProjectScope(plan[r].user, project[p])
<1>1. CASE CommitNewProject(r)
  <2>1. r \notin DOMAIN project
    BY <1>1, IdsAssumption DEF CommitNewProject, Carries, IInv, Fresh
  <2>2. QED
    BY <1>1, <2>1 DEF CommitNewProject, Write
<1>2. CASE CommitTransfer(r)
  BY <1>2 DEF CommitTransfer, ProjectWritable
<1>3. QED
  BY <1>1, <1>2

-----------------------------------------------------------------------------
(* The sweep records what it replaces *)

\* Every step satisfies the body of SweepRecordsReplaced.
LEMMA SweepStepHolds == IInv /\ [Next]_vars => SweepStep
<1> SUFFICES ASSUME IInv, [Next]_vars,
                    NEW t \in DOMAIN task \cap DOMAIN task',
                    task[t].status # "OVERDUE", task'[t].status = "OVERDUE"
             PROVE  /\ task[t].status \in OpenStatuses
                    /\ task[t].due = "past"
                    /\ moves'[t] = Append(moves[t], SweepEntry(task[t].status))
  BY DEF SweepStep, SweepEntry
<1>1. CASE task'[t] = task[t]
  BY <1>1
<1>2. ASSUME NEW r \in Request, CommitUpdate(r) PROVE task'[t].status = task[t].status
  <2>1. CASE UNCHANGED task
    BY <2>1
  <2>2. CASE ~ UNCHANGED task
    <3>1. PICK w \in UpdatePlan, x \in DOMAIN task :
            /\ PlanOK(w) /\ w.op = "update"
            /\ \A y \in DOMAIN task : y # x => task'[y] = task[y]
            /\ task'[x].status = Given(w.patch.status, task[x].status)
      BY <1>2, <2>2, UpdateStep
    <3>2. w.patch.status # "OVERDUE"
      BY <3>1 DEF PlanOK, Checked
    <3>3. QED
      BY <3>1, <3>2 DEF Given
  <2>3. QED
    BY <2>1, <2>2
<1>3. ASSUME NEW r \in Request, CommitCreate(r) PROVE task'[t] = task[t]
  BY <1>3, CreateStep
<1>4. ASSUME NEW r \in Request, CommitDelete(r) PROVE task'[t] = task[t]
  BY <1>4, DeleteStep
<1>5. ASSUME NEW r \in Request, CommitDrop(r) PROVE task'[t] = task[t]
  BY <1>5, DropStep
<1>6. ASSUME NEW r \in Request, CommitNewProject(r) \/ CommitTransfer(r)
      PROVE  task'[t] = task[t]
  BY <1>6, ProjectStep
<1>7. ASSUME NEW r \in Request, CommitSweep(r)
      PROVE  /\ task[t].status \in OpenStatuses
             /\ task[t].due = "past"
             /\ moves'[t] = Append(moves[t], SweepEntry(task[t].status))
  <2>1. PICK F : F = StillOverdue(plan[r].seen)
    OBVIOUS
  <2>2. /\ \A x \in F : task[x].status \in OpenStatuses /\ task[x].due = "past"
        /\ \A x \in DOMAIN task \ F : task'[x] = task[x]
        /\ \A x \in F : moves'[x] = Append(moves[x], SweepEntry(task[x].status))
    BY <1>7, <2>1, SweepEffect
  <2>3. t \in F
    BY <2>2
  <2>4. QED
    BY <2>2, <2>3
<1>8. CASE ~ \E r \in Request : Commit(r)
  BY <1>8, QuietSteps
<1>9. QED
  BY <1>1, <1>2, <1>3, <1>4, <1>5, <1>6, <1>7, <1>8 DEF Commit

\* A task becomes OVERDUE only while it is open and past its date, with an entry
\* that names the status it had at that moment.
THEOREM SweepCorrect == Spec => SweepRecordsReplaced
<1>1. IInv /\ [Next]_vars => [SweepStep]_vars
  BY SweepStepHolds
<1>2. QED
  BY <1>1, Invariance, PTL DEF Spec, SweepRecordsReplaced

-----------------------------------------------------------------------------
(* Who is given a task is told *)

\* Every step satisfies the body of NewAssigneeTold.
LEMMA ToldStepHolds == IInv /\ [Next]_vars => ToldStep
<1> SUFFICES ASSUME IInv, [Next]_vars, NEW t \in DOMAIN task' \ raced', Handed(t)
             PROVE  Told(t)
  BY DEF ToldStep
<1>1. CASE t \in DOMAIN task /\ task'[t].assignee = task[t].assignee
  BY <1>1 DEF Handed
<1>2. ASSUME NEW r \in Request, CommitUpdate(r), t \in DOMAIN task,
             task'[t].assignee # task[t].assignee
      PROVE  Told(t)
  <2>1. PICK w \in UpdatePlan, x \in DOMAIN task :
          /\ PlanOK(w) /\ w.op = "update"
          /\ \A y \in DOMAIN task : y # x => task'[y] = task[y]
          /\ task'[x].assignee = Given(w.patch.assignee, task[x].assignee)
          /\ x \notin raced' => task[x] = w.before
          /\ AssignNotices(r, x, w.patch, w.before) \subseteq notified'
    BY <1>2, UpdateStep
  <2>2. x = t /\ task[t] = w.before
    BY <2>1, <1>2
  <2>3. PICK d : d = w.patch.assignee
    OBVIOUS
  <2>4. d # Keep /\ task'[t].assignee = d
    BY <2>1, <2>2, <2>3, <1>2 DEF Given
  <2>5. d \in Developers /\ d # w.before.assignee
    BY <2>1, <2>2, <2>3, <2>4, <1>2 DEF PlanOK, Checked, Handed
  <2>6. PICK n : n = [to |-> d, type |-> "TASK_ASSIGNED", task |-> t, by |-> r]
    OBVIOUS
  <2>7. n \in notified'
    BY <2>1, <2>2, <2>3, <2>5, <2>6 DEF AssignNotices
  <2>8. n \notin notified
    BY <1>2, <2>6 DEF IInv, Fresh, CommitUpdate, Carries
  <2>9. QED
    BY <2>4, <2>6, <2>7, <2>8 DEF Told
<1>3. ASSUME NEW r \in Request, CommitUpdate(r) PROVE DOMAIN task' = DOMAIN task
  BY <1>3, UpdateStep
<1>4. ASSUME NEW r \in Request, CommitCreate(r) PROVE Told(t)
  <2>1. CASE t \in DOMAIN task
    <3>1. task'[t] = task[t]
      BY <1>4, <2>1, CreateStep
    <3>2. QED
      BY <2>1, <3>1, <1>1
  <2>2. CASE t \notin DOMAIN task
    <3>1. /\ t = r
          /\ task'[r].assignee # Nobody =>
               [to |-> task'[r].assignee, type |-> "TASK_ASSIGNED", task |-> r, by |-> r]
                 \in notified'
      <4>1. task' # task
        BY <2>2
      <4>2. /\ DOMAIN task' = DOMAIN task \cup {r}
            /\ task'[r].assignee # Nobody =>
                 [to |-> task'[r].assignee, type |-> "TASK_ASSIGNED", task |-> r, by |-> r]
                   \in notified'
        BY <1>4, <4>1, CreateStep
      <4>3. QED
        BY <2>2, <4>2
    <3>2. PICK n : n = [to |-> task'[r].assignee, type |-> "TASK_ASSIGNED", task |-> r, by |-> r]
      OBVIOUS
    <3>3. n \in notified'
      BY <3>1, <3>2 DEF Handed
    <3>4. n \notin notified
      BY <1>4, <3>2 DEF IInv, Fresh, CommitCreate, Carries
    <3>5. QED
      BY <3>1, <3>2, <3>3, <3>4 DEF Told
  <2>3. QED
    BY <2>1, <2>2
<1>5. ASSUME NEW r \in Request, CommitDelete(r) \/ CommitDrop(r)
      PROVE  t \in DOMAIN task /\ task'[t] = task[t]
  BY <1>5, DeleteStep, DropStep
<1>6. ASSUME NEW r \in Request, CommitNewProject(r) \/ CommitTransfer(r)
      PROVE  t \in DOMAIN task /\ task'[t] = task[t]
  BY <1>6, ProjectStep
<1>7. ASSUME NEW r \in Request, CommitSweep(r)
      PROVE  t \in DOMAIN task /\ task'[t].assignee = task[t].assignee
  <2>1. PICK F : F = StillOverdue(plan[r].seen)
    OBVIOUS
  <2>2. /\ DOMAIN task' = DOMAIN task
        /\ \A x \in F : task'[x] = [task[x] EXCEPT !.status = "OVERDUE"]
        /\ \A x \in DOMAIN task \ F : task'[x] = task[x]
    BY <1>7, <2>1, SweepEffect
  <2>3. PICK row \in TaskRow : row = task[t]
    BY <2>2 DEF IInv, TypeOK
  <2>4. CASE t \in F
    BY <2>2, <2>3, <2>4 DEF TaskRow
  <2>5. CASE t \notin F
    BY <2>2, <2>5
  <2>6. QED
    BY <2>2, <2>4, <2>5
<1>8. CASE ~ \E r \in Request : Commit(r)
  <2>1. UNCHANGED task
    BY <1>8, QuietSteps
  <2>2. QED
    BY <2>1, <1>1
<1>9. QED
  BY <1>1, <1>2, <1>3, <1>4, <1>5, <1>6, <1>7, <1>8 DEF Commit

\* Whoever is given a task by an update of the row it read, or by a creation,
\* finds a new notification.
THEOREM HandoversTold == Spec => NewAssigneeTold
<1>1. IInv /\ [Next]_vars => [ToldStep]_vars
  BY ToldStepHolds
<1>2. QED
  BY <1>1, Invariance, PTL DEF Spec, NewAssigneeTold

-----------------------------------------------------------------------------
(* The rights hold when the row is written *)

\* Whoever has a task in scope and is no developer manages its project.
LEMMA ScopeManages ==
  ASSUME NEW u, u \notin Developers, NEW t, NEW p, InTaskScope(u, t, p)
  PROVE  CanManageProject(u, p)
  BY DEF InTaskScope, CanManageProject

\* Every step satisfies the body of RightsAtWrite.
LEMMA RightsStepHolds == IInv /\ [Next]_vars => RightsStep
<1> SUFFICES ASSUME IInv, [Next]_vars, NEW q \in DOMAIN plan \ DOMAIN plan'
             PROVE  /\ plan[q].op # "sweep" =>
                         \A t \in DOMAIN task :
                           (t \notin DOMAIN task' \/ task'[t] # task[t]) => Authorised(plan[q], t)
                    /\ \A p \in DOMAIN project :
                         (p \notin DOMAIN project' \/ project'[p] # project[p])
                           => plan[q].op # "sweep" /\ CanManageProject(plan[q].user, project[p])
  BY DEF RightsStep
<1> DEFINE TasksOK == \A t \in DOMAIN task :
                        (t \notin DOMAIN task' \/ task'[t] # task[t]) => Authorised(plan[q], t)
           ProjectsOK == \A p \in DOMAIN project :
                           (p \notin DOMAIN project' \/ project'[p] # project[p])
                             => plan[q].op # "sweep" /\ CanManageProject(plan[q].user, project[p])
<1>1. CASE UNCHANGED <<project, task>>
  BY <1>1
<1>2. ASSUME NEW r \in Request, Commit(r) PROVE q = r
  <2>1. End(r)
    BY <1>2 DEF Commit, CommitUpdate, CommitCreate, CommitDelete, CommitNewProject,
                CommitTransfer, CommitDrop, CommitSweep
  <2>2. QED
    BY <2>1 DEF End
<1>3. ASSUME NEW r \in Request, CommitUpdate(r), ~ UNCHANGED <<project, task>>
      PROVE  TasksOK /\ ProjectsOK
  <2>1. PICK w \in UpdatePlan, t \in DOMAIN task :
          /\ w = plan[r] /\ PlanOK(w) /\ w.op = "update"
          /\ InTaskScope(w.user, task[t], ProjectOf(t))
          /\ DOMAIN task' = DOMAIN task
          /\ \A x \in DOMAIN task : x # t => task'[x] = task[x]
          /\ task'[t].status = Given(w.patch.status, task[t].status)
          /\ task'[t].assignee = Given(w.patch.assignee, task[t].assignee)
          /\ task'[t].due = Given(w.patch.due, task[t].due)
          /\ UNCHANGED project
    BY <1>3, UpdateStep
  <2>2. CASE w.user \in Developers
    <3>1. w.user = task[t].assignee
      BY <2>1, <2>2, RolesAssumption DEF InTaskScope
    <3>2. StatusOnly(w.patch)
      BY <2>1, <2>2 DEF PlanOK
    <3>3. /\ task'[t].status \in DeveloperStatuses
          /\ task'[t].assignee = task[t].assignee
          /\ task'[t].due = task[t].due
      BY <2>1, <3>2 DEF StatusOnly, Given, DeveloperStatuses, Keep
    <3>4. Authorised(w, t)
      BY <2>1, <3>1, <3>3 DEF Authorised
    <3>5. QED
      BY <1>2, <1>3, <2>1, <3>4 DEF Commit
  <2>3. CASE w.user \notin Developers
    <3>1. CanManageProject(w.user, ProjectOf(t))
      BY <2>1, <2>3, ScopeManages
    <3>2. Authorised(w, t)
      BY <3>1 DEF Authorised
    <3>3. QED
      BY <1>2, <1>3, <2>1, <3>2 DEF Commit
  <2>4. QED
    BY <2>2, <2>3
<1>4. ASSUME NEW r \in Request, CommitCreate(r) PROVE TasksOK /\ ProjectsOK
  BY <1>4, CreateStep
<1>5. ASSUME NEW r \in Request, CommitDelete(r), ~ UNCHANGED <<project, task>>
      PROVE  TasksOK /\ ProjectsOK
  <2>1. PICK t \in DOMAIN task :
          /\ InTaskScope(plan[r].user, task[t], ProjectOf(t))
          /\ plan[r].user \notin Developers
          /\ DOMAIN task' = DOMAIN task \ {t}
          /\ \A x \in DOMAIN task \ {t} : task'[x] = task[x]
    BY <1>5, DeleteStep
  <2>2. CanManageProject(plan[r].user, ProjectOf(t)) /\ UNCHANGED project
    BY <1>5, <2>1, ScopeManages, DeleteStep
  <2>3. Authorised(plan[r], t)
    BY <2>2 DEF Authorised
  <2>4. QED
    BY <1>2, <1>5, <2>1, <2>2, <2>3 DEF Commit
<1>6. ASSUME NEW r \in Request, CommitDrop(r), ~ UNCHANGED <<project, task>>
      PROVE  TasksOK /\ ProjectsOK
  <2>1. PICK p \in DOMAIN project :
          /\ InProjectScope(plan[r].user, project[p])
          /\ DOMAIN project' = DOMAIN project \ {p}
          /\ \A x \in DOMAIN project \ {p} : project'[x] = project[x]
          /\ DOMAIN task' = {t \in DOMAIN task : task[t].project # p}
          /\ \A x \in DOMAIN task' : task'[x] = task[x]
    BY <1>6, DropStep
  <2>2. CanManageProject(plan[r].user, project[p])
    BY <2>1 DEF InProjectScope, CanManageProject
  <2>3. \A t \in DOMAIN task : task[t].project = p => Authorised(plan[r], t)
    BY <2>2 DEF Authorised, ProjectOf
  <2>4. plan[r].op # "sweep"
    BY <1>6 DEF CommitDrop, Carries
  <2>5. QED
    BY <1>2, <1>6, <2>1, <2>2, <2>3, <2>4 DEF Commit
<1>7. ASSUME NEW r \in Request, CommitNewProject(r) \/ CommitTransfer(r)
      PROVE  TasksOK /\ ProjectsOK
  <2>1. /\ UNCHANGED task
        /\ DOMAIN project \subseteq DOMAIN project'
        /\ \A p \in DOMAIN project :
             project'[p] # project[p] => InProjectScope(plan[r].user, project[p])
    BY <1>7, ProjectStep
  <2>2. plan[r].op # "sweep"
    BY <1>7 DEF CommitNewProject, CommitTransfer, Carries
  <2>3. q = r
    BY <1>2, <1>7 DEF Commit
  <2>4. QED
    BY <2>1, <2>2, <2>3 DEF InProjectScope, CanManageProject
<1>8. ASSUME NEW r \in Request, CommitSweep(r)
      PROVE  plan[q].op = "sweep" /\ UNCHANGED project
  BY <1>2, <1>8 DEF Commit, CommitSweep, Carries
<1>9. CASE ~ \E r \in Request : Commit(r)
  BY <1>9, QuietSteps
<1>10. QED
  BY <1>1, <1>3, <1>4, <1>5, <1>6, <1>7, <1>8, <1>9 DEF Commit

\* A right that was checked on the row that was read holds on the row that is
\* written, for every role and every order of transfers and reassignments.
THEOREM RightsHold == Spec => RightsAtWrite
<1>1. IInv /\ [Next]_vars => [RightsStep]_vars
  BY RightsStepHolds
<1>2. QED
  BY <1>1, Invariance, PTL DEF Spec, RightsAtWrite
=============================================================================

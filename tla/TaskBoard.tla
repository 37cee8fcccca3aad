----------------------------- MODULE TaskBoard -----------------------------
(***************************************************************************)
(* Projects and tasks: the HTTP handlers that write them and the overdue    *)
(* sweep.  Each is two steps.  The first reads rows, checks them and decides *)
(* what to write: `plan[r]` is what request r carries from it.  The second  *)
(* is the handler's transaction, one atomic step at the granularity of this *)
(* module.  Anything may happen between the two.                            *)
(*                                                                          *)
(* A created task or project is named after the request that creates it, so *)
(* a deleted name never comes back.  Of a task only what the rules look at  *)
(* is kept; of its dates only on which side of the sweep's cut-off they are. *)
(* A request that is refused before its transaction changes nothing and is  *)
(* not a step.                                                              *)
(***************************************************************************)
EXTENDS Policies, Naturals, Sequences

CONSTANTS Request,      \* HTTP requests and sweep runs, each used once
          SeedProject,  \* projects there are from the start
          SeedTask,     \* tasks there are from the start
          Patches,      \* bound: the request bodies clients send
          Unsteady      \* bound: the accounts that are (de)activated

Status == {"TODO", "IN_PROGRESS", "IN_REVIEW", "DONE", "OVERDUE"}
OpenStatuses == {"TODO", "IN_PROGRESS", "IN_REVIEW"}
DeveloperStatuses == {"TODO", "IN_PROGRESS", "IN_REVIEW"}
Dues == {"never", "past", "future"}
Nobody == "nobody"      \* assignee_id is null
System == "system"      \* actor_id is null
Keep == "keep"          \* the field is absent from the body

ProjectId == SeedProject \cup Request
TaskId == SeedTask \cup Request

ProjectRow == [owner : Managers]
TaskRow == [project : ProjectId, status : Status, completed : BOOLEAN,
            assignee : Developers \cup {Nobody}, due : Dues]

\* A request body: any user may be named as the assignee, any status asked for.
Patch == [status : Status \cup {Keep}, assignee : User \cup {Nobody, Keep},
          due : Dues \cup {Keep}]

\* Activity entries about a task's status.  `to` of TASK_CREATED is history:
\* the message does not show it.
Entry == [action : {"TASK_CREATED", "TASK_STATUS_CHANGED"},
          by : User \cup {System}, from : Status, to : Status]

Notice == [to : User, type : {"TASK_ASSIGNED", "TASK_STATUS_CHANGED"},
           task : TaskId, by : Request]

ASSUME BoundsAssumption == Patches \subseteq Patch /\ Unsteady \subseteq User

\* Ids are UUIDs: a new row never gets the id of another.
ASSUME IdsAssumption == (SeedProject \cup SeedTask) \cap Request = {}

VARIABLES
  active,    \* users.is_active
  project,   \* table: a function on the ids of the stored projects
  task,      \* table
  moves,     \* moves[t]: activity entries about t's status, oldest first
  notified,  \* notifications
  plan,      \* what the requests in flight have read and decided
  done,      \* requests that ended
  raced      \* history: tasks written from a row that was no longer current

vars == <<active, project, task, moves, notified, plan, done, raced>>

UpdatePlan == [op : {"update"}, user : User, task : TaskId, before : TaskRow,
               patch : Patches]
CreatePlan == [op : {"create"}, user : User, project : ProjectId, patch : Patches]
DeletePlan == [op : {"delete"}, user : User, task : TaskId]
NewProjectPlan == [op : {"newProject"}, user : User, owner : Managers]
TransferPlan == [op : {"transfer"}, user : User, project : ProjectId, owner : Managers]
DropPlan == [op : {"drop"}, user : User, project : ProjectId]
SweepPlan == [op : {"sweep"}, seen : UNION {[S -> OpenStatuses] : S \in SUBSET TaskId}]

Plan == UpdatePlan \cup CreatePlan \cup DeletePlan \cup NewProjectPlan
          \cup TransferPlan \cup DropPlan \cup SweepPlan

-----------------------------------------------------------------------------
(* Rules *)

ProjectOf(t) == project[task[t].project]

Access(u, t) == TaskAccess(u, task[t], ProjectOf(t))

\* MUTANT: the write looks the row up by its id alone.
TaskExists(u, t) == t \in DOMAIN task

\* MUTANT: tasks without a foreign key.
ProjectAssumed(p) == TRUE

\* The WHERE clauses of the writes.
TaskWritable(u, t) == /\ t \in DOMAIN task
                      /\ InTaskScope(u, task[t], ProjectOf(t))

ProjectWritable(u, p) == p \in DOMAIN project /\ InProjectScope(u, project[p])

\* The foreign key of an inserted task.
ProjectFound(p) == p \in DOMAIN project

\* MUTANT: any active account may be assigned.
AssignableIfActive(a) == a \notin {Nobody, Keep} => active[a]

\* findAssignableDeveloper
Assignable(a) == a \in {Nobody, Keep} \/ (a \in Developers /\ active[a])

\* assertProjectManager
CanOwn(o) == o \in Managers /\ active[o]

\* parseUpdate: the body each kind of access may send.
MaySend(access, p) ==
  \/ /\ access = "manage"
     /\ p.status # "OVERDUE"
     /\ \E field \in {p.status, p.assignee, p.due} : field # Keep
  \/ /\ access = "assignee"
     /\ p.assignee = Keep /\ p.due = Keep
     /\ p.status \in DeveloperStatuses

Given(new, old) == IF new = Keep THEN old ELSE new

\* MUTANT: completed_at is never cleared.
CompletionKept(before, after, current) ==
  IF after = "DONE" /\ before # "DONE" THEN TRUE ELSE current

\* completion(before, after): the new value of "completed_at is set".
Completion(before, after, current) ==
  CASE after \in {Keep, before} -> current
    [] after = "DONE" /\ before # "DONE" -> TRUE
    [] after \notin {Keep, "DONE"} /\ before = "DONE" -> FALSE
    [] OTHER -> current

\* The UPDATE: fields of the body, and completed_at from the status READ.
Patched(row, p, before) ==
  [row EXCEPT !.status = Given(p.status, @),
              !.completed = Completion(before.status, p.status, @),
              !.assignee = Given(p.assignee, @),
              !.due = Given(p.due, @)]

\* describeUpdate: a status entry if the body moves the status that was READ.
MoveEntries(u, p, before) ==
  IF p.status \in {Keep, before.status} THEN <<>>
  ELSE <<[action |-> "TASK_STATUS_CHANGED", by |-> u, from |-> before.status,
          to |-> p.status]>>

\* MUTANT: only a task that had nobody is announced.
FirstAssignNotices(r, t, p, before) ==
  {[to |-> d, type |-> "TASK_ASSIGNED", task |-> t, by |-> r] :
     d \in {p.assignee} \cap {e \in Developers : before.assignee = Nobody}}

AssignNotices(r, t, p, before) ==
  {[to |-> d, type |-> "TASK_ASSIGNED", task |-> t, by |-> r] :
     d \in {p.assignee} \cap (Developers \ {before.assignee})}

ReviewNotices(r, u, t, p, before) ==
  IF u \in Developers /\ p.status = "IN_REVIEW" /\ before.status # "IN_REVIEW"
  THEN {[to |-> ProjectOf(t).owner, type |-> "TASK_STATUS_CHANGED", task |-> t, by |-> r]}
  ELSE {}

Overdue(t) == task[t].status \in OpenStatuses /\ task[t].due = "past"

-----------------------------------------------------------------------------
(* Requests *)

Idle(r) == r \notin DOMAIN plan \cup done

Begin(r, w) ==
  /\ plan' = [q \in DOMAIN plan \cup {r} |-> IF q = r THEN w ELSE plan[q]]
  /\ UNCHANGED <<active, project, task, moves, notified, done, raced>>

Carries(r, op) == r \in DOMAIN plan /\ plan[r].op = op

End(r) == /\ plan' = [q \in DOMAIN plan \ {r} |-> plan[q]]
          /\ done' = done \cup {r}
          /\ UNCHANGED active

Write(table, id, value) ==
  [i \in DOMAIN table \cup {id} |-> IF i = id THEN value ELSE table[i]]

Without(table, ids) == [i \in DOMAIN table \ ids |-> table[i]]

-----------------------------------------------------------------------------
(* PATCH /api/tasks/:taskId *)

ReadForUpdate(r, u, t, p) ==
  /\ Idle(r)
  /\ active[u]
  /\ t \in DOMAIN task
  /\ MaySend(Access(u, t), p)
  /\ Assignable(p.assignee)
  /\ Begin(r, [op |-> "update", user |-> u, task |-> t, before |-> task[t], patch |-> p])

CommitUpdate(r) ==
  /\ Carries(r, "update")
  /\ LET w == plan[r]
         t == w.task
     IN \/ /\ TaskWritable(w.user, t)
           /\ task' = [task EXCEPT ![t] = Patched(@, w.patch, w.before)]
           /\ moves' = [moves EXCEPT ![t] = @ \o MoveEntries(w.user, w.patch, w.before)]
           /\ notified' = notified \cup AssignNotices(r, t, w.patch, w.before)
                                   \cup ReviewNotices(r, w.user, t, w.patch, w.before)
           /\ raced' = IF task[t] = w.before THEN raced ELSE raced \cup {t}
        \/ /\ ~ TaskWritable(w.user, t)
           /\ UNCHANGED <<task, moves, notified, raced>>
  /\ End(r)
  /\ UNCHANGED project

-----------------------------------------------------------------------------
(* POST /api/projects/:projectId/tasks *)

ReadForCreate(r, u, p, body) ==
  /\ Idle(r)
  /\ active[u]
  /\ p \in DOMAIN project
  /\ CanManageProject(u, project[p])
  /\ body.status # "OVERDUE"
  /\ Assignable(body.assignee)
  /\ Begin(r, [op |-> "create", user |-> u, project |-> p, patch |-> body])

NewTask(p, body) ==
  [project |-> p,
   status |-> Given(body.status, "TODO"),
   completed |-> Completion("TODO", body.status, FALSE),
   assignee |-> Given(body.assignee, Nobody),
   due |-> Given(body.due, "never")]

\* The foreign key is all that the INSERT checks again.
CommitCreate(r) ==
  /\ Carries(r, "create")
  /\ LET w == plan[r]
         row == NewTask(w.project, w.patch)
     IN \/ /\ ProjectFound(w.project)
           /\ task' = Write(task, r, row)
           /\ moves' = [moves EXCEPT ![r] =
                          <<[action |-> "TASK_CREATED", by |-> w.user,
                             from |-> row.status, to |-> row.status]>>]
           /\ notified' = notified \cup
                {[to |-> d, type |-> "TASK_ASSIGNED", task |-> r, by |-> r] :
                   d \in {row.assignee} \cap Developers}
        \/ /\ ~ ProjectFound(w.project)
           /\ UNCHANGED <<task, moves, notified>>
  /\ End(r)
  /\ UNCHANGED <<project, raced>>

-----------------------------------------------------------------------------
(* DELETE /api/tasks/:taskId.  Notifications cascade, the history stays. *)

ReadForDelete(r, u, t) ==
  /\ Idle(r)
  /\ active[u]
  /\ t \in DOMAIN task
  /\ Access(u, t) = "manage"
  /\ Begin(r, [op |-> "delete", user |-> u, task |-> t])

CommitDelete(r) ==
  /\ Carries(r, "delete")
  /\ LET t == plan[r].task
     IN \/ /\ TaskWritable(plan[r].user, t)
           /\ task' = Without(task, {t})
           /\ notified' = {n \in notified : n.task # t}
        \/ /\ ~ TaskWritable(plan[r].user, t)
           /\ UNCHANGED <<task, notified>>
  /\ End(r)
  /\ UNCHANGED <<project, moves, raced>>

-----------------------------------------------------------------------------
(* POST, PATCH and DELETE /api/projects *)

ReadForNewProject(r, u, o) ==
  /\ Idle(r)
  /\ active[u]
  /\ \/ u \in Admins /\ CanOwn(o)
     \/ u \in Managers /\ o = u
  /\ Begin(r, [op |-> "newProject", user |-> u, owner |-> o])

CommitNewProject(r) ==
  /\ Carries(r, "newProject")
  /\ project' = Write(project, r, [owner |-> plan[r].owner])
  /\ End(r)
  /\ UNCHANGED <<task, moves, notified, raced>>

\* A PATCH that names an owner; one who is the owner already is not checked.
ReadForTransfer(r, u, p, o) ==
  /\ Idle(r)
  /\ active[u]
  /\ p \in DOMAIN project
  /\ CanManageProject(u, project[p])
  /\ o = project[p].owner \/ (u \in Admins /\ CanOwn(o))
  /\ Begin(r, [op |-> "transfer", user |-> u, project |-> p, owner |-> o])

CommitTransfer(r) ==
  /\ Carries(r, "transfer")
  /\ LET w == plan[r]
     IN \/ /\ ProjectWritable(w.user, w.project)
           /\ project' = [project EXCEPT ![w.project].owner = w.owner]
        \/ /\ ~ ProjectWritable(w.user, w.project)
           /\ UNCHANGED project
  /\ End(r)
  /\ UNCHANGED <<task, moves, notified, raced>>

ReadForDrop(r, u, p) ==
  /\ Idle(r)
  /\ active[u]
  /\ p \in DOMAIN project
  /\ CanManageProject(u, project[p])
  /\ Begin(r, [op |-> "drop", user |-> u, project |-> p])

\* Tasks and notifications cascade.
CommitDrop(r) ==
  /\ Carries(r, "drop")
  /\ LET p == plan[r].project
         gone == {t \in DOMAIN task : task[t].project = p}
     IN \/ /\ ProjectWritable(plan[r].user, p)
           /\ project' = Without(project, {p})
           /\ task' = Without(task, gone)
           /\ notified' = {n \in notified : n.task \notin gone}
        \/ /\ ~ ProjectWritable(plan[r].user, p)
           /\ UNCHANGED <<project, task, notified>>
  /\ End(r)
  /\ UNCHANGED <<moves, raced>>

-----------------------------------------------------------------------------
(* The overdue sweep: one batch.  Candidates are read before the transaction. *)

ReadCandidates(r) ==
  /\ Idle(r)
  /\ \E t \in DOMAIN task : Overdue(t)
  /\ Begin(r, [op |-> "sweep",
               seen |-> [t \in {c \in DOMAIN task : Overdue(c)} |-> task[t].status]])

\* MUTANTS: the bulk UPDATE without its status, or without its due date.
StillPast(seen) == {t \in DOMAIN seen \cap DOMAIN task : task[t].due = "past"}
StillInStatus(seen) == {t \in DOMAIN seen \cap DOMAIN task : task[t].status = seen[t]}

\* The bulk UPDATE of a status repeats the status and the due date.
StillOverdue(seen) == {t \in DOMAIN seen \cap DOMAIN task :
                         task[t].status = seen[t] /\ task[t].due = "past"}

CommitSweep(r) ==
  /\ Carries(r, "sweep")
  /\ LET seen == plan[r].seen
         flagged == StillOverdue(seen)
     IN /\ task' = [t \in DOMAIN task |->
                      IF t \in flagged THEN [task[t] EXCEPT !.status = "OVERDUE"]
                      ELSE task[t]]
        /\ moves' = [t \in TaskId |->
                       IF t \in flagged
                       THEN Append(moves[t], [action |-> "TASK_STATUS_CHANGED", by |-> System,
                                              from |-> seen[t], to |-> "OVERDUE"])
                       ELSE moves[t]]
  /\ End(r)
  /\ UNCHANGED <<project, notified, raced>>

-----------------------------------------------------------------------------
(* The environment *)

\* The transaction rolls back, or the process dies before its COMMIT.
Abandon(r) ==
  /\ r \in DOMAIN plan
  /\ End(r)
  /\ UNCHANGED <<project, task, moves, notified, raced>>

\* Accounts are deactivated and reactivated outside the API.
SetActive(u) ==
  /\ active' = [active EXCEPT ![u] = ~ @]
  /\ UNCHANGED <<project, task, moves, notified, plan, done, raced>>

-----------------------------------------------------------------------------
Init ==
  /\ active = [u \in User |-> TRUE]
  /\ project \in [SeedProject -> ProjectRow]
  /\ task \in [SeedTask -> {row \in TaskRow :
                              /\ row.project \in SeedProject
                              /\ row.completed <=> row.status = "DONE"
                              /\ row.status = "OVERDUE" => row.due = "past"}]
  /\ moves = [t \in TaskId |->
                IF t \in SeedTask
                THEN <<[action |-> "TASK_CREATED", by |-> System,
                        from |-> task[t].status, to |-> task[t].status]>>
                ELSE <<>>]
  /\ notified = {}
  /\ plan = [r \in {} |-> [op |-> "none"]]
  /\ done = {}
  /\ raced = {}

Read(r, u) ==
  \/ \E t \in DOMAIN task : \/ \E p \in Patches : ReadForUpdate(r, u, t, p)
                            \/ ReadForDelete(r, u, t)
  \/ \E p \in DOMAIN project : \/ \E b \in Patches : ReadForCreate(r, u, p, b)
                               \/ \E o \in Managers : ReadForTransfer(r, u, p, o)
                               \/ ReadForDrop(r, u, p)
  \/ \E o \in Managers : ReadForNewProject(r, u, o)

Commit(r) ==
  \/ CommitUpdate(r)
  \/ CommitCreate(r)
  \/ CommitDelete(r)
  \/ CommitNewProject(r)
  \/ CommitTransfer(r)
  \/ CommitDrop(r)
  \/ CommitSweep(r)

Next == \/ \E r \in Request : \/ \E u \in User : Read(r, u)
                              \/ ReadCandidates(r)
                              \/ Commit(r)
                              \/ Abandon(r)
        \/ \E u \in Unsteady : SetActive(u)

Spec == Init /\ [][Next]_vars

-----------------------------------------------------------------------------
(* Properties *)

\* Types.  They include two rules no foreign key can state: a task is assigned
\* to a developer, a project is owned by a project manager.
TypeOK ==
  /\ active \in [User -> BOOLEAN]
  /\ DOMAIN project \subseteq ProjectId /\ project \in [DOMAIN project -> ProjectRow]
  /\ DOMAIN task \subseteq TaskId /\ task \in [DOMAIN task -> TaskRow]
  /\ moves \in [TaskId -> Seq(Entry)]
  /\ notified \subseteq Notice
  /\ DOMAIN plan \subseteq Request /\ \A r \in DOMAIN plan : plan[r] \in Plan
  /\ done \subseteq Request
  /\ raced \subseteq TaskId

\* No interleaving of creations and cascading deletions leaves a task without
\* its project or a notification about a task that is gone.
NoOrphans == /\ \A t \in DOMAIN task : task[t].project \in DOMAIN project
             /\ \A n \in notified : n.task \in DOMAIN task

\* completed_at is set exactly on DONE tasks, whatever moved them there or
\* away, as long as no update wrote over a row that had changed since it read it.
CompletionInStep ==
  \A t \in DOMAIN task \ raced : task[t].completed <=> task[t].status = "DONE"

\* The rights checked on a row that was read still hold when it is written:
\* whatever changed in between, a task is only changed or deleted by who may
\* manage it now, or moved short of DONE by its assignee of now; a project is
\* only changed or deleted by who may manage it now.
Authorised(w, t) ==
  \/ CanManageProject(w.user, ProjectOf(t))
  \/ /\ t \in DOMAIN task'
     /\ w.user = task[t].assignee
     /\ task'[t].status \in DeveloperStatuses
     /\ task'[t].assignee = task[t].assignee
     /\ task'[t].due = task[t].due

RightsStep ==
  \A r \in DOMAIN plan \ DOMAIN plan' :
    LET w == plan[r] IN
    /\ w.op # "sweep" =>
         \A t \in DOMAIN task :
           (t \notin DOMAIN task' \/ task'[t] # task[t]) => Authorised(w, t)
    /\ \A p \in DOMAIN project :
         (p \notin DOMAIN project' \/ project'[p] # project[p])
           => w.op # "sweep" /\ CanManageProject(w.user, project[p])

RightsAtWrite == [][RightsStep]_vars

\* A task that becomes OVERDUE was open and past its due date at that moment,
\* and its newest entry records the status that was replaced, also when the
\* task moved or was edited after the sweep had picked it.
SweepStep ==
  \A t \in DOMAIN task \cap DOMAIN task' :
    (task[t].status # "OVERDUE" /\ task'[t].status = "OVERDUE")
      => /\ task[t].status \in OpenStatuses
         /\ task[t].due = "past"
         /\ moves'[t] = Append(moves[t], [action |-> "TASK_STATUS_CHANGED", by |-> System,
                                          from |-> task[t].status, to |-> "OVERDUE"])

SweepRecordsReplaced == [][SweepStep]_vars

\* The audit trail tells what happened to a task: its entries chain, and end at
\* the status the task has, unless an update wrote over a row it had not seen.
TrailMatches ==
  \A t \in DOMAIN task \ raced :
    LET trail == moves[t] IN
    /\ trail # <<>>
    /\ trail[Len(trail)].to = task[t].status
    /\ \A i \in 2..Len(trail) : trail[i].from = trail[i-1].to

\* Who gets a task is told, unless the update that gave it had read a row that
\* was no longer current.
Told(t) == \E n \in notified' \ notified :
             n.to = task'[t].assignee /\ n.type = "TASK_ASSIGNED" /\ n.task = t

Handed(t) == /\ task'[t].assignee # Nobody
             /\ t \in DOMAIN task => task[t].assignee # task'[t].assignee

ToldStep == \A t \in DOMAIN task' \ raced' : Handed(t) => Told(t)

NewAssigneeTold == [][ToldStep]_vars

-----------------------------------------------------------------------------
(* What comments and docs of the code say, and stale reads break. *)

\* "Keeps completedAt in step with the DONE status."
CompletedAtInStep == \A t \in DOMAIN task : task[t].completed <=> task[t].status = "DONE"
=============================================================================

---------------------------- MODULE OverdueSweep ----------------------------
(***************************************************************************)
(* The overdue sweep, run by several API instances on one database: cron    *)
(* ticks, batches with a keyset cursor, the advisory lock of each batch's   *)
(* transaction, and the UPDATE of each status as a statement of its own.    *)
(*                                                                          *)
(* `status` is the committed table.  Rows an open batch has flagged are in  *)
(* run[i].drafted until it commits; they are locked, so that no user's      *)
(* UPDATE gets past them.  TaskBoard has a batch as one step among all the  *)
(* writers of a task; here one writer is looked at closely.                 *)
(***************************************************************************)
EXTENDS Naturals, FiniteSets

CONSTANTS Instance,   \* API processes with JOBS_ENABLED
          Task,       \* task ids, ordered as the database orders them
          BatchSize,
          Seeds,      \* bound: the tables of tasks there are at first
          MaxClock,   \* bound: the clock stops here
          Moves,      \* bound: the statuses users move tasks to
          MaxEdits,   \* bound: changes by users
          MaxFaults   \* bound: failing runs, dying and stopping processes

OpenStatuses == <<"TODO", "IN_PROGRESS", "IN_REVIEW">>
Open == {OpenStatuses[k] : k \in 1..3}
Status == Open \cup {"DONE", "OVERDUE"}

ASSUME SizesAssumption == /\ Task \subseteq Nat \ {0} /\ IsFiniteSet(Task)
                          /\ BatchSize \in Nat \ {0}

ASSUME BoundsAssumption ==
  /\ Seeds \subseteq [Task -> [status : Status \ {"OVERDUE"}, due : Nat]]
  /\ Moves \subseteq Status \ {"OVERDUE"}
  /\ MaxClock \in Nat

VARIABLES
  clock,
  status,   \* tasks.status
  due,      \* tasks.due_date
  up,       \* up[i]: "up", "stopping" (waits for its run) or "stopped"
  run,      \* run[i]: the sweep in flight and its local variables
  outcome,  \* outcome[i]: how the last run ended
  owed,     \* history: overdue when the run of i began, and untouched since
  entries,  \* history: system entries of a task since a user last moved it
  edits, faults

vars == <<clock, status, due, up, run, outcome, owed, entries, edits, faults>>

\* `now` is the cut-off; `cursor` the last candidate so far, 0 before the first;
\* `seen` the status each candidate of the batch had; `next` the index of the
\* next status to update, 4 after the last; `drafted` the rows flagged so far.
Local(p, n, c, s, k, d) ==
  [pc |-> p, now |-> n, cursor |-> c, seen |-> s, next |-> k, drafted |-> d]

NoTasks == [t \in {} |-> "TODO"]

Seen == UNION {[ids -> Open] : ids \in SUBSET Task}

RunRow == [pc : {"idle", "read", "lock", "update"}, now : Nat, cursor : Task \cup {0},
           seen : Seen, next : 1..4, drafted : SUBSET Task]

NoRun == Local("idle", 0, 0, NoTasks, 4, {})

-----------------------------------------------------------------------------
Overdue(t, cutoff) == status[t] \in Open /\ due[t] < cutoff

\* What is left for the run: overdue tasks behind its cursor.
Behind(i) == {t \in Task : Overdue(t, run[i].now) /\ t > run[i].cursor}

\* The first BatchSize of them.
Batch(i) == {t \in Behind(i) : Cardinality({u \in Behind(i) : u < t}) < BatchSize}

LastOf(ids) == CHOOSE t \in ids : \A u \in ids : u <= t

\* The first status from the k-th on that a candidate has; 4 if there is none.
Group(seen, k) ==
  CHOOSE g \in k..4 :
    /\ g = 4 \/ \E t \in DOMAIN seen : seen[t] = OpenStatuses[g]
    /\ \A h \in k..(g - 1) : \A t \in DOMAIN seen : seen[t] # OpenStatuses[h]

\* pg_try_advisory_xact_lock: held to the end of the transaction.
LockFree(i) == \A j \in Instance \ {i} : run[j].pc # "update"

\* A row flagged by an open transaction is locked.
Locked(t) == \E j \in Instance : t \in run[j].drafted

-----------------------------------------------------------------------------
(* The scheduler *)

\* startJobs and every cron tick begin a run unless one is in flight.
Begin(i) ==
  /\ up[i] = "up"
  /\ run[i] = NoRun
  /\ run' = [run EXCEPT ![i] = Local("read", clock, 0, NoTasks, 4, {})]
  /\ outcome' = [outcome EXCEPT ![i] = "none"]
  /\ owed' = [owed EXCEPT ![i] = {t \in Task : Overdue(t, clock)}]
  /\ UNCHANGED <<clock, status, due, up, entries, edits, faults>>

\* MUTANT: `inFlight` is not cleared.
FinishInFlight(i, how) ==
  /\ run' = [run EXCEPT ![i].pc = "idle", ![i].seen = NoTasks, ![i].drafted = {}]
  /\ outcome' = [outcome EXCEPT ![i] = how]

\* MUTANT: what a failed batch flagged is not rolled back.
FinishDirty(i, how) ==
  /\ run' = [run EXCEPT ![i] = [NoRun EXCEPT !.drafted = run[i].drafted]]
  /\ outcome' = [outcome EXCEPT ![i] = how]

\* The run ends and `inFlight` is cleared; what it had not committed is gone.
Finish(i, how) == /\ run' = [run EXCEPT ![i] = NoRun]
                  /\ outcome' = [outcome EXCEPT ![i] = how]

\* The shutdown handler stops the cron task, then awaits the run in flight.
StopJobs(i) ==
  /\ up[i] = "up"
  /\ faults < MaxFaults
  /\ faults' = faults + 1
  /\ up' = [up EXCEPT ![i] = "stopping"]
  /\ UNCHANGED <<clock, status, due, run, outcome, owed, entries, edits>>

Stopped(i) ==
  /\ up[i] = "stopping"
  /\ run[i] = NoRun
  /\ up' = [up EXCEPT ![i] = "stopped"]
  /\ UNCHANGED <<clock, status, due, run, outcome, owed, entries, edits, faults>>

-----------------------------------------------------------------------------
(* runOverdueSweep *)

ReadCandidates(i) ==
  /\ run[i].pc = "read"
  /\ LET ids == Batch(i)
         seen == [t \in ids |-> status[t]]
     IN \/ ids = {} /\ Finish(i, "complete")
        \/ /\ ids # {}
           /\ run' = [run EXCEPT ![i] = Local("lock", @.now, LastOf(ids), seen,
                                              Group(seen, 1), {})]
           /\ UNCHANGED outcome
  /\ UNCHANGED <<clock, status, due, up, owed, entries, edits, faults>>

TryLock(i) ==
  /\ run[i].pc = "lock"
  /\ \/ LockFree(i) /\ run' = [run EXCEPT ![i].pc = "update"] /\ UNCHANGED outcome
     \/ ~ LockFree(i) /\ Finish(i, "skipped")
  /\ UNCHANGED <<clock, status, due, up, owed, entries, edits, faults>>

\* MUTANT: the bulk UPDATE without its status.
MatchesPast(i, s) == {t \in DOMAIN run[i].seen : run[i].seen[t] = s /\ due[t] < run[i].now}

\* WHERE id IN ... AND status = s AND due_date < now
Matches(i, s) == {t \in DOMAIN run[i].seen : /\ run[i].seen[t] = s
                                             /\ status[t] = s
                                             /\ due[t] < run[i].now}

\* The bulk UPDATE of one status.
UpdateStatus(i) ==
  /\ run[i].pc = "update"
  /\ run[i].next # 4
  /\ run' = [run EXCEPT ![i].drafted = @ \cup Matches(i, OpenStatuses[run[i].next]),
                        ![i].next = Group(run[i].seen, @ + 1)]
  /\ UNCHANGED <<clock, status, due, up, outcome, owed, entries, edits, faults>>

\* MUTANT: a batch that is just full is taken for the last one.
ShortOrFull(ids) == Cardinality(ids) <= BatchSize

\* A batch that is not full is the last one.
Short(ids) == Cardinality(ids) < BatchSize

\* Flags and entries become visible together and the lock is released.  The next
\* batch is read after a pause.
CommitBatch(i) ==
  /\ run[i].pc = "update"
  /\ run[i].next = 4
  /\ LET done == run[i].drafted
     IN /\ status' = [t \in Task |-> IF t \in done THEN "OVERDUE" ELSE status[t]]
        /\ entries' = [t \in Task |-> IF t \in done THEN entries[t] + 1 ELSE entries[t]]
  /\ \/ Short(DOMAIN run[i].seen) /\ Finish(i, "complete")
     \/ /\ ~ Short(DOMAIN run[i].seen)
        /\ run' = [run EXCEPT ![i] = Local("read", @.now, @.cursor, NoTasks, 4, {})]
        /\ UNCHANGED outcome
  /\ UNCHANGED <<clock, due, up, owed, edits, faults>>

-----------------------------------------------------------------------------
(* The environment *)

\* A query fails, or the process dies and is started again: the transaction
\* rolls back, and the next run starts from the beginning.
Fail(i) ==
  /\ run[i] # NoRun
  /\ faults < MaxFaults
  /\ faults' = faults + 1
  /\ Finish(i, "failed")
  /\ UNCHANGED <<clock, status, due, up, owed, entries, edits>>

\* A user changes a task, once no open batch has the row locked.
Edit(t) ==
  /\ edits < MaxEdits
  /\ ~ Locked(t)
  /\ edits' = edits + 1
  /\ owed' = [i \in Instance |-> owed[i] \ {t}]
  /\ UNCHANGED <<clock, up, run, outcome, faults>>

Move(t, s) ==
  /\ Edit(t)
  /\ s # status[t]
  /\ status' = [status EXCEPT ![t] = s]
  /\ entries' = [entries EXCEPT ![t] = 0]
  /\ UNCHANGED due

Reschedule(t, d) ==
  /\ Edit(t)
  /\ d # due[t]
  /\ due' = [due EXCEPT ![t] = d]
  /\ UNCHANGED <<status, entries>>

Tick ==
  /\ clock < MaxClock
  /\ clock' = clock + 1
  /\ UNCHANGED <<status, due, up, run, outcome, owed, entries, edits, faults>>

-----------------------------------------------------------------------------
Init ==
  /\ clock = 1
  /\ \E seed \in Seeds : /\ status = [t \in Task |-> seed[t].status]
                        /\ due = [t \in Task |-> seed[t].due]
  /\ up = [i \in Instance |-> "up"]
  /\ run = [i \in Instance |-> NoRun]
  /\ outcome = [i \in Instance |-> "none"]
  /\ owed = [i \in Instance |-> {}]
  /\ entries = [t \in Task |-> 0]
  /\ edits = 0
  /\ faults = 0

\* What cron, the event loop and the database do of themselves.
Proceed(i) == \/ Begin(i)
              \/ ReadCandidates(i)
              \/ TryLock(i)
              \/ UpdateStatus(i)
              \/ CommitBatch(i)
              \/ Stopped(i)

Next == \/ \E i \in Instance : Proceed(i) \/ StopJobs(i) \/ Fail(i)
        \/ \E t \in Task : \/ \E s \in Moves : Move(t, s)
                          \/ \E d \in {0, MaxClock} : Reschedule(t, d)
        \/ Tick

Spec == Init /\ [][Next]_vars

FairSpec == Spec /\ \A i \in Instance : WF_vars(Proceed(i))

-----------------------------------------------------------------------------
(* Properties *)

\* Types; candidates and flagged rows belong to a transaction in progress.
TypeOK ==
  /\ clock \in Nat /\ edits \in Nat /\ faults \in Nat
  /\ status \in [Task -> Status]
  /\ due \in [Task -> Nat]
  /\ up \in [Instance -> {"up", "stopping", "stopped"}]
  /\ run \in [Instance -> RunRow]
  /\ \A i \in Instance : /\ run[i].drafted \subseteq DOMAIN run[i].seen
                         /\ run[i].drafted # {} => run[i].pc = "update"
  /\ outcome \in [Instance -> {"none", "complete", "skipped", "failed"}]
  /\ owed \in [Instance -> SUBSET Task]
  /\ entries \in [Task -> Nat]

\* A sweep that reports completion has left nothing behind: each task that was
\* overdue when it began, and that no user changed since, is OVERDUE, however
\* many batches it took and whatever other instances did meanwhile.
CompleteSweep ==
  \A i \in Instance :
    outcome[i] = "complete" => \A t \in owed[i] : status[t] = "OVERDUE"

\* Instances sweeping at once never flag or log a task twice: between two moves
\* by users a task gets at most one system entry, and gets it by becoming OVERDUE.
FlaggedOnce == \A t \in Task : entries[t] = IF status[t] = "OVERDUE" THEN 1 ELSE 0

\* No task stays overdue for good, whatever the instances skip, fail or retry, as
\* long as one of them keeps running.
OverdueIsFlagged ==
  \A t \in Task :
    Overdue(t, clock) ~> (~ Overdue(t, clock) \/ \A i \in Instance : up[i] = "stopped")
=============================================================================

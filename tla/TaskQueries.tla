---------------------------- MODULE TaskQueries ----------------------------
(***************************************************************************)
(* What the dashboard's queries compute from the tables: the rows in a       *)
(* user's scope, the page of them that a query asks for, and the summaries.  *)
(*                                                                          *)
(* A database db has db.task, the rows by id (ids are numbers, in the order  *)
(* of the ids), and db.owner, the owners of the projects.  A query holds the *)
(* parameters as they arrive: lists of comma-separated values.  A due date   *)
(* is in the first (2 d) or the second half (2 d + 1) of a day d.            *)
(***************************************************************************)
EXTENDS Policies, Integers, FiniteSets, Sequences, SequencesExt, FiniteSetsExt

TaskStatus == {"TODO", "IN_PROGRESS", "IN_REVIEW", "DONE", "OVERDUE"}
Priority == {"LOW", "MEDIUM", "HIGH", "URGENT"}
PriorityRank == [LOW |-> 0, MEDIUM |-> 1, HIGH |-> 2, URGENT |-> 3]
ListKey == {"status", "priority"}
Enum == [status |-> TaskStatus, priority |-> Priority]
NoDay == -1
Whole == -1        \* an error about all of a parameter
Late == 1000       \* after every due date

OwnerOf(db, t) == db.owner[db.task[t].project]

\* taskScope, and the scope each dashboard endpoint repeats for its role.
InScope(u, db) ==
  {t \in DOMAIN db.task : InTaskScope(u, db.task[t], [owner |-> OwnerOf(db, t)])}

-----------------------------------------------------------------------------
(* Query parameters *)

\* A value of blanks only stands for everything that is blank once it is trimmed.
Trim(value) == IF value = " " THEN "" ELSE value

Flat(raw) == FlattenSeq(raw)

\* The values other than v, in their order.
Without(values, v) ==
  LET kept[i \in 0..Len(values)] ==
        IF i = 0 THEN <<>>
        ELSE IF values[i] = v THEN kept[i - 1] ELSE Append(kept[i - 1], values[i])
  IN kept[Len(values)]

ListParam(raw) == Without([i \in DOMAIN Flat(raw) |-> Trim(Flat(raw)[i])], "")

DayStart(day) == 2 * day
DayEnd(day) == 2 * day + 1

\* A list has no page before its first task.
OffsetErrors(q) == IF q.offset < 0 THEN {<<"offset", 0>>} ELSE {}

\* What is wrong with each parameter: the position in the list as it was parsed
\* (0 first, as in the paths of the answer), or the whole of it.
FieldErrors(q) ==
  OffsetErrors(q) \cup
  UNION {LET values == ListParam(q.lists[key])
         IN IF q.lists[key] # <<>> /\ values = <<>> THEN {<<key, Whole>>}
            ELSE {<<key, i - 1>> : i \in {j \in DOMAIN values : values[j] \notin Enum[key]}}
         : key \in ListKey}

BadRange(q) == q.from # NoDay /\ q.to # NoDay /\ DayStart(q.from) > DayEnd(q.to)

ValueErrors(q) == {e \in FieldErrors(q) : e[1] \in ListKey /\ e[2] # Whole}

\* The range is looked at unless a value by itself is wrong: an empty list, and a
\* number that is too small, let the checks of the whole query go on.
QueryErrors(q) ==
  FieldErrors(q) \cup IF BadRange(q) /\ ValueErrors(q) = {} THEN {<<"dueTo", 0>>} ELSE {}

Wanted(q, key) ==
  IF q.lists[key] = <<>> THEN Enum[key] ELSE ToSet(ListParam(q.lists[key]))

InRange(q, due) ==
  /\ q.from # NoDay => due # Late /\ due >= DayStart(q.from)
  /\ q.to # NoDay => due # Late /\ due <= DayEnd(q.to)

SortOf(q) == IF q.sort = "default" THEN "dueDate" ELSE q.sort

\* The rows a list shows and counts: in scope AND matching the filters.
Matching(u, db, q) ==
  {t \in InScope(u, db) : /\ db.task[t].status \in Wanted(q, "status")
                          /\ db.task[t].priority \in Wanted(q, "priority")
                          /\ InRange(q, db.task[t].due)}

\* MUTANT: the sort orders do not end in the id.
SortKeyNoTie(sort, t, row) ==
  CASE sort = "dueDate" -> <<row.due, 0>>
    [] sort = "-priority" -> <<- PriorityRank[row.priority], row.due, 0>>
    [] sort = "-createdAt" -> <<- row.created, 0>>

\* The sort orders the app offers; a task without a due date comes last.
SortKey(sort, t, row) ==
  CASE sort = "dueDate" -> <<row.due, t>>
    [] sort = "-priority" -> <<- PriorityRank[row.priority], row.due, t>>
    [] sort = "-createdAt" -> <<- row.created, - t>>

Before(k, l) ==
  \E i \in DOMAIN k : k[i] < l[i] /\ \A j \in 1..(i - 1) : k[j] = l[j]

\* The database may return rows whose keys are equal in any order.
Orders(rows, sort, db) ==
  LET key == [t \in rows |-> SortKey(sort, t, db.task[t])]
  IN {s \in SetToSeqs(rows) : \A i, j \in DOMAIN s : i < j => ~ Before(key[s[j]], key[s[i]])}

Pages(u, db, q, limit) ==
  LET rows == Matching(u, db, q)
  IN {SubSeq(s, q.offset + 1, IF q.offset + limit < Cardinality(rows) THEN q.offset + limit
                              ELSE Cardinality(rows)) : s \in Orders(rows, SortOf(q), db)}

-----------------------------------------------------------------------------
(* Summaries *)

OpenStatuses == {"TODO", "IN_PROGRESS", "IN_REVIEW"}

Open(rows, db) == {t \in rows : db.task[t].status \in OpenStatuses}

\* GROUP BY: only groups that have rows are in the result.
GroupBy(rows, key(_)) ==
  [k \in {key(t) : t \in rows} |-> Cardinality({t \in rows : key(t) = k})]

CountsBy(keys, groups) == [k \in keys |-> IF k \in DOMAIN groups THEN groups[k] ELSE 0]

Total(counts) == MapThenSumSet(LAMBDA k : counts[k], DOMAIN counts)

OwnProjects(u, db) == {p \in DOMAIN db.owner : db.owner[p] = u}

PerProjectStatus(u, db) ==
  GroupBy(InScope(u, db), LAMBDA t : <<db.task[t].project, db.task[t].status>>)

OpenByPriority(u, db) == GroupBy(Open(InScope(u, db), db), LAMBDA t : db.task[t].priority)

TasksByStatus(u, db) == GroupBy(InScope(u, db), LAMBDA t : db.task[t].status)

\* The first open tasks that are due from now on and within the week.
Upcoming(u, db, now, week, limit) ==
  LET rows == {t \in Open(InScope(u, db), db) : db.task[t].due \in now..(now + week)}
  IN UNION {{SubSeq(s, 1, IF limit < Len(s) THEN limit ELSE Len(s))} : s \in Orders(rows, "dueDate", db)}

\* MUTANT: the groups are matched by status alone.
ProjectTallyAny(p, groups) ==
  LET any == [s \in {k[2] : k \in DOMAIN groups} |->
                groups[CHOOSE k \in DOMAIN groups : k[2] = s]]
      byStatus == CountsBy(TaskStatus, any)
  IN [total |-> Total(byStatus), done |-> byStatus["DONE"], overdue |-> byStatus["OVERDUE"]]

\* A project's line of the summary, from the groups of all projects.
ProjectTally(p, groups) ==
  LET own == [s \in {k[2] : k \in {l \in DOMAIN groups : l[1] = p}} |-> groups[<<p, s>>]]
      byStatus == CountsBy(TaskStatus, own)
  IN [total |-> Total(byStatus), done |-> byStatus["DONE"], overdue |-> byStatus["OVERDUE"]]

=============================================================================

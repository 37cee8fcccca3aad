----------------------------- MODULE Dashboard -----------------------------
(***************************************************************************)
(* A dashboard page that is open while other people work: the task list,     *)
(* whose filters live in the URL, or the summary above it.  They only meet   *)
(* in the tables they read, so a behaviour follows one of the two panels.    *)
(*                                                                          *)
(* Each answer is put together from several queries, and each query sees     *)
(* the tables of its own moment.                                             *)
(***************************************************************************)
EXTENDS TaskQueries

CONSTANTS SeedDb,       \* the tables the page may start from
          Chips,        \* Chips[key]: the values offered for a list filter
          HandLists,    \* status parameters somebody may write by hand
          HandOffsets,  \* offsets somebody may write by hand
          Days,         \* days the date inputs offer
          PageSize,
          Slot,         \* bound: list requests in flight
          Now, Week, UpcomingLimit,
          MaxEdits,     \* bound: actions of the user on the list
          MaxChanges,   \* bound: changes of the tables by others
          MaxFaults,    \* bound: requests that fail
          NewTask       \* ids of the tasks others may create

ASSUME SizesAssumption == PageSize \in Nat \ {0} /\ UpcomingLimit \in Nat \ {0}

\* What the schema says of the tables: a task has a status, a priority and an
\* existing project, and is unassigned or a developer's; ids are numbers here.
Tables(d) ==
  LET Row == [status : TaskStatus, priority : Priority, due : Int, created : Int,
              assignee : Developers \cup {"nobody"}, project : DOMAIN d.owner]
  IN /\ d = [owner |-> d.owner, task |-> d.task]
     /\ IsFiniteSet(DOMAIN d.owner) /\ d.owner \in [DOMAIN d.owner -> User]
     /\ IsFiniteSet(DOMAIN d.task) /\ DOMAIN d.task \subseteq Nat
     /\ d.task \in [DOMAIN d.task -> Row]

ASSUME SeedAssumption == \A d \in SeedDb : Tables(d)

\* Parameters are lists of lists of values, and numbers.
ASSUME InputsAssumption ==
  /\ \A key \in ListKey : Chips[key] \subseteq STRING
  /\ HandLists \subseteq Seq(Seq(STRING))
  /\ HandOffsets \subseteq Int
  /\ NewTask \subseteq Nat /\ Now \in Int

VARIABLES
  db,              \* the tables
  viewer, panel,   \* who looks, at which panel
  url,             \* the filters in the address bar
  req,             \* list requests in flight
  shown, loading,  \* the list on the screen
  steady, pages,   \* history: no change since the first page was asked; pages seen
  part, summary,   \* the summary's queries, and what it shows
  past,            \* history: the tables since the summary was asked
  edits, changes, faults

list == <<url, req, shown, loading, steady, pages, edits>>
totals == <<part, summary, past>>
vars == <<db, viewer, panel, list, totals, changes, faults>>

\* useTaskFilters' defaults: developers see their most urgent tasks first, and
\* the other lists name no sort.
AppSort == IF viewer \in Developers THEN "-priority" ELSE "default"
Sorts == {"dueDate", "-priority", "-createdAt"}

NoFilters == [lists |-> [key \in ListKey |-> <<>>], from |-> NoDay, to |-> NoDay,
              sort |-> "default", offset |-> 0]
ApiQuery(u) == [u EXCEPT !.sort = IF @ = "default" THEN AppSort ELSE @]

Free == [phase |-> "free"]
Unread == <<>>     \* what a query has read is <<its rows>>
Nothing == [kind |-> "nothing", current |-> FALSE]
Failure == [kind |-> "failed", current |-> FALSE]
NoPages == [o \in {} |-> {}]

-----------------------------------------------------------------------------
(* The list: the user and the URL *)

Request(u) == [phase |-> "asked", query |-> ApiQuery(u), page |-> Unread, total |-> Unread]

\* MUTANT: the effect has no cleanup.
KeepAll(rs) == rs

\* The cleanup of the effect aborts the request that is still in flight.
Aborted(rs) == [i \in Slot |-> Free]

Send(u) ==
  LET free == {i \in Slot : Aborted(req)[i] = Free}
  IN /\ free # {}
     /\ req' = [Aborted(req) EXCEPT ![Min(free)] = Request(u)]

\* Every change of the URL is a new request; the old rows stay on the screen.
\* `orderly` is history: no page is skipped.
Navigate(u, orderly) ==
  /\ panel = "list" /\ edits < MaxEdits /\ edits' = edits + 1
  /\ u # url /\ url' = u
  /\ Send(u)
  /\ loading' = TRUE
  /\ shown' = [shown EXCEPT !.current = FALSE]
  /\ steady' = (u.offset = 0 \/ (steady /\ orderly))
  /\ pages' = IF u.offset = 0 THEN NoPages ELSE pages
  /\ UNCHANGED <<db, viewer, panel, totals, changes, faults>>

\* MUTANT: a changed filter stays on the page.
SamePage(u) == u

\* Any filter change goes back to the first page.
FirstPage(u) == [u EXCEPT !.offset = 0]

\* MUTANT: empty values count.
ListValuesRaw(raw) == Flat(raw)

ListValues(raw) == Without(Flat(raw), "")

\* What `update` writes: one parameter for each value.
Repeated(values) == [i \in DOMAIN values |-> <<values[i]>>]

Toggle(key, v) ==
  LET values == ListValues(url.lists[key])
      next == IF v \in ToSet(values) THEN Without(values, v) ELSE Append(values, v)
  IN Navigate(FirstPage([url EXCEPT !.lists[key] = Repeated(next)]), TRUE)

SetDate(end, day) ==
  Navigate(FirstPage(IF end = "from" THEN [url EXCEPT !.from = day] ELSE [url EXCEPT !.to = day]), TRUE)

\* The default of the app is written as no sort at all.
SetSort(sort) ==
  /\ sort # SortOf(ApiQuery(url))
  /\ Navigate(FirstPage([url EXCEPT !.sort = IF sort = AppSort THEN "default" ELSE sort]), TRUE)

\* "Clear filters", or "Reset filters" beside the errors.
ClearFilters ==
  /\ [url EXCEPT !.offset = 0] # NoFilters \/ shown.kind = "invalid"
  /\ Navigate(NoFilters, TRUE)

\* A link, or the address bar, says anything.
EditUrl ==
  \E raw \in HandLists, o \in HandOffsets :
    Navigate([url EXCEPT !.lists["status"] = raw, !.offset = o], FALSE)

HasPager == shown.kind = "page" /\ shown.total > PageSize

\* The buttons go by the answer on the screen, also while the next one loads.
TurnPage(o) == Navigate([url EXCEPT !.offset = o], shown.current)

NextPage ==
  /\ HasPager /\ shown.offset + PageSize < shown.total
  /\ TurnPage(shown.offset + PageSize)

\* MUTANT: Previous may go below the first task.
BackUnbounded(o) == o - PageSize

BackFrom(o) == IF o < PageSize THEN 0 ELSE o - PageSize

PreviousPage ==
  /\ HasPager /\ shown.offset # 0
  /\ TurnPage(BackFrom(shown.offset))

\* The button of a failure that is not about the filters.
Retry ==
  /\ panel = "list" /\ shown.kind = "failed"
  /\ edits < MaxEdits /\ edits' = edits + 1
  /\ Send(url)
  /\ loading' = TRUE
  /\ shown' = [shown EXCEPT !.current = FALSE]
  /\ UNCHANGED <<db, viewer, panel, url, steady, pages, totals, changes, faults>>

-----------------------------------------------------------------------------
(* The list: the server and the answers *)

Server == UNCHANGED <<db, viewer, panel, url, shown, loading, steady, pages, edits,
                      totals, changes, faults>>

\* Parameters are validated before anything is read.
Validate(i) ==
  /\ req[i].phase = "asked"
  /\ req' = [req EXCEPT ![i].phase = IF QueryErrors(req[i].query) = {} THEN "reading" ELSE "rejected"]
  /\ Server

ReadPage(i) ==
  /\ req[i].phase = "reading" /\ req[i].page = Unread
  /\ \E page \in Pages(viewer, db, req[i].query, PageSize) : req' = [req EXCEPT ![i].page = <<page>>]
  /\ Server

ReadTotal(i) ==
  /\ req[i].phase = "reading" /\ req[i].total = Unread
  /\ req' = [req EXCEPT ![i].total = <<Cardinality(Matching(viewer, db, req[i].query))>>]
  /\ Server

\* History: the answer is to what the address bar asks for.
Current(i) == req[i].query = ApiQuery(url)

\* The answer replaces what was on the screen.
Show(i, answer) ==
  /\ req' = [req EXCEPT ![i] = Free]
  /\ shown' = answer
  /\ loading' = FALSE
  /\ UNCHANGED <<db, viewer, panel, url, steady, edits, totals, changes>>

ShowPage(i) ==
  /\ req[i].phase = "reading" /\ req[i].page # Unread /\ req[i].total # Unread
  /\ LET q == req[i].query
         seen == ToSet(req[i].page[1])
     IN /\ Show(i, [kind |-> "page", page |-> req[i].page[1], total |-> req[i].total[1],
                    offset |-> q.offset, current |-> Current(i)])
        /\ pages' = IF ~ steady THEN pages
                    ELSE [o \in DOMAIN pages \cup {q.offset} |-> IF o = q.offset THEN seen ELSE pages[o]]
  /\ UNCHANGED faults

ShowErrors(i) ==
  /\ req[i].phase = "rejected"
  /\ Show(i, [kind |-> "invalid", errors |-> QueryErrors(req[i].query), current |-> Current(i)])
  /\ UNCHANGED <<pages, faults>>

ShowFailure(i) ==
  /\ req[i] # Free
  /\ faults < MaxFaults /\ faults' = faults + 1
  /\ Show(i, [kind |-> "failed", current |-> Current(i)])
  /\ UNCHANGED pages

\* The value the page names beside an error: the URL's, at that position.
ValueAt(u, key, i) ==
  LET values == ListValues(u.lists[key])
      at == IF i = Whole THEN 1 ELSE i + 1
  IN IF at \in DOMAIN values THEN values[at] ELSE ""

-----------------------------------------------------------------------------
(* The summary *)

\* One query for each part: adminSummary's, pmSummary's four.
PartsOf(u) ==
  CASE u \in Admins -> {"projectCount", "tasksByStatus"}
    [] u \in Managers -> {"projects", "perProjectStatus", "openByPriority", "upcoming"}
    [] u \in Developers -> {}

ReadPart(name) ==
  /\ panel = "summary" /\ summary = Nothing
  /\ name \in DOMAIN part /\ part[name] = Unread
  /\ \E rows \in CASE name = "projects" -> {OwnProjects(viewer, db)}
                   [] name = "projectCount" -> {Cardinality(DOMAIN db.owner)}
                   [] name = "perProjectStatus" -> {PerProjectStatus(viewer, db)}
                   [] name = "tasksByStatus" -> {TasksByStatus(viewer, db)}
                   [] name = "openByPriority" -> {OpenByPriority(viewer, db)}
                   [] name = "upcoming" -> Upcoming(viewer, db, Now, Week, UpcomingLimit) :
       part' = [part EXCEPT ![name] = <<rows>>]
  /\ UNCHANGED <<db, viewer, panel, list, summary, past, changes, faults>>

Read(name) == part[name][1]

PmSummary ==
  [kind |-> "pm",
   projects |-> [p \in Read("projects") |-> ProjectTally(p, Read("perProjectStatus"))],
   openTasksByPriority |-> CountsBy(Priority, Read("openByPriority")),
   upcoming |-> Read("upcoming")]

AdminSummary ==
  LET byStatus == CountsBy(TaskStatus, Read("tasksByStatus"))
  IN [kind |-> "admin", projects |-> Read("projectCount"), total |-> Total(byStatus),
      overdue |-> byStatus["OVERDUE"], byStatus |-> byStatus]

ShowSummary ==
  /\ panel = "summary" /\ summary = Nothing
  /\ \A name \in DOMAIN part : part[name] # Unread
  /\ summary' = IF viewer \in Admins THEN AdminSummary ELSE PmSummary
  /\ UNCHANGED <<db, viewer, panel, list, part, past, changes, faults>>

FailSummary ==
  /\ panel = "summary" /\ summary = Nothing
  /\ faults < MaxFaults /\ faults' = faults + 1
  /\ summary' = Failure
  /\ UNCHANGED <<db, viewer, panel, list, part, past, changes>>

AllUnread == [name \in PartsOf(viewer) |-> Unread]

\* The button beside the error.
RetrySummary ==
  /\ panel = "summary" /\ summary = Failure
  /\ summary' = Nothing
  /\ part' = AllUnread
  /\ past' = {db}
  /\ UNCHANGED <<db, viewer, panel, list, changes, faults>>

-----------------------------------------------------------------------------
(* Other people *)

ChangeTask(t) ==
  \/ \E s \in {"DONE", "IN_REVIEW"} \ {db.task[t].status} : db' = [db EXCEPT !.task[t].status = s]
  \/ \E u \in Developers \ {db.task[t].assignee} : db' = [db EXCEPT !.task[t].assignee = u]
  \/ db' = [db EXCEPT !.task = [x \in DOMAIN @ \ {t} |-> @[x]]]

\* A task as it is when nothing but its project is said of it.
Fresh(p) == [status |-> "TODO", priority |-> "MEDIUM", due |-> Late, assignee |-> "nobody",
             project |-> p, created |-> Now]

CreateTask(t, p) ==
  db' = [db EXCEPT !.task = [x \in DOMAIN @ \cup {t} |-> IF x = t THEN Fresh(p) ELSE @[x]]]

TransferProject(p) ==
  \E u \in Managers \ {db.owner[p]} : db' = [db EXCEPT !.owner[p] = u]

\* The tasks of the project go with it.
DeleteProject(p) ==
  db' = [db EXCEPT !.owner = [x \in DOMAIN @ \ {p} |-> @[x]],
                   !.task = [x \in {t \in DOMAIN @ : @[t].project # p} |-> @[x]]]

Change ==
  /\ changes < MaxChanges /\ changes' = changes + 1
  /\ \/ \E t \in DOMAIN db.task : ChangeTask(t)
     \/ \E p \in DOMAIN db.owner :
          \/ TransferProject(p)
          \/ DeleteProject(p)
          \/ \E t \in NewTask \ DOMAIN db.task : CreateTask(t, p)
  /\ steady' = FALSE
  /\ past' = past \cup {db'}
  /\ UNCHANGED <<viewer, panel, url, req, shown, loading, pages, edits, part, summary, faults>>

Init ==
  /\ db \in SeedDb /\ viewer \in User
  /\ panel \in IF viewer \in Developers THEN {"list"} ELSE {"list", "summary"}
  /\ url = NoFilters /\ edits = 0
  /\ req = [i \in Slot |-> IF panel = "list" /\ i = Min(Slot) THEN Request(url) ELSE Free]
  /\ shown = Nothing /\ loading = (panel = "list")
  /\ steady = TRUE /\ pages = NoPages
  /\ part = AllUnread /\ summary = Nothing
  /\ past = {db}
  /\ changes = 0 /\ faults = 0

UserActs ==
  \/ \E key \in ListKey : \E v \in Chips[key] : Toggle(key, v)
  \/ \E end \in {"from", "to"}, day \in Days \cup {NoDay} : SetDate(end, day)
  \/ \E sort \in Sorts : SetSort(sort)
  \/ ClearFilters \/ EditUrl \/ NextPage \/ PreviousPage \/ Retry

Handle(i) == Validate(i) \/ ReadPage(i) \/ ReadTotal(i) \/ ShowPage(i) \/ ShowErrors(i) \/ ShowFailure(i)

Next ==
  \/ UserActs
  \/ \E i \in Slot : Handle(i)
  \/ \E name \in DOMAIN part : ReadPart(name)
  \/ ShowSummary \/ FailSummary \/ RetrySummary
  \/ Change

Spec == Init /\ [][Next]_vars

-----------------------------------------------------------------------------
(* Properties *)

Settled == panel = "list" /\ ~ loading

\* Types.  Whatever the buttons did, the list never asks below its first task:
\* only a URL written by hand does.
TypeOK ==
  /\ viewer \in User /\ panel \in {"list", "summary"}
  /\ DOMAIN url.lists = ListKey /\ {url.from, url.to} \subseteq Days \cup {NoDay}
  /\ url.sort \in Sorts \cup {"default"} /\ url.offset \in Nat \cup HandOffsets
  /\ \A i \in Slot : req[i] # Free => req[i].phase \in {"asked", "reading", "rejected"}
  /\ shown.kind \in {"nothing", "page", "invalid", "failed"}
  /\ summary.kind \in {"nothing", "failed", "pm", "admin"}

\* However slow an answer, the list that is shown as loaded is the one the
\* address bar asks for.
LatestWins == Settled => shown.current

\* Paging through a list nobody changes shows every matching task exactly once.
PagesPartition ==
  (Settled /\ steady /\ shown.kind = "page") =>
     LET rows == Matching(viewer, db, ApiQuery(url))
         starts == {o \in 0..Cardinality(rows) : o % PageSize = 0 /\ o < Cardinality(rows)}
     IN starts \subseteq DOMAIN pages =>
          /\ UNION {pages[o] : o \in starts} = rows
          /\ \A o, p \in starts : o # p => pages[o] \cap pages[p] = {}

\* "No tasks match these filters" is true: nobody changes the list, turns a page
\* of the previous one while this one loads, or writes an offset into the URL.
EmptyMeansNone ==
  (Settled /\ steady /\ shown.kind = "page") =>
     (shown.page = <<>> => Matching(viewer, db, ApiQuery(url)) = {})

\* The value beside an error is one that was rejected, and there is none beside
\* an error about a whole list: unless the URL holds values of blanks, which the
\* server leaves out and the page counts.
ErrorNamesValue ==
  (Settled /\ shown.kind = "invalid") =>
     \A e \in shown.errors :
       (e[1] \in ListKey /\ " " \notin ToSet(Flat(url.lists[e[1]]))) =>
          LET named == ValueAt(url, e[1], e[2])
          IN named \notin Enum[e[1]] /\ (named = "" <=> e[2] = Whole)

\* A project's line is what its tasks were at one moment of the request, unless
\* the project changed hands or was deleted during it.
TallyTrue ==
  summary.kind = "pm" =>
     \A p \in DOMAIN summary.projects :
       (\A d \in past : p \in DOMAIN d.owner /\ d.owner[p] = viewer) =>
         \E d \in past : LET of(S) == Cardinality({t \in DOMAIN d.task : /\ d.task[t].project = p
                                                                          /\ d.task[t].status \in S})
                         IN summary.projects[p] = [total |-> of(TaskStatus), done |-> of({"DONE"}),
                                                   overdue |-> of({"OVERDUE"})]

\* If nothing changes meanwhile the panels agree: the lists of all, of the overdue
\* and of the open tasks are as long as the summary says.
AddsUp ==
  LET of(S) == Cardinality({t \in InScope(viewer, db) : db.task[t].status \in S})
      line == summary.projects
  IN Cardinality(past) = 1 =>
       /\ summary.kind = "admin" => summary.total = of(TaskStatus) /\ summary.overdue = of({"OVERDUE"})
       /\ summary.kind = "pm" =>
            /\ Total([p \in DOMAIN line |-> line[p].total]) = of(TaskStatus)
            /\ Total(summary.openTasksByPriority)
                 = Total([p \in DOMAIN line |-> line[p].total - line[p].done - line[p].overdue])

\* The summary, put together from queries of different moments, says of each
\* project what was true at one of them, and agrees with the lists when nothing
\* has changed.
SummaryTrue == TallyTrue /\ AddsUp
=============================================================================

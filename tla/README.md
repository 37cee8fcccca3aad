# A verification development of the task board

The program is a project and task manager for three roles: an Express and
Prisma API on PostgreSQL (`src/src`), a Socket.IO server in the same process,
and a React client (`src/web/src`). These are TLA+ modules of the parts whose
behaviour depends on the order of events, TLC configurations that check them on
small instances, and TLAPS proofs of what holds for every instance.

1. [Inventory](#inventory)
2. [Modules](#modules)
3. [Runs](#runs)
4. [Proofs](#proofs)
5. [Disagreements](#where-the-code-and-its-comments-disagree)
6. [Limits](#what-is-abstracted-and-what-is-not-modelled)
7. [Plan](#plan)

## Inventory

| Component | State | Operations | Interacts with | Hard behaviour | Correct means |
|---|---|---|---|---|---|
| Refresh tokens (`auth/tokens.ts`, `controllers/auth.controller.ts`) | `refresh_tokens` rows: family, expiry, revocation | login, refresh (rotation, reuse detection), logout | `users.is_active`; every tab through one cookie | statements of concurrent transactions at READ COMMITTED; row locks; rollback half-way; expiry in between | a token works once, a session has at most one working token, reuse and logout end the session |
| Access rules (`auth/policies.ts`) | none | scopes (for WHERE) and checks (on a row) | every handler | two forms of one rule | the forms agree; rights hold on the row that is written |
| Tasks and projects (`tasks.controller.ts`, `projects.controller.ts`) | `projects`, `tasks` | create, update, delete | activity log, notifications, sweep | a row is read and checked before the transaction that writes | `completed_at`, audit trail, assignee notices and foreign keys agree with the task |
| Overdue sweep (`jobs/overdueTasks.ts`, `jobs/scheduler.ts`) | cursor, `inFlight`, advisory lock | cron tick, batch, stop | tasks, log, other instances | several instances; failing batches; edits between read and UPDATE | flagged once, nothing missed, nothing overdue for good |
| Activity log and feed (`logAndEmitActivity.ts`, `feed.controller.ts`, `useActivityFeed.ts`) | `activity_logs`; `events` and `newestSeen` of a page | log and emit, catch-up, merge | rooms of the socket server | catch-up crossing live events; lost connections and answers; stamps older than commits | the feed has no holes and shows nothing uncommitted, and nothing the user had no right to |
| Notifications (`notify.ts`, `notifications.controller.ts`, `useNotifications.ts`) | `notifications`; list and badge of each tab | notify, list, mark one, mark all | task transactions; all tabs of a user | a count is read in one place, sent later, and applied in arrival order; optimistic updates | badge and list settle on what is stored |
| Realtime (`socket.ts`, `SocketProvider.tsx`) | rooms, expiry timer; `reauthAttempted` | handshake, join, expiry, reconnect | refresh tokens, feed, notifications | expiry racing a refresh; rejected handshakes | a live session reconnects, a dead one stays out |
| Browser session (`api/axios.ts`, `api/auth.ts`, `authStore.ts`) | one cookie per browser; access token and `refreshing` of each tab | single-flight refresh, retry of a 401, restore on load, login, logout | refresh tokens; realtime asks for refreshes | several tabs and one cookie; answers after logout; reloads | racing calls do not end a session by themselves; nobody waits for a refresh that is over |
| Task lists (`taskLists.controller.ts`, `lib/validation.ts`, `useTaskFilters.ts`, `TaskFilters.tsx`, `useApi.ts`) | URL filters; the list on the screen | parse, filter, sort, page; edit the URL | access rules | page and total read at two moments; late answers; boundaries of days and pages; ties | pages cover the scope and nothing else; the screen is what the URL asks for |
| Summaries (`summary.controller.ts`, the summary panels) | none | read the parts, put them together | access rules, task lists | four queries at four moments | a project's line was true at some moment; panels agree |
| Plumbing, pages | none of their own | | | | not modelled |

The components call one another inside one process, but between any two `await`s
everything else may happen: other requests, the sweep, other API instances and
other tabs. That is where the properties aim.

## Modules

| Module | Models | State | Actions |
|---|---|---|---|
| `SessionChain` | what a login session promises | `live`, `spent`: the tokens of a family that work, and those that do not | `Open`, `Advance`, `End` |
| `RefreshTokens` | login, refresh and logout of one account, one action per SQL statement | `row` is the committed table; `draft`, `held` are what open transactions have written, `kept` the rows they have locked and found revoked; `pc`, `token`, `started`, `seenActive`, `targets`, `answer` are the locals of the handlers | `Login`/`StoreLogin`; `StartRefresh`, `ReadToken`, `Claim` (the UPDATE starts), `ClaimRow` (it locks the row and checks it again), `Issue`; `FindFamily`; `SnapshotFamily`, `RevokeRow`, `EndOfUpdate` (the family UPDATE); `Commit`, `Abort`; `Tick`, `SetActive` |
| `Policies` | the access rules as operators | | |
| `TaskBoard` | all handlers that write tasks and projects, and one sweep batch | `active`, `project`, `task`, `moves` (status entries), `notified`, and `plan[r]`: what request r read and decided | a `ReadFor...`/`Commit...` pair per handler; `ReadCandidates`/`CommitSweep`; `Abandon`; `SetActive` |
| `OverdueSweep` | the sweep by itself: several instances, batches, the lock, the scheduler | `status`, `due`, `up`, `run[i]` (the locals of the sweep in flight), `outcome` | `Begin`, `ReadCandidates`, `TryLock`, `UpdateStatus`, `CommitBatch`, `Fail`, `StopJobs`, `Stopped`; users' `Move`, `Reschedule`; `Tick` |
| `NotificationCenter` | notifications of one user, server and tabs | `row`, `writer`, `counted`, `req` (HTTP in flight), `queue[t]` (events on their way), `tab[t]` | `Insert`, `Count`, `Commit`, `EmitNew`, `RollBack`, `Cascade`; `ListItems`, `UpdateRead`, `CountUnread`, `NotFound`, `Respond`, `Lose`; `Mount`, `MarkRead`, `MarkAllRead`, `Join`, `Disconnect`, `HandleConnect`, `HandleNew`, `HandleRead` |
| `ActivityFeed` | the feed page of one user of any role, and the entries about one subject (a manager's project, a developer's task; an admin's is never handed over) | server: `stamp`, `writer`, `deed` (what the transaction does to the subject), `subject` (whose it is), `toMe` (entries addressed to the user's room); tab: `link`, `before` (`connectedBefore`), `queue`, `events`, `newest` (`newestSeen`), `req` (catch-ups) | `Insert`, `Commit`, `EmitEntry`, `RollBack`; `Mount`, `ReadCatchUp`, `CaughtUp`, `Lose`; `Join`, `HandleConnect`, `HandleActivity`, `Disconnect`, `Unmount`; `Tick` |
| `WebSession` | the tabs of one browser over the sessions of the server | `live`, `spent` (a `SessionChain`), `enabled`, `cookie`; `tab[t]`: auth status and the refresh in flight; `req`: exchanges on their way up, served, or waiting for a refresh | `ServeRefresh`, `ServeLogin`, `ServeLogout`, `ServeCall`, `Deactivate`; `Load`, `SendCall`, `SignIn`, `SignOut`; `HearRefresh`, `HearLogin`, `HearLogout`, `HearCall`; `Lose` |
| `Realtime` | one tab's socket, both ends | `now`, `standing` (role in the table); client: `token`, `flight` (the refresh), `sock[p]`, `waiting` for each mounted provider; server: `conn[p]`; `down[p]`: packets to the client | `CheckToken`, `LoadUser`, `LoadFails`, `Join`, `Expire`; `CallRefreshes`, `HandleRefresh`, `SettleRefresh`, `Login`, `Logout`; `Mount`, `Unmount`, `Dial`, `Cut`; `HearConnect`, `HearRejection`, `HearExpired`, `HearDisconnect`; `ChangeAccount`, `Tick` |
| `TaskQueries` | the list query (parsing, errors, WHERE, ORDER BY, pages) and the queries of the summaries, as operators on a snapshot of the tables | | |
| `Dashboard` | one page: the task list or the summary of one viewer | `db`, `viewer`, `panel`; `url`, `req`, `shown`, `loading`; `part`, `summary` | `Toggle`, `SetDate`, `SetSort`, `ClearFilters`, `EditUrl`, `NextPage`, `PreviousPage`, `Retry`; `Validate`, `ReadPage`, `ReadTotal`; `ShowPage`, `ShowErrors`, `ShowFailure`; `ReadPart`, `ShowSummary`, `FailSummary`, `RetrySummary`; `Change` (`ChangeTask`, `CreateTask`, `TransferProject`, `DeleteProject`) |

`MC*` modules add the values TLC needs. `*Proofs` modules hold the proofs.
`TaskBoard` extends `Policies`, `Dashboard` extends `TaskQueries`.
`RefreshTokens` instantiates `SessionChain` with
the refinement mapping live(f) = unrevoked committed rows of family f, spent(f) =
revoked ones. `WebSession` composes the browser with `SessionChain` itself: each
answer of the server is one of its steps, or none, which is what `RefreshTokens` is
shown to implement. The other modules do not share state: `OverdueSweep` looks
inside a step of `TaskBoard`, `NotificationCenter` and `ActivityFeed` begin where
`TaskBoard` stores a notification or an entry, and `Realtime` looks inside what they
call a join, a connect and a disconnect.

Operators marked `MUTANT` are faulty variants of the definition that follows
them. No specification uses them: they are there to show that a property would
notice the fault.

How the database is modelled. In `RefreshTokens` the transactions are statement by
statement: an UPDATE takes its candidates from the rows committed when it starts,
waits for a row that another open transaction has locked, locks the row, and only
then re-checks its WHERE on the committed version. If that fails the row is left as it
is, and stays locked until the transaction ends (`kept`). In `NotificationCenter` and
`ActivityFeed` a row becomes visible at its COMMIT. In `OverdueSweep` the rows of
an open batch are locked. In `TaskBoard` a transaction is one step.

Histories record what happened and are read by no action's guard: `skipped` and a
row's `place` (RefreshTokens), `raced` (TaskBoard), `owed` and `entries` (OverdueSweep), `stale`
(NotificationCenter), `failed`, `moved`, `excused` and `entitled` (ActivityFeed),
`forked`, `tripped`, `overlap`, `out` and a request's `sends` (WebSession), `left` and
a socket's `missed` and `strikes` (Realtime), `steady`, `pages`, `past` and
`shown.current` (Dashboard).

## Runs

| Run | Instance | Shows |
|---|---|---|
| `tokens_safety` | 4 requests, lifetime 1, clock to 2 | `SingleUse`, `OneLivePerFamily`, `ReplayEndsSuccessor`, `RevocationEndsFamily`, `WaitsAreOrdered`, and that committed rows are a `SessionChain` (`ImplementsChain`) |
| `tokens_answered` | 3 requests, clock to 1, fair | every accepted request is answered (`Answered`): no cycle of lock waits, no lock left behind |
| `tokens_stale_logout` | as `tokens_safety` | violation of `LogoutEndsSession`: a logout that waits for a refresh revokes nothing |
| `board_moves` | 1 manager, 1 developer, 3 requests, 4 bodies, (de)activation | `CompletionInStep`, `TrailMatches`, `SweepRecordsReplaced` |
| `board_rights` | 1 admin, 2 managers, 2 developers, 2 requests, 6 bodies | `NoOrphans`, `RightsAtWrite`, `NewAssigneeTold`, types |
| `board_stale_completion` | as `board_moves` | violation of `CompletedAtInStep`: `completed_at` follows the row that was read |
| `sweep_runs` | 2 instances, 3 tasks in batches of 2, 1 edit, 1 fault, clock to 2, fair | `CompleteSweep`, `FlaggedOnce`, `OverdueIsFlagged` |
| `badges_settle` | 2 tabs, 2 notifications, 1 HTTP request at a time, 1 event in flight per tab, 1 fault | `OnlyCommitted`, `BadgeSettles` |
| `feed_holes` | 3 entries, limit 2, 2 catch-ups in flight, 3 faults, clock to 3; the subject is handed over and deleted | `FeedHasNoHoles`, `OnlyEntitled` |
| `web_session` | 2 tabs, 2 calls, 2 other exchanges at a time, 3 tokens, 1 fault | `ReuseNeedsCause`, `JarIsCurrent`, `StaysOut`, `WaitsForRefresh` |
| `realtime` | 2 roles, token lifetime 2, 2 sign-ins, clock to 4, 1 fault, 1 change of the account, fair | `StaleRoomBounded`, `NoGhostSocket`, `ComesBack` |
| `dashboard` | 3 tasks with ties, one without a due date, pages of 2, 2 requests in flight, 3 edits, 1 change (also a new task, a deleted task or project), 1 fault; an admin, two managers, a developer | `LatestWins`, `PagesPartition`, `EmptyMeansNone`, `ErrorNamesValue`, `SummaryTrue` |

`tokens_safety`, `board_rights`, `sweep_runs`, `badges_settle`, `feed_holes`,
`web_session`, `realtime` and `dashboard` check the `TypeOK` of their module as well.

### Why the bounds are enough to be interesting

* Tokens: one request opens a session and three race on its tokens: two for the
  same token, or a rotation against reuse detection, with a logout. A third racing
  writer is needed for a row that is revoked under a waiting UPDATE and replaced.
  Two ticks let a token expire before, while or after it is rotated.
* Board: three requests give two writers and a sweep, or two stale updates after
  a creation. In `board_rights` two requests are enough: one write changes hands
  between the other's read and write. Every body a rule tells apart is in it, and
  one (assigning a manager) that is always refused.
* Sweep: three tasks in batches of two give a full batch and a short one; the
  second table has a batch that is exactly full, with a task that falls due behind
  the cursor. Two instances suffice for the lock to be refused.
* Badges: two notifications, so that counts can differ, two tabs, so that one hears
  of the other. With two events in flight `badges_settle` also passes (6.7 million
  states, three minutes).
* Feed: three entries, one before a gap, one in it and one after it; three faults
  are two disconnects and a lost catch-up. Three entries also suffice for one
  logged before a handover, the handover, and one after it. `TicksThatCount` in
  `MCActivityFeed` leaves out ticks of the clock at which nothing was stamped since
  the last one: only the order of the stamps is ever compared.
* Browser: two tabs are the least that share a jar; two calls are the least that
  share a refresh; three tokens are a login and two rotations, or two logins and a
  rotation. The slots for exchanges are enough for two refreshes to cross, or a
  refresh and a logout.
* Realtime: time runs to twice the lifetime, so that a token is renewed and the new
  one expires; two sign-ins, so that an old provider meets a new session; one fault
  is a cut link or a failed refresh or a failed lookup of the user.
* Dashboard: the tasks agree in every sort key but the id, so that the order rests
  on it; pages of two make one full page and a rest. Three edits are a filter and
  two turns of pages. The values typed into the URL are one of each kind that the
  parser tells apart, the offsets one inside a page and one below the first task. Only
  a status is offered as a filter to toggle: the other list filter is the same code
  under another key, and doubles the states.

`CHECK_DEADLOCK FALSE` where requests, notifications, entries, tokens, time or edits
are used up: the system stops because nobody asks for anything any more.
`sweep_runs` checks for deadlock, since cron never stops. Symmetry is used for
requests, tabs, calls, notifications and entries, which every action treats alike, and
never in a run with a liveness property. Stamps order entries, identities do not.

### Fairness

`tokens_answered` and `sweep_runs` assume weak fairness of `Proceed`: once a
statement can run, the event loop and the database run it some time, and cron
keeps ticking. Nothing is assumed of clients, users, clocks, faults or shutdown.
Weak fairness of the whole of a request's (or instance's) next step suffices
because a step stays enabled until it is taken, or until another transaction takes
a lock that it will itself release.

`realtime` assumes weak fairness of each step of the server and the client (timers,
callbacks, packets, answers of the refresh) and of the client's dialling again after
a lost link: Node and the browser run their callbacks, and a dropped network comes
back. Nothing is assumed of the user, of faults, or of the account. Time passes
without fairness, and not while a handshake is under way: the lifetime of a token
is minutes, that of a handshake bounded by `connectTimeout` (45 seconds). `ComesBack`
does not promise a connection where the code gives up; see the disagreements.

## Proofs

The `*Proofs` modules prove, for all values of the constants, the safety properties
that the runs check of `RefreshTokens`, `TaskBoard`, `OverdueSweep`, `Realtime`,
`ActivityFeed`, `NotificationCenter`, `WebSession` and `Dashboard`: every safety
property of a passing run is a theorem.
Assumptions: `TTLAssumption` and `TimesAssumption` (tokens live longer than 0),
`RolesAssumption` (a user has one role), `RoleAssumption` ("none" is not a role),
`BoundsAssumption` of `TaskBoard` (the bodies clients send are well-formed) and
`IdsAssumption` (ids are not reused), `SizesAssumption` (batches are not empty) and
`BoundsAssumption` of `OverdueSweep` (bounds are numbers, the seeds are tables),
`LimitAssumption`, `EntriesAssumption` (finitely many entries, none of them called
"connect") and `ClockAssumption` of `ActivityFeed` (a limit and a clock above 0),
`NotesAssumption` (finitely many notifications, so that they can be counted),
`SlotsAssumption` and `TabsAssumption` of `WebSession` (names that mean different
things differ), and `SizesAssumption` (pages are not empty), `SeedAssumption` (the
tables are those of the schema, with finitely many rows) and `InputsAssumption`
(parameters are texts, offsets and times whole numbers, ids of new tasks numbers) of
`Dashboard`. Nothing bounds the
number of requests, users, tabs, tasks, projects, instances, sign-ins, entries,
notifications, tokens or pages.

### Refresh tokens

`IInv` is inductive; the properties alone are not.

* That a family has one working token at most rests on `Locks` and `Drafts`: a
  successor is drafted only by the transaction that holds the lock on its
  unrevoked parent, so that committing it revokes the one and stores the other.
* `Lineage` says that rows of a family hang together and that a row with a
  successor is revoked: `SingleUse` follows from it and `Locks`.
* `Candidates` says that an UPDATE has at most one candidate (from
  `OneLivePerFamily`).
* A transaction may wait while it holds a row: a claim that waited and lost keeps
  the row of its token locked, and its family UPDATE then waits for the successor if
  a third refresh has claimed that. What keeps such waits from closing a circle is
  their order, `OrderOfWaits`. A second invariant, `Ordered`, says that the token
  that works is the newest of its family (`Places`), and that whoever has kept a lock
  waits only for a newer token of the same family (`Keeps`): the kept row is revoked
  and the candidate was live, so the candidate comes later. As the tokens of a
  family are finitely many, a circle of waits would climb for ever (`NoEndlessClimb`,
  `NoCircle`), in a set of any size.
* `Unexpired`, the last part of `Ordered`, says that a claim finds a candidate only
  if the token had not expired by `now`, so that a row is kept because it was revoked
  and for no other reason. One `now` decides the claim and what its failure means:
  reuse detection is never set off by expiry (`Replayed`, `ReplayEnds`).
* `Replayed` and `Revoking` say what a reuse detection or logout under way has
  still to do. `skipped` marks an UPDATE that found a candidate revoked: without
  that condition the property is false, as `tokens_stale_logout` shows.
* `Refinement`: from `IInv`, every `StoreLogin` is `Open`, every `Commit` is
  `Advance`, `End` or a stutter, and nothing else changes committed rows.

### Task board

`IInv` adds to the properties what the plans in flight know (`Plans`: who asked,
with what right on which row; `Fresh`: a request's name is not in use before it
commits), each action has a lemma about its effect on rows, and each conjunct is
checked against these effects. `ScopeIsAccess` proves that the two forms of the
access rules agree, and carries `RightsHold`: the WHERE clause of a write grants
exactly what the check on the current row would. The action properties
(`SweepCorrect`, `HandoversTold`, `RightsHold`) follow from `IInv` action by
action.

### Overdue sweep

`CompleteSweep` says that a completed run has flagged every task it owed. What has to
be invariant is where an owed task still is (`DebtsOK`): behind the cursor, among the
candidates of the batch, drafted, or about to be updated with the tasks of its status;
a batch that is not full holds all that is left. The cursor skips nothing because a
batch is the least ids behind it (`BatchFacts`, from the well-foundedness of the
naturals), and a batch's tasks can only leave its reach while they are not locked by
being edited, which ends the debt. `FlaggedOnce` rests on `Mutex` (one open batch) and
`ReadsAfresh` (a drafted row was overdue by its committed status).

### Realtime

`StaleRoomBounded` does not follow from the timers alone: what is inductive is that
whoever was let in with a role that was lost since holds a token that was issued
before the loss (`StaleOK`), and that no timer is later than its token (`TimesOK`).
`NoGhostSocket` rests on `Shut` (a provider that is gone has a closed socket) and
`WireOK` (the client's link, the server's end and the packets on their way always fit
together).

### Activity feed

`FeedHasNoHoles` speaks of a tab to which nothing is on its way; the invariant says of
every entry the feed does not show where it is, at every moment. Either the limit cut
it off, and whatever the feed shows or awaits is newer (`Old`); or it is still ahead of
the feed (`Beyond`: newer than `newestSeen`, or within what a catch-up in flight asked
for) and something will bring it (`Coming`: its event is queued, a catch-up covers it,
it is committed and not emitted yet, a reconnect will ask, or a catch-up has failed
and not been repeated). `Beyond` is what a live event can take away, by raising
`newestSeen`: it does not, because entries are written one at a time (`InOrder`), so
that what is behind it in the queue, or not emitted yet, is newer. That a catch-up
is behind `newestSeen`, and that its answer leaves out nothing between `since` and what
it holds but what was cut off, is `Asked` and `CutOK`. `OnlyEntitled` is part of
`Rights`, which says the same of the events and answers still under way.

What this proof, that of the sweep and that of the dashboard need about numbers (a
nonempty set has a least one, a bounded one a greatest) stands at the head of each.

### Notifications

`BadgeSettles` speaks of calm moments; the invariant says what holds in between, and
only while some tab is sure of its badge (`Sure`), for the excuse of the property is
precisely that two things overlapped. Then one thing happens at a time (`Alone`): one
transaction, or one request, or one tab that connects, and at most one event for each
tab. So what was read early still holds when it is used: the count of a transaction
when it commits (`WritesOK`), of an event when it is handled (`EventsOK`), of an answer
when it arrives (`AnswersOK`). `Settling` says of each sure tab what it shows
(`WillBe`): the rows of the table, or what a load, the connect event of a tab that was
connected before, the "new" event of a committed row or the "read" event of an updated
one will turn into them; and a tab that marked something itself shows what its mark
will have done (`Ahead`). A handler that left out one of these corrections would
break the step that is to keep `Settling`. `OnlyCommitted` is part of `Known`, which
says the same of the table and of answers under way.

### Browser session

That a cookie which was rotated away is not presented again needs a history: `Causes`
says of the jar and of every refresh on its way up that its token is `Fine` (it works,
or its session is over), or was sent by two pages at once, or, for the jar, that the
answer with its successor is on the way down (`Rotated`). A page that sends the jar's
token in that last case is another page than the one that waits, since a page has one
refresh in flight (`Flights`): so the token is in `forked` by then. `News` keeps the
successors apart: nobody presents one before it is in the jar. What the server does to
its sessions comes down to four lemmas (`EffectNone`, `EffectOpen`, `EffectAdvance`,
`EffectEnd`), and what an exchange does to `AnswerStep`, `SendStep` and `HearStep`.

`JarIsCurrent` speaks of rest; `Jar` says of a lone exchange what its answer will leave
in the jar (`AloneOK`), and that a refresh or logout whose page has gone presents no
token of the session that the jar or the awaited answer belongs to (`GoneOK`): it can
still end a session, but not this one. That a login by itself ends the excuse of an
overlap is because its session is new (`Solo`). `StaysOut` rests on `Outside`: while a
tab is signed out, the jar is empty, and so is every refresh under way.

### Dashboard

`IInv` of `DashboardProofs` has a part for each way in which the page could be wrong.

* `OneRequest` carries `LatestWins`: because the cleanup aborts what is in flight,
  one request at most is under way and it is for what the address bar says. So
  whatever answers, in whatever order, answers that (`ScreenOK`, which also ties the
  offset and the errors on the screen to the URL).
* `SteadyOK` carries `PagesPartition` and `EmptyMeansNone`. It speaks of the pages
  that were read since the list last changed, at whatever moments: each is a cut of an
  order of the matching tasks. That these are cuts of one list is the theorem
  `OneOrder`: two orders of a set of tasks by one of the app's sort keys are equal,
  because each key ends in the id, so that of two tasks one comes first
  (`KeysOrdered`) and the first place where the orders differ would hold two smallest
  tasks. Cuts at the multiples of the page size then neither overlap nor leave a task
  out (`CutsPartition`, from `Multiple` and `Apart`: every place lies in the page
  of one multiple only). That no page behind the last is asked for is part of it: the
  first page is at 0, "Next" is offered where more tasks follow, and "Previous" stops
  at 0.
* `PartsOK` and `SummaryOK` carry `SummaryTrue`: what a query has returned is what it
  returns on the tables of one moment since the request began (`past`), and the
  summary is put together from what was returned. A line then comes from the moment
  its counts were read (`TallyIs`). If there was one moment only, the sums over
  projects, over priorities and over all tasks count the same tasks
  (`SumOfGroups`: the sizes of the groups of a finite set add up to its size).
* `ErrorNamesValue` compares two parsers, the page's and the server's. Where the URL
  holds no value of blanks, trimming changes nothing, and both drop the same empty
  values and count the rest alike (`SameValues`).

Two inductions could not be cited from the library, whose theorems take an operator:
that a function defined by recursion over an interval exists and unfolds is proved
from the least number at which it would not (`Climb`, `Recursion`), and the operators
that work through a list (`Flat`, `Without`) rest on it; that `Total` adds up every value
once is proved in the same way over the sizes of the sets it adds up (`SumOfGroups`). What the upcoming tasks of a summary are is modelled, and no property is about it.

### Only model-checked

`Answered`, `OverdueIsFlagged` and `ComesBack`: liveness under fairness is out of the
prover's reach. The violation runs are counterexamples, which only TLC can give.

## Where the code and its comments disagree

The first two have a run with a counterexample, and their quotations are in
`PROJECT.json`. The others were met while modelling and are left as prose.

* Logout during a refresh (`tokens.ts:159`). The family UPDATE waits for the row
  the refresh has claimed, finds it revoked, and does not see the successor, which
  was committed after the UPDATE started. The logout is answered 204 and the
  session goes on. Reuse detection (`tokens.ts:133`) has the same gap against a
  rotation of the newest token.
* `completed_at` (`tasks.controller.ts:185`) is computed from the row read before the
  transaction, and the WHERE of the UPDATE does not repeat the status.
* The audit entries (`tasks.controller.ts:189`) are computed from the same stale row,
  while `:106` speaks of one entry per changed field: two updates that cross log the
  same move twice, or none.
* The badge (`useNotifications.ts:38`): between the list of the mount and the first
  connect nobody tells the tab, against `:11` and `notify.ts:20`. Counts that were read
  early and arrive late are another way to a wrong badge, which is why `BadgeSettles`
  excuses overlaps.
* The feed (`useActivityFeed.ts:45`): `since` is the newest event seen, so a gap
  whose catch-up failed is not asked for again once a live event has come, against
  "The next reconnect retries" (`:51`).
* Reconnection (`SocketProvider.tsx:24`): a refresh that was already in flight when
  `session_expired` came may settle before the disconnect that follows it; `connect()`
  on the still connected socket does nothing, and nobody connects again. A second
  rejection without a connection in between leaves the page offline as well.
* Several tabs (`src/README.md:192` says concurrent refreshes share one request): that
  holds within a tab. Two tabs that present the cookie's token at once trip reuse
  detection, and both are signed out.

Found on the way, without a run:

* `createTask` checks that the project is the caller's (`tasks.controller.ts:136`)
  and the INSERT (`:148`) does not repeat it: a task can be created in a project
  that was transferred in between. `RightsAtWrite` is about rows that exist.
* An update that sets the assignee back to the one it had read notifies nobody,
  also if someone else was assigned in between (`:192`, `:194`); hence `raced` in
  `NewAssigneeTold`.
* A developer who is deactivated between the check (`:71`) and the write (`:178`
  on) is assigned all the same.
* A sweep that meets the lock in a later batch reports `skipped` with earlier
  batches flagged, while `overdueTasks.ts:26` says "so this run did nothing"; and
  as the lock is per batch, two instances may alternate (`:11` says "only one API
  instance sweeps at a time").
* `createdAt` is taken before the commit and events are emitted after it: an entry
  can become visible with a stamp older than `newestSeen`, or equal to it to the
  millisecond, and a catch-up never asks for it. More than 20 missed entries leave
  a gap. `FeedHasNoHoles` excuses these.
* A server that dies between the UPDATE of a mark and its count has told no tab;
  `BadgeSettles` excuses the other tabs until they load again.
* A refresh that is answered after the logout of its tab signs the tab in again with
  the access token of a session that is over (`axios.ts:34`), and one that fails late
  clears a cookie that a newer login has set. `StaysOut` and `JarIsCurrent` excuse
  overlapping exchanges.
* A reload while a refresh is in flight can lose the successor: the next load
  presents the used-up token and the session ends.
* The pager is hidden when there is at most one page (`total` not above the page size),
  also when `offset` is above 0: from such a URL there is no way back but the filters.
  "Next" pressed while a changed filter loads goes by the old answer.
* A list's page and total, and the four queries of a summary, are not one snapshot: a
  project that changes hands in between is listed with a tally of zero.
* The URL's values are not trimmed by the page and are by the server, so that the
  position in an error can be off by the blanks; `ErrorNamesValue` excuses these.
* An entry that is logged before and emitted after a handover goes to the rooms of
  its INSERT (`logAndEmitActivity.ts:42`), that is, to the former owner. Who gains a
  subject sees its earlier entries only if they are newer than `newestSeen`.

## What is abstracted, and what is not modelled

* One account in `RefreshTokens`, `WebSession` and `Realtime`, one user in
  `NotificationCenter`. Families, recipients and rooms do not meet across users there.
* `ActivityFeed`: one subject, one entry per transaction. Handovers of one subject
  exclude each other while a transaction is open, as its row lock does.
* `TaskBoard`: authentication, the lookup of the row and the check of the assignee
  are one step; transactions are atomic. Dates are "never", "past" or "future" of
  one sweep cut-off. The sweep is one batch that got its lock; not getting it is
  `Abandon`. Only status entries are kept in the log. Of the fields of a body,
  status, assignee and date. A relation filter that is re-checked on a stale join
  after a lock wait, and deadlocks inside transactions, are left to `RowLocks`.
* Titles, messages, formats, the caps of lists (20 notifications, 100 events), the
  pause between batches, bcrypt, JWTs and HTTP status codes.
* Events that the socket server has sent arrive in order or are lost with the
  connection. HTTP requests and answers are not ordered with them.
* `WebSession`: an access token may have expired whenever a call is served. Users leave
  one slot for a refresh free, so that the bound never keeps a tab from asking for one.
  When the tokens are used up the server answers with an error. The answer to a page
  that was reloaded meanwhile is dropped, its cookie included, and `forked` counts
  the successor as lost. A browser that stores the cookie of such an answer after the
  new page has sent its own refresh is not modelled. A logout may revoke nothing while a refresh
  of the same session is at the server, as `tokens_stale_logout` shows.
* `Realtime`: a broken link is noticed by both ends at once; a second CONNECT in the
  middle of a handshake is ignored, as Socket.IO ignores it.
* `Dashboard`: the filters by project and assignee, the sorts the app never sends,
  offsets that are not numbers (the server rejects those below zero, which are
  modelled) and the count of active users by role are left out. A
  behaviour follows one of the two panels. A task that others create has the defaults of
  the schema. Days are numbers and have two halves, which
  is what the start and the end of a day tell apart.
* `NotificationCenter`: a loss ends the server's work on a request, unless the answer
  was under way already. A mark whose client gives up while the server goes on and
  tells the tabs is not modelled: its count would meet the reload of that tab, an
  overlap that `BadgeSettles` excuses. A tab mounts its badge once, with a socket that
  is not connected yet: `App.tsx:27` has one layout route, whose `SocketProvider`
  creates the socket as the badge mounts. The hook itself would also take a connected
  one. The badge goes only with the session, which ends the tab's part.
* Several API instances appear only in `OverdueSweep`: without a Socket.IO adapter
  the code supports one instance for its rooms.
* Not modelled: configuration, the Express stack, rendering; the row locks inside the
  transactions of `TaskBoard` (`PROJECT.json` gives each a reason).

## Plan

Done: every component with a behaviour of its own has a module, a run and proofs of
its safety properties.

1. `RowLocks`: the statements inside the transactions of `TaskBoard` with the locks
   of foreign keys, which can wait for each other in a cycle
   (`tasks.controller.ts:215`); `TaskBoard` as what they implement.

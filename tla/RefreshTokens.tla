--------------------------- MODULE RefreshTokens ---------------------------
(***************************************************************************)
(* The refresh tokens of one account: login, rotation with reuse detection  *)
(* and logout, at the granularity of the SQL statements the handlers await. *)
(*                                                                          *)
(* PostgreSQL runs them at READ COMMITTED.  `row` is the committed table.   *)
(* What an open transaction has written is kept apart until it commits:     *)
(* `held[r]` are the rows request r has marked revoked (and so has locked), *)
(* `draft[r]` the row it has inserted.  An UPDATE takes its candidates from  *)
(* the rows committed when it STARTS: `targets[r]`.  It waits for one that   *)
(* another transaction has locked, locks it, and then re-checks its WHERE on *)
(* the committed version; if that fails the row stays locked: `kept[r]`.     *)
(*                                                                          *)
(* A token is named after the request that stores it, which is sound since  *)
(* a request stores at most one.  A family is named after its first token,  *)
(* which is its own parent.                                                 *)
(***************************************************************************)
EXTENDS Naturals, FiniteSets

CONSTANTS Request,    \* HTTP requests to /api/auth/{login,refresh,logout}
          TTL,        \* REFRESH_TTL_MS
          MaxClock    \* bound: the clock stops here

ASSUME TTLAssumption == TTL \in Nat \ {0}

VARIABLES
  clock,      \* wall clock
  active,     \* users.is_active of the account
  row,        \* committed refresh_tokens: a function on the stored tokens
  draft,      \* rows inserted by transactions that are still open
  held,       \* held[r]: rows whose revocation r has written, not committed
  kept,       \* kept[r]: rows r has locked and then found revoked
  pc,         \* where each handler is
  token,      \* token[r]: the token presented (r itself: one nobody stored)
  started,    \* started[r]: `now` of rotateRefreshToken
  seenActive, \* seenActive[r]: current.user.isActive as it was read
  targets,    \* targets[r]: candidate rows of the running UPDATE
  skipped,    \* history: the family UPDATE of r found a candidate revoked
  answer      \* answer[r]: what the handler reports

vars == <<clock, active, row, draft, held, kept, pc, token, started, seenActive,
          targets, skipped, answer>>

\* `place` is history: how many tokens of the family came before.
Row == [family : Request, parent : Request, expiresAt : Nat, revoked : BOOLEAN,
        place : Nat]

PC == {"idle", "store", "read", "claim", "claiming", "issue", "revoke",
       "revoking", "commit", "done"}

Answer == {"none", "session", "refused", "unknown", "expired", "reused",
           "inactive", "loggedOut", "failed"}

-----------------------------------------------------------------------------
(* Reading the table *)

Stored == DOMAIN row

LiveTokens(f) == {t \in Stored : row[t].family = f /\ ~ row[t].revoked}

SpentTokens(f) == {t \in Stored : row[t].family = f /\ row[t].revoked}

FamilyOf(r) == row[token[r]].family

\* The rows an open transaction has locked.
Locked(r) == held[r] \cup kept[r]

\* No other open transaction has locked the row: an UPDATE of it can proceed.
Unlocked(t, r) == \A q \in Request \ {r} : t \notin Locked(q)

\* The row issueRefreshToken inserts.
NewRow(f, p, n) == [family |-> f, parent |-> p, expiresAt |-> clock + TTL,
                    revoked |-> FALSE, place |-> n]

\* The row that replaces the token r has claimed.
Successor(r) == NewRow(FamilyOf(r), token[r], row[token[r]].place + 1)

Finish(r, a) == /\ pc' = [pc EXCEPT ![r] = "done"]
                /\ answer' = [answer EXCEPT ![r] = a]

Goto(r, label) == pc' = [pc EXCEPT ![r] = label]

-----------------------------------------------------------------------------
(* POST /api/auth/login *)

\* The account is read; bcrypt then runs before the token is stored.
Login(r) ==
  /\ pc[r] = "idle"
  /\ \/ active /\ Goto(r, "store") /\ UNCHANGED answer
     \/ ~ active /\ Finish(r, "refused")
  /\ UNCHANGED <<clock, active, row, draft, held, kept, token, started, seenActive,
                 targets, skipped>>

StoreLogin(r) ==
  /\ pc[r] = "store"
  /\ row' = [t \in Stored \cup {r} |-> IF t = r THEN NewRow(r, r, 0) ELSE row[t]]
  /\ Finish(r, "session")
  /\ UNCHANGED <<clock, active, draft, held, kept, token, started, seenActive,
                 targets, skipped>>

-----------------------------------------------------------------------------
(* POST /api/auth/refresh *)

StartRefresh(r, t) ==
  /\ pc[r] = "idle"
  /\ Goto(r, "read")
  /\ token' = [token EXCEPT ![r] = t]
  /\ started' = [started EXCEPT ![r] = clock]
  /\ UNCHANGED <<clock, active, row, draft, held, kept, seenActive, targets,
                 skipped, answer>>

ReadToken(r) ==
  /\ pc[r] = "read"
  /\ \/ token[r] \notin Stored /\ Finish(r, "unknown")
     \/ token[r] \in Stored /\ Goto(r, "claim") /\ UNCHANGED answer
  /\ seenActive' = [seenActive EXCEPT ![r] = active]
  /\ UNCHANGED <<clock, active, row, draft, held, kept, token, started, targets,
                 skipped>>

\* MUTANT: the claim without `revokedAt: null`.
ClaimableIfNotExpired(r) == row[token[r]].expiresAt > started[r]

Claimable(r) == /\ ~ row[token[r]].revoked
                /\ row[token[r]].expiresAt > started[r]

\* The conditional UPDATE counted 1.  An account read as inactive stops here,
\* and the transaction commits the claim without a successor.
ClaimWon(r) ==
  \/ seenActive[r] /\ Goto(r, "issue") /\ UNCHANGED answer
  \/ /\ ~ seenActive[r]
     /\ Goto(r, "commit")
     /\ answer' = [answer EXCEPT ![r] = "inactive"]

\* MUTANT: a used token is refused, its family is left alone.
ClaimLostRefuse(r) ==
  /\ Goto(r, "commit")
  /\ answer' = [answer EXCEPT
                  ![r] = IF row[token[r]].expiresAt <= started[r] THEN "expired" ELSE "reused"]

\* It counted 0: an expired token is just refused, any other was used before.
ClaimLost(r) ==
  \/ /\ row[token[r]].expiresAt <= started[r]
     /\ Goto(r, "commit")
     /\ answer' = [answer EXCEPT ![r] = "expired"]
  \/ /\ row[token[r]].expiresAt > started[r]
     /\ Goto(r, "revoke")
     /\ answer' = [answer EXCEPT ![r] = "reused"]

\* The UPDATE starts: the row is its candidate, or does not match and is not
\* locked either.
Claim(r) ==
  /\ pc[r] = "claim"
  /\ \/ /\ Claimable(r)
        /\ targets' = [targets EXCEPT ![r] = {token[r]}]
        /\ Goto(r, "claiming")
        /\ UNCHANGED answer
     \/ ~ Claimable(r) /\ ClaimLost(r) /\ UNCHANGED targets
  /\ UNCHANGED <<clock, active, row, draft, held, kept, token, started,
                 seenActive, skipped>>

\* The candidate is locked, if need be after a wait, and checked again.
ClaimRow(r) ==
  /\ pc[r] = "claiming"
  /\ Unlocked(token[r], r)
  /\ targets' = [targets EXCEPT ![r] = {}]
  /\ \/ /\ Claimable(r) /\ ClaimWon(r)
        /\ held' = [held EXCEPT ![r] = {token[r]}]
        /\ UNCHANGED kept
     \/ /\ ~ Claimable(r) /\ ClaimLost(r)
        /\ kept' = [kept EXCEPT ![r] = {token[r]}]
        /\ UNCHANGED held
  /\ UNCHANGED <<clock, active, row, draft, token, started, seenActive, skipped>>

\* MUTANT: issueRefreshToken without `tx`, so the row is committed at once.
IssueOutsideTransaction(r) ==
  /\ pc[r] = "issue"
  /\ row' = [t \in Stored \cup {r} |->
               IF t = r THEN Successor(r) ELSE row[t]]
  /\ Goto(r, "commit")
  /\ answer' = [answer EXCEPT ![r] = "session"]
  /\ UNCHANGED <<clock, active, draft, held, kept, token, started, seenActive,
                 targets, skipped>>

\* MUTANT: issueRefreshToken without `familyId`, whose default is a new family.
IssueNewFamily(r) ==
  /\ pc[r] = "issue"
  /\ draft' = [t \in DOMAIN draft \cup {r} |->
                 IF t = r THEN NewRow(r, token[r], 0) ELSE draft[t]]
  /\ Goto(r, "commit")
  /\ answer' = [answer EXCEPT ![r] = "session"]
  /\ UNCHANGED <<clock, active, row, held, kept, token, started, seenActive,
                 targets, skipped>>

Issue(r) ==
  /\ pc[r] = "issue"
  /\ draft' = [t \in DOMAIN draft \cup {r} |->
                 IF t = r THEN Successor(r) ELSE draft[t]]
  /\ Goto(r, "commit")
  /\ answer' = [answer EXCEPT ![r] = "session"]
  /\ UNCHANGED <<clock, active, row, held, kept, token, started, seenActive,
                 targets, skipped>>

-----------------------------------------------------------------------------
(* POST /api/auth/logout *)

FindFamily(r, t) ==
  /\ pc[r] = "idle"
  /\ token' = [token EXCEPT ![r] = t]
  /\ \/ t \notin Stored /\ Finish(r, "loggedOut")
     \/ /\ t \in Stored
        /\ Goto(r, "revoke")
        /\ answer' = [answer EXCEPT ![r] = "loggedOut"]
  /\ UNCHANGED <<clock, active, row, draft, held, kept, started, seenActive,
                 targets, skipped>>

-----------------------------------------------------------------------------
(* UPDATE ... WHERE family_id = f AND revoked_at IS NULL *)

\* MUTANT: only the presented token is revoked.
SnapshotToken(r) ==
  /\ pc[r] = "revoke"
  /\ targets' = [targets EXCEPT ![r] = LiveTokens(FamilyOf(r)) \cap {token[r]}]
  /\ Goto(r, "revoking")
  /\ UNCHANGED <<clock, active, row, draft, held, kept, token, started, seenActive,
                 skipped, answer>>

\* MUTANT: the family UPDATE without `revokedAt: null`.
SnapshotAllTokens(r) ==
  /\ pc[r] = "revoke"
  /\ targets' = [targets EXCEPT ![r] = {t \in Stored : row[t].family = FamilyOf(r)}]
  /\ Goto(r, "revoking")
  /\ UNCHANGED <<clock, active, row, draft, held, kept, token, started, seenActive,
                 skipped, answer>>

SnapshotFamily(r) ==
  /\ pc[r] = "revoke"
  /\ targets' = [targets EXCEPT ![r] = LiveTokens(FamilyOf(r))]
  /\ Goto(r, "revoking")
  /\ UNCHANGED <<clock, active, row, draft, held, kept, token, started, seenActive,
                 skipped, answer>>

RevokeRow(r, t) ==
  /\ pc[r] = "revoking"
  /\ t \in targets[r]
  /\ Unlocked(t, r)
  /\ targets' = [targets EXCEPT ![r] = @ \ {t}]
  /\ \/ /\ ~ row[t].revoked
        /\ held' = [held EXCEPT ![r] = @ \cup {t}]
        /\ UNCHANGED <<kept, skipped>>
     \/ /\ row[t].revoked
        /\ kept' = [kept EXCEPT ![r] = @ \cup {t}]
        /\ skipped' = [skipped EXCEPT ![r] = TRUE]
        /\ UNCHANGED held
  /\ UNCHANGED <<clock, active, row, draft, pc, token, started, seenActive,
                 answer>>

EndOfUpdate(r) ==
  /\ pc[r] = "revoking"
  /\ targets[r] = {}
  /\ Goto(r, "commit")
  /\ UNCHANGED <<clock, active, row, draft, held, kept, token, started, seenActive,
                 targets, skipped, answer>>

-----------------------------------------------------------------------------
(* The end of a transaction *)

\* The transaction's row versions become the committed ones.
Committed(r) ==
  [t \in Stored \cup ({r} \cap DOMAIN draft) |->
     IF t \in held[r] THEN [row[t] EXCEPT !.revoked = TRUE]
     ELSE IF t \in Stored THEN row[t] ELSE draft[t]]

\* MUTANT: an insert survives the rollback of its transaction.
ReleaseLocks(r) ==
  /\ held' = [held EXCEPT ![r] = {}]
  /\ kept' = [kept EXCEPT ![r] = {}]
  /\ targets' = [targets EXCEPT ![r] = {}]
  /\ UNCHANGED draft

\* Its locks are released and its private versions are dropped.
Release(r) ==
  /\ held' = [held EXCEPT ![r] = {}]
  /\ kept' = [kept EXCEPT ![r] = {}]
  /\ draft' = [t \in DOMAIN draft \ {r} |-> draft[t]]
  /\ targets' = [targets EXCEPT ![r] = {}]

Commit(r) ==
  /\ pc[r] = "commit"
  /\ row' = Committed(r)
  /\ Release(r)
  /\ Goto(r, "done")
  /\ UNCHANGED <<clock, active, token, started, seenActive, skipped, answer>>

\* MUTANT: a request that dies leaves its transaction open.
AbortLeavesTransaction(r) ==
  /\ pc[r] \notin {"idle", "done"}
  /\ Finish(r, "failed")
  /\ UNCHANGED <<clock, active, row, draft, held, kept, token, started, seenActive,
                 targets, skipped>>

\* The connection drops, the interactive transaction times out, or the
\* process dies: the database rolls back.
Abort(r) ==
  /\ pc[r] \notin {"idle", "done"}
  /\ Release(r)
  /\ Finish(r, "failed")
  /\ UNCHANGED <<clock, active, row, token, started, seenActive, skipped>>

-----------------------------------------------------------------------------
(* The environment *)

Tick == /\ clock < MaxClock
        /\ clock' = clock + 1
        /\ UNCHANGED <<active, row, draft, held, kept, pc, token, started,
                       seenActive, targets, skipped, answer>>

\* An operator deactivates the account, or activates it again.
SetActive == /\ active' = ~ active
             /\ UNCHANGED <<clock, row, draft, held, kept, pc, token, started,
                            seenActive, targets, skipped, answer>>

-----------------------------------------------------------------------------
Init ==
  /\ clock = 0
  /\ active = TRUE
  /\ row = [t \in {} |-> NewRow(t, t, 0)]
  /\ draft = [t \in {} |-> NewRow(t, t, 0)]
  /\ held = [r \in Request |-> {}]
  /\ kept = [r \in Request |-> {}]
  /\ pc = [r \in Request |-> "idle"]
  /\ token = [r \in Request |-> r]
  /\ started = [r \in Request |-> 0]
  /\ seenActive = [r \in Request |-> FALSE]
  /\ targets = [r \in Request |-> {}]
  /\ skipped = [r \in Request |-> FALSE]
  /\ answer = [r \in Request |-> "none"]

\* A browser holds a token only once the request that stored it committed;
\* presenting r itself stands for a value that is no token.
Arrive(r) == \E t \in Stored \cup {r} : StartRefresh(r, t) \/ FindFamily(r, t)

\* What the event loop and the database do for a request they have accepted.
Proceed(r) ==
  \/ StoreLogin(r)
  \/ ReadToken(r)
  \/ Claim(r)
  \/ ClaimRow(r)
  \/ Issue(r)
  \/ SnapshotFamily(r)
  \/ \E t \in Request : RevokeRow(r, t)
  \/ EndOfUpdate(r)
  \/ Commit(r)

Next == \/ \E r \in Request : Login(r) \/ Arrive(r) \/ Proceed(r) \/ Abort(r)
        \/ Tick
        \/ SetActive

Spec == Init /\ [][Next]_vars

FairSpec == Spec /\ \A r \in Request : WF_vars(Proceed(r))

-----------------------------------------------------------------------------
(* Properties *)

\* Types, and what is private to an open transaction belongs to an open one.
TypeOK ==
  /\ clock \in Nat
  /\ active \in BOOLEAN
  /\ Stored \subseteq Request /\ row \in [Stored -> Row]
  /\ DOMAIN draft \subseteq Request /\ draft \in [DOMAIN draft -> Row]
  /\ held \in [Request -> SUBSET Request]
  /\ kept \in [Request -> SUBSET Request]
  /\ pc \in [Request -> PC]
  /\ token \in [Request -> Request]
  /\ started \in [Request -> Nat]
  /\ seenActive \in [Request -> BOOLEAN]
  /\ targets \in [Request -> SUBSET Request]
  /\ skipped \in [Request -> BOOLEAN]
  /\ answer \in [Request -> Answer]
  /\ \A r \in DOMAIN draft : pc[r] = "commit"

\* "Each refresh token works exactly once" (rotateRefreshToken): no two stored
\* tokens replaced the same one, whatever races for it.
SingleUse ==
  \A s, t \in Stored :
    (row[s].parent = row[t].parent /\ row[s].parent \notin {s, t}) => s = t

\* A family never has two tokens that work: rotation revokes the old one in the
\* transaction that stores the new one.
OneLivePerFamily == \A f \in Request : \A s, t \in LiveTokens(f) : s = t

\* Reuse detection is right and complete: it is only ever set off by a token that
\* was used or revoked before (never by one that has just expired), and whoever is
\* told so leaves no working replacement behind: the loser of a race for one token
\* takes the winner's token with it.
ReplayEndsSuccessor ==
  \A r \in Request :
    answer[r] = "reused"
      => /\ row[token[r]].revoked
         /\ pc[r] = "done" => \A s \in Stored :
              (row[s].parent = token[r] /\ s # token[r]) => row[s].revoked

\* A finished family UPDATE of logout or reuse detection that found each of its
\* candidates still live has ended the session: nothing of the family works, and
\* no open transaction is about to store a token for it.
RevocationEndsFamily ==
  \A r \in Request :
    (/\ pc[r] = "done"
     /\ answer[r] \in {"reused", "loggedOut"}
     /\ token[r] \in Stored
     /\ ~ skipped[r])
       => /\ LiveTokens(FamilyOf(r)) = {}
          /\ \A q \in DOMAIN draft : draft[q].family # FamilyOf(r)

\* The statement r executes waits for a row that q has locked.
WaitsFor(r, q) == q # r /\ targets[r] \cap Locked(q) # {}

\* Whoever waits for a row while it has locked another waits for a newer token of
\* the same family.
WaitsForNewer ==
  \A r \in Request : \A t \in Locked(r), u \in targets[r] :
    row[t].family = row[u].family /\ row[t].place < row[u].place

\* So there is no deadlock, in any order of arrival: among any transactions, one
\* waits for none of the others.
NoDeadlock ==
  \A S \in SUBSET Request :
    (IsFiniteSet(S) /\ S # {}) => \E r \in S : \A q \in S : ~ WaitsFor(r, q)

\* Transactions on one family may hold a row and wait for another, but only ever
\* in the order of the tokens, so that they never wait for each other in a circle.
WaitsAreOrdered == WaitsForNewer /\ NoDeadlock

\* Every accepted request is answered: each lock it waits for is released.
Answered == \A r \in Request : (pc[r] # "idle") ~> (pc[r] = "done")

\* What the sessions look like from outside: the committed rows are a chain.
Chain == INSTANCE SessionChain
           WITH Token <- Request,
                live <- [f \in Request |-> LiveTokens(f)],
                spent <- [f \in Request |-> SpentTokens(f)]

ImplementsChain == Chain!Spec

-----------------------------------------------------------------------------
(* What the comments of the code say, and the code does not guarantee. *)

\* "Logout ends the whole session (token family), not just the current token."
LogoutEndsSession ==
  \A r \in Request :
    (pc[r] = "done" /\ answer[r] = "loggedOut" /\ token[r] \in Stored)
       => LiveTokens(FamilyOf(r)) = {}
=============================================================================

------------------------ MODULE RefreshTokensProofs ------------------------
(***************************************************************************)
(* TLAPS proofs about RefreshTokens, for any set of requests, any token     *)
(* lifetime and any clock bound.                                            *)
(***************************************************************************)
EXTENDS RefreshTokens, FiniteSetTheorems, WellFoundedInduction, TLAPS

\* A token is stored under the name of a request that has answered "session".
StoredDone == \A r \in Stored : pc[r] = "done" /\ answer[r] = "session"

\* Rows of a family hang together, and a row with a successor is revoked.
Lineage ==
  \A t \in Stored :
    /\ row[t].parent \in Stored
    /\ row[t].family \in Stored
    /\ row[row[t].parent].family = row[t].family
    /\ row[t].parent # t => row[row[t].parent].revoked

\* The row a handler works on exists; what it presents is a token or nothing;
\* nothing is reported before the statement that decides it.
Presented ==
  \A r \in Request :
    /\ token[r] \in Stored \cup {r}
    /\ pc[r] \in {"claim", "claiming", "issue", "revoke", "revoking"} => token[r] \in Stored
    /\ pc[r] \in {"idle", "store", "read", "claim", "claiming", "issue"} => answer[r] = "none"

\* A row is revoked by one transaction at a time, which has locked it.
Locks ==
  \A r \in Request :
    /\ held[r] # {} => pc[r] \in {"issue", "commit", "revoking"}
    /\ held[r] # {} => targets[r] = {}
    /\ pc[r] = "issue" => held[r] = {token[r]}
    /\ \A t \in held[r] :
         /\ t \in Stored
         /\ token[r] \in Stored
         /\ ~ row[t].revoked
         /\ row[t].family = FamilyOf(r)
         /\ \A q \in Request : t \in held[q] => q = r

\* A successor is drafted by the transaction that has claimed its parent.
Drafts ==
  \A r \in DOMAIN draft :
    /\ pc[r] = "commit"
    /\ answer[r] = "session"
    /\ held[r] = {token[r]}
    /\ draft[r].family = FamilyOf(r)
    /\ draft[r].parent = token[r]
    /\ ~ draft[r].revoked

\* An UPDATE has at most one candidate row.
Candidates ==
  \A r \in Request :
    /\ targets[r] # {} => pc[r] \in {"claiming", "revoking"}
    /\ \A t \in targets[r] : t \in Stored /\ row[t].family = FamilyOf(r)
    /\ \A s, t \in targets[r] : s = t

\* What a finished or running reuse detection knows of the token's successor.
Replayed ==
  \A r \in Request :
    answer[r] = "reused"
      => /\ token[r] \in Stored
         /\ row[token[r]].revoked
         /\ \A s \in Stored :
              (row[s].parent = token[r] /\ s # token[r] /\ ~ row[s].revoked)
                 => \/ pc[r] = "revoke"
                    \/ pc[r] = "revoking" /\ s \in targets[r] \cup held[r]
                    \/ pc[r] = "commit" /\ s \in held[r]

\* What a family UPDATE has still to do: each row that works is a candidate or
\* locked, unless a candidate turned out (or will turn out) to be revoked.
Revoking ==
  \A r \in Request :
    (answer[r] \in {"reused", "loggedOut"} /\ token[r] \in Stored /\ ~ skipped[r])
      => \/ pc[r] = "revoke"
         \/ /\ pc[r] = "revoking"
            /\ \/ LiveTokens(FamilyOf(r)) \subseteq targets[r] \cup held[r]
               \/ \E t \in targets[r] : row[t].revoked
         \/ pc[r] = "commit" /\ LiveTokens(FamilyOf(r)) \subseteq held[r]
         \/ pc[r] = "done" /\ LiveTokens(FamilyOf(r)) = {}

IInv == /\ TypeOK
        /\ StoredDone
        /\ Lineage
        /\ Presented
        /\ Locks
        /\ Drafts
        /\ Candidates
        /\ Replayed
        /\ Revoking
        /\ SingleUse
        /\ OneLivePerFamily

-----------------------------------------------------------------------------
(* Type correctness *)

\* The initial state has the declared types.
LEMMA TypeInit == Init => TypeOK
  BY TTLAssumption DEF Init, TypeOK, Stored, Row, PC, Answer, NewRow

\* Every step keeps the types, and keeps drafts inside open transactions.
LEMMA TypeStep == TypeOK /\ Presented /\ Locks /\ [Next]_vars => TypeOK'
<1> SUFFICES ASSUME TypeOK, Presented, Locks, [Next]_vars PROVE TypeOK'
  OBVIOUS
<1> USE TTLAssumption DEF TypeOK, Stored, Row, PC, Answer, NewRow, Goto, Finish
<1>1. ASSUME NEW r \in Request, Login(r) PROVE TypeOK'
  <2>1. \E l \in PC, a \in Answer : /\ pc' = [pc EXCEPT ![r] = l]
                                  /\ answer' = [answer EXCEPT ![r] = a]
    <3>1. CASE active
      BY <1>1, <3>1 DEF Login
    <3>2. CASE ~ active
      BY <1>1, <3>2 DEF Login
    <3>3. QED
      BY <3>1, <3>2
  <2>2. pc[r] = "idle" /\ r \notin DOMAIN draft
    BY <1>1 DEF Login
  <2>3. UNCHANGED <<clock, active, row, draft, held, kept, token, started,
                    seenActive, targets, skipped>>
    BY <1>1 DEF Login
  <2>4. QED
    BY <2>1, <2>2, <2>3
<1>2. ASSUME NEW r \in Request, Arrive(r) PROVE TypeOK'
  <2> PICK t \in Stored \cup {r} : StartRefresh(r, t) \/ FindFamily(r, t)
    BY <1>2 DEF Arrive
  <2>1. t \in Request /\ r \notin DOMAIN draft
    BY DEF StartRefresh, FindFamily
  <2>2. CASE StartRefresh(r, t)
    BY <2>1, <2>2 DEF StartRefresh
  <2>3. CASE FindFamily(r, t)
    <3>1. \E l \in PC, a \in Answer : /\ pc' = [pc EXCEPT ![r] = l]
                                    /\ answer' = [answer EXCEPT ![r] = a]
      BY <2>3 DEF FindFamily
    <3>2. QED
      BY <2>1, <2>3, <3>1 DEF FindFamily
  <2>4. QED
    BY <2>2, <2>3
<1>3. ASSUME NEW r \in Request, StoreLogin(r) PROVE TypeOK'
  BY <1>3 DEF StoreLogin
<1>4. ASSUME NEW r \in Request, ReadToken(r) PROVE TypeOK'
  <2>1. \E l \in PC, a \in Answer : /\ pc' = [pc EXCEPT ![r] = l]
                                  /\ answer' = [answer EXCEPT ![r] = a]
    BY <1>4 DEF ReadToken
  <2>2. QED
    BY <1>4, <2>1 DEF ReadToken
<1>5. ASSUME NEW r \in Request, Claim(r) \/ ClaimRow(r) PROVE TypeOK'
  <2>1. \E l \in PC, a \in Answer : /\ pc' = [pc EXCEPT ![r] = l]
                                  /\ answer' = [answer EXCEPT ![r] = a]
    BY <1>5 DEF Claim, ClaimRow, ClaimWon, ClaimLost
  <2>2. /\ targets' \in [Request -> SUBSET Request]
        /\ held' \in [Request -> SUBSET Request]
        /\ kept' \in [Request -> SUBSET Request]
    BY <1>5 DEF Claim, ClaimRow
  <2>3. pc[r] # "commit" /\ UNCHANGED <<clock, active, row, draft, token, started, seenActive, skipped>>
    BY <1>5 DEF Claim, ClaimRow
  <2>4. pc' \in [Request -> PC] /\ answer' \in [Request -> Answer]
    BY <2>1
  <2>5. \A q \in DOMAIN draft : pc'[q] = "commit"
    BY <2>1, <2>3
  <2>6. QED
    BY <2>2, <2>3, <2>4, <2>5
<1>6. ASSUME NEW r \in Request, Issue(r) PROVE TypeOK'
  <2>1. token[r] \in Stored
    BY <1>6 DEF Issue, Presented
  <2>2. Successor(r) \in Row
    BY <2>1 DEF FamilyOf, Successor
  <2>3. QED
    BY <1>6, <2>2 DEF Issue
<1>7. ASSUME NEW r \in Request, SnapshotFamily(r) PROVE TypeOK'
  BY <1>7 DEF SnapshotFamily, LiveTokens
<1>8. ASSUME NEW r \in Request, NEW t \in Request, RevokeRow(r, t) PROVE TypeOK'
  <2>1. /\ held' \in [Request -> SUBSET Request] /\ skipped' \in [Request -> BOOLEAN]
        /\ kept' \in [Request -> SUBSET Request]
    <3>1. CASE /\ kept' = [kept EXCEPT ![r] = @ \cup {t}]
               /\ skipped' = [skipped EXCEPT ![r] = TRUE] /\ held' = held
      BY <3>1
    <3>2. CASE /\ held' = [held EXCEPT ![r] = @ \cup {t}]
               /\ kept' = kept /\ skipped' = skipped
      BY <3>2
    <3>3. QED
      BY <1>8, <3>1, <3>2 DEF RevokeRow
  <2>2. QED
    BY <1>8, <2>1 DEF RevokeRow
<1>9. ASSUME NEW r \in Request, EndOfUpdate(r) PROVE TypeOK'
  BY <1>9 DEF EndOfUpdate
<1>10. ASSUME NEW r \in Request, Commit(r) PROVE TypeOK'
  <2>1. /\ DOMAIN Committed(r) \subseteq Request
        /\ Committed(r) \in [DOMAIN Committed(r) -> Row]
    <3> DEFINE D == Stored \cup ({r} \cap DOMAIN draft)
    <3>1. ASSUME NEW t \in D PROVE Committed(r)[t] \in Row
      <4>1. CASE t \in held[r]
        <5>1. row[t] \in Row
          BY <4>1 DEF Locks
        <5>2. [row[t] EXCEPT !.revoked = TRUE] \in Row
          BY <5>1
        <5>3. QED
          BY <4>1, <5>2 DEF Committed
      <4>2. CASE t \notin held[r]
        BY <3>1, <4>2 DEF Committed
      <4>3. QED
        BY <4>1, <4>2
    <3>2. DOMAIN Committed(r) = D /\ D \subseteq Request
      BY DEF Committed
    <3>3. Committed(r) = [t \in D |-> Committed(r)[t]]
      BY DEF Committed
    <3>4. QED
      BY <3>1, <3>2, <3>3
  <2>2. /\ held' \in [Request -> SUBSET Request] /\ targets' \in [Request -> SUBSET Request]
        /\ kept' \in [Request -> SUBSET Request]
    BY <1>10 DEF Commit, Release
  <2>3. /\ DOMAIN draft' \subseteq Request
        /\ draft' \in [DOMAIN draft' -> Row]
        /\ \A q \in DOMAIN draft' : pc'[q] = "commit"
    BY <1>10 DEF Commit, Release
  <2>4. QED
    BY <1>10, <2>1, <2>2, <2>3 DEF Commit
<1>11. ASSUME NEW r \in Request, Abort(r) PROVE TypeOK'
  BY <1>11 DEF Abort, Release
<1>12. CASE Tick
  BY <1>12 DEF Tick
<1>13. CASE SetActive
  BY <1>13 DEF SetActive
<1>14. CASE UNCHANGED vars
  BY <1>14 DEF vars
<1>15. QED
  BY <1>1, <1>2, <1>3, <1>4, <1>5, <1>6, <1>7, <1>8, <1>9, <1>10, <1>11,
     <1>12, <1>13, <1>14 DEF Next, Proceed

-----------------------------------------------------------------------------
(* The inductive invariant.  One lemma per action, one step per conjunct. *)

\* No request has arrived and the table is empty.
LEMMA InvInit == Init => IInv
  <1> SUFFICES ASSUME Init PROVE IInv
    OBVIOUS
  <1>1. TypeOK
    BY TypeInit
  <1>2. Stored = {} /\ DOMAIN draft = {}
    BY DEF Init, Stored
  <1>3. QED
    BY <1>1, <1>2 DEF Init, IInv, StoredDone, Lineage, Presented, Locks,
       Drafts, Candidates, Replayed, Revoking, SingleUse, OneLivePerFamily,
       LiveTokens

\* Reading the account touches no token.
LEMMA LoginInv ==
  ASSUME IInv, TypeOK', NEW r \in Request, Login(r)
  PROVE  IInv'
<1> USE DEF IInv, TypeOK, Stored, FamilyOf
<1>1. StoredDone'
  BY DEF StoredDone, Login, Finish, Goto
<1>2. Lineage'
  BY DEF Lineage, Login, Finish, Goto
<1>3. Presented'
  BY DEF Presented, Login, Finish, Goto
<1>4. Locks'
  <2>1. pc[r] = "idle" /\ held[r] = {}
    BY DEF Login, Locks
  <2>2. \E l \in {"store", "done"} : pc' = [pc EXCEPT ![r] = l]
    BY DEF Login, Finish, Goto
  <2>3. UNCHANGED <<row, held, targets, token>>
    BY DEF Login
  <2>4. \A q \in Request : held[q] # {} => pc'[q] = pc[q]
    BY <2>1, <2>2
  <2>5. \A q \in Request : pc'[q] = "issue" => pc[q] = "issue"
    BY <2>2
  <2>6. QED
    <3>1. ASSUME NEW q \in Request
          PROVE  /\ held'[q] # {} => /\ pc'[q] \in {"issue", "commit", "revoking"}
                                     /\ targets'[q] = {}
                 /\ pc'[q] = "issue" => held'[q] = {token'[q]}
                 /\ \A t \in held'[q] : /\ t \in Stored
                                         /\ token'[q] \in Stored
                                         /\ ~ row'[t].revoked
                                         /\ row'[t].family = FamilyOf(q)
                                         /\ \A p \in Request : t \in held'[p] => p = q
      <4> HIDE DEF TypeOK
      <4> QED
        BY <2>3, <2>4, <2>5 DEF Locks
    <3> HIDE DEF IInv, TypeOK
    <3>2. QED
      BY <2>3, <3>1 DEF Locks
<1>5. Drafts'
  BY DEF Drafts, Login, Finish, Goto
<1>6. Candidates'
  BY DEF Candidates, Login, Finish, Goto
<1>7. Replayed'
  BY DEF Replayed, Login, Finish, Goto
<1>8. Revoking'
  <2>1. UNCHANGED <<row, held, targets, token, skipped>> /\ answer[r] = "none" /\ pc[r] = "idle"
    BY DEF Login, Presented
  <2>2. /\ \A q \in Request \ {r} : pc'[q] = pc[q] /\ answer'[q] = answer[q]
        /\ answer'[r] \in {"none", "refused"}
    BY <2>1 DEF Login, Finish, Goto
  <2> HIDE DEF TypeOK
  <2>3. QED
    BY <2>1, <2>2 DEF Revoking, LiveTokens
<1>9. SingleUse'
  BY DEF SingleUse, Login, Finish, Goto
<1>10. OneLivePerFamily'
  BY DEF OneLivePerFamily, Login, Finish, Goto, LiveTokens
<1>11. QED
  BY <1>1, <1>2, <1>3, <1>4, <1>5, <1>6, <1>7, <1>8, <1>9, <1>10

\* A new session is a family of one token.
LEMMA StoreLoginInv ==
  ASSUME IInv, TypeOK', NEW r \in Request, StoreLogin(r)
  PROVE  IInv'
<1> USE DEF IInv
<1>a. /\ r \notin Stored
      /\ Stored' = Stored \cup {r}
      /\ row'[r] = NewRow(r, r, 0)
      /\ \A t \in Stored : row'[t] = row[t]
      /\ pc' = [pc EXCEPT ![r] = "done"]
      /\ answer' = [answer EXCEPT ![r] = "session"]
      /\ UNCHANGED <<draft, held, token, targets, skipped>>
  BY DEF StoreLogin, Stored, StoredDone, Finish
<1>b. row'[r].family = r /\ row'[r].parent = r /\ ~ row'[r].revoked
  BY <1>a DEF NewRow
<1>c. \A t \in Stored : row[t].family \in Stored /\ row[t].parent \in Stored
  BY DEF Lineage
<1>d. held[r] = {} /\ targets[r] = {} /\ r \notin DOMAIN draft /\ pc[r] = "store"
  BY DEF StoreLogin, Locks, Candidates, Drafts
<1>e. \A q \in Request : token[q] # q => /\ token[q] \in Stored
                                         /\ FamilyOf(q)' = FamilyOf(q)
  BY <1>a DEF Presented, FamilyOf
<1>f. \A f \in Request \ {r} : LiveTokens(f)' = LiveTokens(f)
  BY <1>a, <1>b DEF LiveTokens
<1>g. LiveTokens(r)' = {r}
  BY <1>a, <1>b, <1>c DEF LiveTokens
<1>h. \A q \in Request \ {r} : /\ pc'[q] = pc[q]
                               /\ answer'[q] = answer[q]
                               /\ token[q] # r
                               /\ (q \in Stored => answer[q] = "session")
  BY <1>a DEF TypeOK, Presented, StoredDone
<1>1. StoredDone'
  BY <1>a DEF StoredDone, TypeOK
<1>2. Lineage'
  BY <1>a, <1>b, <1>c DEF Lineage
<1>3. Presented'
  BY <1>a DEF Presented, TypeOK
<1>4. Locks'
  <2>1. \A q \in Request : \A t \in held[q] : q # r /\ t \in Stored /\ token[q] \in Stored
    BY <1>d DEF Locks
  <2>2. QED
    BY <1>a, <1>d, <1>h, <2>1 DEF Locks, FamilyOf
<1>5. Drafts'
  <2>1. \A q \in DOMAIN draft : q # r /\ q \in Request /\ token[q] \in Stored
    BY <1>d DEF Drafts, Locks, TypeOK
  <2>2. QED
    BY <1>a, <1>h, <2>1 DEF Drafts, FamilyOf
<1>6. Candidates'
  <2>1. \A q \in Request : targets[q] # {} => q # r /\ token[q] \in Stored
    BY <1>d DEF Candidates, Presented
  <2>2. QED
    BY <1>a, <1>h, <2>1 DEF Candidates, FamilyOf
<1>7. Replayed'
  <2> SUFFICES ASSUME NEW q \in Request, answer'[q] = "reused"
               PROVE  /\ token[q] \in Stored'
                      /\ row'[token[q]].revoked
                      /\ \A s \in Stored' :
                           (row'[s].parent = token[q] /\ s # token[q] /\ ~ row'[s].revoked)
                              => \/ pc'[q] = "revoke"
                                 \/ pc'[q] = "revoking" /\ s \in targets[q] \cup held[q]
                                 \/ pc'[q] = "commit" /\ s \in held[q]
    BY <1>a DEF Replayed
  <2>1. q # r /\ answer[q] = "reused" /\ token[q] # r
    BY <1>a, <1>h DEF TypeOK
  <2>2. QED
    BY <1>a, <1>b, <1>h, <2>1 DEF Replayed
<1>8. Revoking'
  <2> SUFFICES ASSUME NEW q \in Request, answer'[q] \in {"reused", "loggedOut"},
                      token[q] \in Stored', ~ skipped[q]
               PROVE  \/ pc'[q] = "revoke"
                      \/ /\ pc'[q] = "revoking"
                         /\ \/ LiveTokens(FamilyOf(q))' \subseteq targets[q] \cup held[q]
                            \/ \E t \in targets[q] : row'[t].revoked
                      \/ pc'[q] = "commit" /\ LiveTokens(FamilyOf(q))' \subseteq held[q]
                      \/ pc'[q] = "done" /\ LiveTokens(FamilyOf(q))' = {}
    BY <1>a DEF Revoking
  <2>1. q # r /\ token[q] # r /\ token[q] \in Stored
    BY <1>a, <1>h DEF TypeOK
  <2>2. FamilyOf(q)' = FamilyOf(q) /\ FamilyOf(q) \in Stored
    BY <1>a, <1>c, <2>1 DEF FamilyOf
  <2>3. LiveTokens(FamilyOf(q))' = LiveTokens(FamilyOf(q))
    BY <1>a, <1>b, <2>2 DEF LiveTokens
  <2>4. \A t \in targets[q] : t \in Stored
    BY DEF Candidates
  <2>5. QED
    BY <1>a, <1>h, <2>1, <2>3, <2>4 DEF Revoking
<1>9. SingleUse'
  BY <1>a, <1>b, <1>c DEF SingleUse
<1>10. OneLivePerFamily'
  BY <1>f, <1>g DEF OneLivePerFamily
<1>11. QED
  BY <1>1, <1>2, <1>3, <1>4, <1>5, <1>6, <1>7, <1>8, <1>9, <1>10

\* An arriving refresh only remembers its token.
LEMMA StartRefreshInv ==
  ASSUME IInv, TypeOK', NEW r \in Request, NEW t \in Stored \cup {r}, StartRefresh(r, t)
  PROVE  IInv'
<1> USE DEF IInv, TypeOK, Stored, FamilyOf
<1>1. StoredDone'
  BY DEF StoredDone, StartRefresh, Goto
<1>2. Lineage'
  BY DEF Lineage, StartRefresh, Goto
<1>3. Presented'
  BY DEF Presented, StartRefresh, Goto
<1>4. Locks'
  BY DEF Locks, StartRefresh, Goto
<1>5. Drafts'
  BY DEF Drafts, StartRefresh, Goto
<1>6. Candidates'
  BY DEF Candidates, StartRefresh, Goto
<1>7. Replayed'
  BY DEF Replayed, StartRefresh, Goto, Presented
<1>8. Revoking'
  BY DEF Revoking, StartRefresh, Goto, Presented, LiveTokens
<1>9. SingleUse'
  BY DEF SingleUse, StartRefresh, Goto
<1>10. OneLivePerFamily'
  BY DEF OneLivePerFamily, StartRefresh, Goto, LiveTokens
<1>11. QED
  BY <1>1, <1>2, <1>3, <1>4, <1>5, <1>6, <1>7, <1>8, <1>9, <1>10

\* The token is looked up.
LEMMA ReadTokenInv ==
  ASSUME IInv, TypeOK', NEW r \in Request, ReadToken(r)
  PROVE  IInv'
<1> USE DEF IInv, TypeOK, Stored, FamilyOf
<1>a. /\ pc'[r] \in {"claim", "done"} /\ answer'[r] \in {"none", "unknown"}
      /\ pc'[r] = "claim" => token[r] \in Stored /\ answer'[r] = "none"
      /\ \A q \in Request \ {r} : pc'[q] = pc[q] /\ answer'[q] = answer[q]
  BY DEF ReadToken, Finish, Goto, Presented
<1>b. UNCHANGED <<row, held, targets, token, skipped>>
  BY DEF ReadToken
<1>1. StoredDone'
  BY DEF StoredDone, ReadToken, Finish, Goto
<1>2. Lineage'
  BY DEF Lineage, ReadToken, Finish, Goto
<1>3. Presented'
  BY <1>a, <1>b DEF Presented
<1>4. Locks'
  BY SMTT(30) DEF Locks, ReadToken, Finish, Goto
<1>5. Drafts'
  BY DEF Drafts, ReadToken, Finish, Goto
<1>6. Candidates'
  BY DEF Candidates, ReadToken, Finish, Goto
<1>7. Replayed'
  BY DEF Replayed, ReadToken, Finish, Goto
<1>8. Revoking'
  BY <1>a, <1>b, SMTT(30) DEF Revoking, LiveTokens
<1>9. SingleUse'
  BY DEF SingleUse, ReadToken, Finish, Goto
<1>10. OneLivePerFamily'
  BY DEF OneLivePerFamily, ReadToken, Finish, Goto, LiveTokens
<1>11. QED
  BY <1>1, <1>2, <1>3, <1>4, <1>5, <1>6, <1>7, <1>8, <1>9, <1>10

\* What a claim that counted 0 reports.
LEMMA LostAnswer ==
  ASSUME IInv, NEW r \in Request, ClaimLost(r)
  PROVE  /\ \A q \in Request \ {r} : pc'[q] = pc[q] /\ answer'[q] = answer[q]
         /\ \/ pc'[r] = "commit" /\ answer'[r] = "expired"
            \/ pc'[r] = "revoke" /\ answer'[r] = "reused" /\ row[token[r]].expiresAt > started[r]
BY DEF ClaimLost, Goto, IInv, TypeOK

\* The claim finds its candidate, or learns that the token is used or expired.
LEMMA ClaimInv ==
  ASSUME IInv, TypeOK', NEW r \in Request, Claim(r)
  PROVE  IInv'
<1>a. /\ pc[r] = "claim" /\ token[r] \in Stored /\ answer[r] = "none"
      /\ held[r] = {} /\ targets[r] = {} /\ r \notin DOMAIN draft
      /\ UNCHANGED <<row, draft, held, kept, token, skipped>>
  BY DEF Claim, IInv, Presented, Locks, Candidates, Drafts
<1>b. /\ \A q \in Request \ {r} : /\ pc'[q] = pc[q] /\ answer'[q] = answer[q]
                                  /\ targets'[q] = targets[q]
      /\ \/ /\ pc'[r] = "claiming" /\ answer'[r] = "none"
            /\ targets'[r] = {token[r]}
         \/ /\ pc'[r] = "commit" /\ answer'[r] = "expired"
            /\ targets'[r] = {}
         \/ /\ pc'[r] = "revoke" /\ answer'[r] = "reused" /\ row[token[r]].revoked
            /\ targets'[r] = {}
  <2>1. CASE /\ targets' = [targets EXCEPT ![r] = {token[r]}]
             /\ Goto(r, "claiming") /\ UNCHANGED answer
    BY <1>a, <2>1 DEF Goto, IInv, TypeOK
  <2>2. CASE ~ Claimable(r) /\ ClaimLost(r) /\ UNCHANGED targets
    BY <1>a, <2>2, LostAnswer DEF Claimable
  <2>3. QED
    BY <2>1, <2>2 DEF Claim
<1>c. Stored' = Stored /\ \A q \in Request : FamilyOf(q)' = FamilyOf(q)
  BY <1>a DEF Stored, FamilyOf
<1>1. StoredDone'
  BY <1>a, <1>b, <1>c DEF IInv, StoredDone, TypeOK
<1>2. Lineage'
  BY <1>a, <1>c DEF IInv, Lineage
<1>3. Presented'
  BY <1>a, <1>b, <1>c DEF IInv, Presented
<1>4. Locks'
  <2>1. ASSUME NEW q \in Request
        PROVE  /\ held[q] # {} => pc'[q] \in {"issue", "commit", "revoking"}
               /\ held[q] # {} => targets'[q] = {}
               /\ pc'[q] = "issue" => held[q] = {token[q]}
    BY <1>a, <1>b DEF IInv, Locks
  <2>2. QED
    BY <1>a, <1>c, <2>1 DEF IInv, Locks
<1>5. Drafts'
  <2>1. DOMAIN draft \subseteq Request \ {r}
    BY <1>a DEF IInv, TypeOK
  <2>2. QED
    BY <1>a, <1>b, <1>c, <2>1 DEF IInv, Drafts
<1>6. Candidates'
  BY <1>a, <1>b, <1>c DEF IInv, Candidates, FamilyOf
<1>7. Replayed'
  BY <1>a, <1>b, <1>c DEF IInv, Replayed
<1>8. Revoking'
  <2>1. \A f : LiveTokens(f)' = LiveTokens(f)
    BY <1>a, <1>c DEF LiveTokens
  <2>2. QED
    BY <1>a, <1>b, <1>c, <2>1 DEF IInv, Revoking
<1>9. SingleUse'
  BY <1>a, <1>c DEF IInv, SingleUse
<1>10. OneLivePerFamily'
  <2>1. \A f : LiveTokens(f)' = LiveTokens(f)
    BY <1>a, <1>c DEF LiveTokens
  <2>2. QED
    BY <2>1 DEF IInv, OneLivePerFamily
<1>11. QED
  BY <1>1, <1>2, <1>3, <1>4, <1>5, <1>6, <1>7, <1>8, <1>9, <1>10 DEF IInv

\* The row is locked: the claim is written, or the token was used meanwhile.
LEMMA ClaimRowInv ==
  ASSUME IInv, TypeOK', NEW r \in Request, ClaimRow(r)
  PROVE  IInv'
<1>a. /\ pc[r] = "claiming" /\ token[r] \in Stored /\ answer[r] = "none"
      /\ held[r] = {} /\ r \notin DOMAIN draft
      /\ \A q \in Request \ {r} : token[r] \notin held[q]
      /\ UNCHANGED <<row, draft, token, skipped>>
  BY DEF ClaimRow, IInv, Presented, Locks, Drafts, Unlocked, Locked
<1>b. targets'[r] = {} /\ \A q \in Request \ {r} : targets'[q] = targets[q]
  BY DEF ClaimRow, IInv, TypeOK
<1>c. /\ \A q \in Request \ {r} : /\ pc'[q] = pc[q] /\ answer'[q] = answer[q]
                                  /\ held'[q] = held[q]
      /\ \/ /\ pc'[r] = "issue" /\ answer'[r] = "none"
            /\ held'[r] = {token[r]} /\ ~ row[token[r]].revoked
         \/ /\ pc'[r] = "commit" /\ answer'[r] = "inactive"
            /\ held'[r] = {token[r]} /\ ~ row[token[r]].revoked
         \/ /\ pc'[r] = "commit" /\ answer'[r] = "expired" /\ held'[r] = {}
         \/ /\ pc'[r] = "revoke" /\ answer'[r] = "reused" /\ held'[r] = {}
            /\ row[token[r]].revoked
  <2>1. CASE Claimable(r) /\ ClaimWon(r) /\ held' = [held EXCEPT ![r] = {token[r]}]
    <3>1. /\ \A q \in Request \ {r} : pc'[q] = pc[q] /\ answer'[q] = answer[q]
          /\ \/ pc'[r] = "issue" /\ answer'[r] = "none"
             \/ pc'[r] = "commit" /\ answer'[r] = "inactive"
      BY <1>a, <2>1 DEF ClaimWon, Goto, IInv, TypeOK
    <3>2. QED
      BY <2>1, <3>1 DEF Claimable, IInv, TypeOK
  <2>2. CASE ~ Claimable(r) /\ ClaimLost(r) /\ UNCHANGED held
    BY <1>a, <2>2, LostAnswer DEF Claimable
  <2>3. QED
    BY <2>1, <2>2 DEF ClaimRow
<1>d. Stored' = Stored /\ \A q \in Request : FamilyOf(q)' = FamilyOf(q)
  BY <1>a DEF Stored, FamilyOf
<1>1. StoredDone'
  BY <1>a, <1>c, <1>d DEF IInv, StoredDone, TypeOK
<1>2. Lineage'
  BY <1>a, <1>d DEF IInv, Lineage
<1>3. Presented'
  BY <1>a, <1>c, <1>d DEF IInv, Presented
<1>4. Locks'
  <2>1. \A q \in Request : \A t \in held'[q] : \A p \in Request : t \in held'[p] => p = q
    BY <1>a, <1>c DEF IInv, Locks
  <2>2. ASSUME NEW q \in Request
        PROVE  /\ held'[q] # {} => /\ pc'[q] \in {"issue", "commit", "revoking"}
                                   /\ targets'[q] = {}
               /\ pc'[q] = "issue" => held'[q] = {token[q]}
               /\ \A t \in held'[q] : /\ t \in Stored
                                      /\ token[q] \in Stored
                                      /\ ~ row[t].revoked
                                      /\ row[t].family = FamilyOf(q)
    <3>1. CASE q = r
      BY <1>a, <1>b, <1>c, <3>1 DEF FamilyOf
    <3>2. CASE q # r
      BY <1>b, <1>c, <3>2 DEF IInv, Locks
    <3>3. QED
      BY <3>1, <3>2
  <2>3. QED
    BY <1>a, <1>d, <2>1, <2>2 DEF Locks
<1>5. Drafts'
  <2>1. DOMAIN draft \subseteq Request \ {r}
    BY <1>a DEF IInv, TypeOK
  <2>2. QED
    BY <1>a, <1>c, <1>d, <2>1 DEF IInv, Drafts
<1>6. Candidates'
  BY <1>a, <1>b, <1>c, <1>d DEF IInv, Candidates
<1>7. Replayed'
  <2>1. ASSUME NEW q \in Request \ {r}, answer'[q] = "reused"
        PROVE  /\ pc'[q] = pc[q] /\ answer[q] = "reused"
               /\ targets'[q] = targets[q] /\ held'[q] = held[q]
    BY <1>b, <1>c, <2>1
  <2>2. answer'[r] = "reused" => pc'[r] = "revoke" /\ row[token[r]].revoked
    BY <1>c
  <2>3. QED
    BY <1>a, <1>d, <2>1, <2>2 DEF IInv, Replayed
<1>8. Revoking'
  <2>1. \A f : LiveTokens(f)' = LiveTokens(f)
    BY <1>a, <1>d DEF LiveTokens
  <2>2. QED
    BY <1>a, <1>b, <1>c, <1>d, <2>1 DEF IInv, Revoking
<1>9. SingleUse'
  BY <1>a, <1>d DEF IInv, SingleUse
<1>10. OneLivePerFamily'
  <2>1. \A f : LiveTokens(f)' = LiveTokens(f)
    BY <1>a, <1>d DEF LiveTokens
  <2>2. QED
    BY <2>1 DEF IInv, OneLivePerFamily
<1>11. QED
  BY <1>1, <1>2, <1>3, <1>4, <1>5, <1>6, <1>7, <1>8, <1>9, <1>10 DEF IInv

\* The successor is drafted by the holder of the claim.
LEMMA IssueInv ==
  ASSUME IInv, TypeOK', NEW r \in Request, Issue(r)
  PROVE  IInv'
<1> USE DEF IInv, TypeOK, Stored, FamilyOf
<1>1. StoredDone'
  BY DEF StoredDone, Issue, Goto, NewRow
<1>2. Lineage'
  BY DEF Lineage, Issue, Goto, NewRow
<1>3. Presented'
  BY DEF Presented, Issue, Goto, NewRow
<1>4. Locks'
  BY DEF Locks, Issue, Goto, NewRow
<1>5. Drafts'
  <2>1. /\ DOMAIN draft' = DOMAIN draft \cup {r}
        /\ draft'[r] = Successor(r)
        /\ \A q \in DOMAIN draft \ {r} : draft'[q] = draft[q]
        /\ pc' = [pc EXCEPT ![r] = "commit"]
        /\ answer' = [answer EXCEPT ![r] = "session"]
        /\ UNCHANGED <<row, held, token>>
    BY DEF Issue, Goto
  <2>2. held[r] = {token[r]}
    BY DEF Issue, Locks
  <2>3. QED
    BY <2>1, <2>2 DEF Drafts, Successor, NewRow
<1>6. Candidates'
  BY DEF Candidates, Issue, Goto, NewRow
<1>7. Replayed'
  BY DEF Replayed, Issue, Goto, NewRow
<1>8. Revoking'
  BY DEF Revoking, Issue, Goto, NewRow, LiveTokens
<1>9. SingleUse'
  BY DEF SingleUse, Issue, Goto, NewRow
<1>10. OneLivePerFamily'
  BY DEF OneLivePerFamily, Issue, Goto, NewRow, LiveTokens
<1>11. QED
  BY <1>1, <1>2, <1>3, <1>4, <1>5, <1>6, <1>7, <1>8, <1>9, <1>10

\* An arriving logout looks its family up.
LEMMA FindFamilyInv ==
  ASSUME IInv, TypeOK', NEW r \in Request, NEW t \in Stored \cup {r}, FindFamily(r, t)
  PROVE  IInv'
<1> USE DEF IInv, TypeOK, Stored, FamilyOf
<1>1. StoredDone'
  BY DEF StoredDone, FindFamily, Finish, Goto
<1>2. Lineage'
  BY DEF Lineage, FindFamily, Finish, Goto
<1>3. Presented'
  BY DEF Presented, FindFamily, Finish, Goto
<1>4. Locks'
  BY DEF Locks, FindFamily, Finish, Goto
<1>5. Drafts'
  BY DEF Drafts, FindFamily, Finish, Goto
<1>6. Candidates'
  BY DEF Candidates, FindFamily, Finish, Goto
<1>7. Replayed'
  BY DEF Replayed, FindFamily, Finish, Goto
<1>8. Revoking'
  BY SMTT(30) DEF Revoking, FindFamily, Finish, Goto, LiveTokens
<1>9. SingleUse'
  BY DEF SingleUse, FindFamily, Finish, Goto
<1>10. OneLivePerFamily'
  BY DEF OneLivePerFamily, FindFamily, Finish, Goto, LiveTokens
<1>11. QED
  BY <1>1, <1>2, <1>3, <1>4, <1>5, <1>6, <1>7, <1>8, <1>9, <1>10

\* The candidates are the rows that work when the UPDATE starts.
LEMMA SnapshotInv ==
  ASSUME IInv, TypeOK', NEW r \in Request, SnapshotFamily(r)
  PROVE  IInv'
<1> USE DEF IInv, TypeOK, Stored, FamilyOf
<1>1. StoredDone'
  BY DEF StoredDone, SnapshotFamily, Goto
<1>2. Lineage'
  BY DEF Lineage, SnapshotFamily, Goto
<1>3. Presented'
  BY DEF Presented, SnapshotFamily, Goto
<1>4. Locks'
  BY SMTT(30) DEF Locks, SnapshotFamily, Goto
<1>5. Drafts'
  BY DEF Drafts, SnapshotFamily, Goto
<1>6. Candidates'
  <2>1. FamilyOf(r) \in Request
    BY DEF SnapshotFamily, Presented, Lineage
  <2>2. QED
    BY <2>1 DEF Candidates, SnapshotFamily, Goto, LiveTokens, OneLivePerFamily
<1>7. Replayed'
  <2>1. \A s \in Stored : (row[s].parent = token[r] /\ ~ row[s].revoked)
                              => s \in LiveTokens(FamilyOf(r))
    BY DEF Lineage, LiveTokens
  <2>2. QED
    BY <2>1 DEF Replayed, SnapshotFamily, Goto
<1>8. Revoking'
  BY DEF Revoking, SnapshotFamily, Goto, LiveTokens
<1>9. SingleUse'
  BY DEF SingleUse, SnapshotFamily, Goto
<1>10. OneLivePerFamily'
  BY DEF OneLivePerFamily, SnapshotFamily, Goto, LiveTokens
<1>11. QED
  BY <1>1, <1>2, <1>3, <1>4, <1>5, <1>6, <1>7, <1>8, <1>9, <1>10

\* A candidate is locked, or found revoked.
LEMMA RevokeRowInv ==
  ASSUME IInv, TypeOK', NEW r \in Request, NEW t \in Request, RevokeRow(r, t)
  PROVE  IInv'
<1> USE DEF IInv, TypeOK, Stored, FamilyOf
<1>1. StoredDone'
  BY DEF StoredDone, RevokeRow, Unlocked, Locked
<1>2. Lineage'
  BY DEF Lineage, RevokeRow, Unlocked, Locked
<1>3. Presented'
  BY DEF Presented, RevokeRow, Unlocked, Locked
<1>4. Locks'
  <2>1. /\ targets[r] = {t} /\ held[r] = {} /\ pc[r] = "revoking"
        /\ t \in Stored /\ row[t].family = FamilyOf(r) /\ token[r] \in Stored
    <3>1. pc[r] = "revoking" /\ t \in targets[r]
      BY DEF RevokeRow
    <3>2. targets[r] = {t} /\ t \in Stored /\ row[t].family = FamilyOf(r)
      BY <3>1 DEF Candidates
    <3>3. held[r] = {}
      BY <3>1 DEF Locks
    <3>4. token[r] \in Stored
      BY <3>1 DEF Presented
    <3>5. QED
      BY <3>1, <3>2, <3>3, <3>4
  <2>2. targets'[r] = {} /\ \A q \in Request \ {r} : targets'[q] = targets[q]
    <3>1. targets' = [targets EXCEPT ![r] = targets[r] \ {t}]
      BY DEF RevokeRow
    <3>2. QED
      BY <2>1, <3>1
  <2>3. UNCHANGED <<row, pc, token>>
    BY DEF RevokeRow
  <2>4. CASE row[t].revoked /\ held' = held
    <3>1. \A q \in Request : targets[q] = {} => targets'[q] = {}
      BY <2>2
    <3>2. ASSUME NEW q \in Request
          PROVE  /\ held'[q] # {} => /\ pc'[q] \in {"issue", "commit", "revoking"}
                                     /\ targets'[q] = {}
                 /\ pc'[q] = "issue" => held'[q] = {token'[q]}
                 /\ \A s \in held'[q] : /\ s \in Stored
                                         /\ token'[q] \in Stored
                                         /\ ~ row'[s].revoked
                                         /\ row'[s].family = FamilyOf(q)
                                         /\ \A p \in Request : s \in held'[p] => p = q
      <4> HIDE DEF TypeOK
      <4> QED
        BY <2>3, <2>4, <3>1 DEF Locks
    <3> HIDE DEF IInv, TypeOK
    <3>3. QED
      BY <2>3, <3>2 DEF Locks
  <2>5. CASE ~ row[t].revoked /\ held' = [held EXCEPT ![r] = {t}]
    <3>1. \A q \in Request \ {r} : t \notin held[q]
      BY DEF RevokeRow, Unlocked, Locked
    <3>2. held'[r] = {t} /\ \A q \in Request \ {r} : held'[q] = held[q]
      BY <2>5
    <3>3. \A q \in Request : \A s \in held'[q] : \A p \in Request : s \in held'[p] => p = q
      <4>1. \A q, p \in Request \ {r} : \A s \in held[q] : s \in held[p] => p = q
        BY DEF Locks
      <4> HIDE DEF IInv, TypeOK
      <4>2. QED
        BY <3>1, <3>2, <4>1
    <3>4. ASSUME NEW q \in Request
          PROVE  /\ held'[q] # {} => /\ pc'[q] \in {"issue", "commit", "revoking"}
                                     /\ targets'[q] = {}
                 /\ pc'[q] = "issue" => held'[q] = {token'[q]}
                 /\ \A s \in held'[q] : /\ s \in Stored
                                         /\ token'[q] \in Stored
                                         /\ ~ row'[s].revoked
                                         /\ row'[s].family = FamilyOf(q)
      <4>1. CASE q = r
        BY <2>1, <2>2, <2>3, <2>5, <3>2, <4>1
      <4>2. CASE q # r
        BY <2>2, <2>3, <3>2, <4>2 DEF Locks
      <4>3. QED
        BY <4>1, <4>2
    <3>5. QED
      BY <2>3, <3>3, <3>4 DEF Locks
  <2>6. QED
    BY <2>1, <2>4, <2>5 DEF RevokeRow
<1>5. Drafts'
  BY DEF Drafts, RevokeRow, Unlocked, Locked
<1>6. Candidates'
  BY DEF Candidates, RevokeRow, Unlocked, Locked
<1>7. Replayed'
  BY DEF Replayed, RevokeRow, Unlocked, Locked
<1>8. Revoking'
  BY DEF Revoking, RevokeRow, Unlocked, LiveTokens
<1>9. SingleUse'
  BY DEF SingleUse, RevokeRow, Unlocked, Locked
<1>10. OneLivePerFamily'
  BY DEF OneLivePerFamily, RevokeRow, Unlocked, LiveTokens
<1>11. QED
  BY <1>1, <1>2, <1>3, <1>4, <1>5, <1>6, <1>7, <1>8, <1>9, <1>10

\* The UPDATE ends when no candidate is left.
LEMMA EndOfUpdateInv ==
  ASSUME IInv, TypeOK', NEW r \in Request, EndOfUpdate(r)
  PROVE  IInv'
<1> USE DEF IInv, TypeOK, Stored, FamilyOf
<1>1. StoredDone'
  BY DEF StoredDone, EndOfUpdate, Goto
<1>2. Lineage'
  BY DEF Lineage, EndOfUpdate, Goto
<1>3. Presented'
  BY DEF Presented, EndOfUpdate, Goto
<1>4. Locks'
  <2>1. UNCHANGED <<row, held, targets, token>> /\ pc[r] = "revoking"
    BY DEF EndOfUpdate
  <2>2. pc'[r] = "commit" /\ \A q \in Request \ {r} : pc'[q] = pc[q]
    BY DEF EndOfUpdate, Goto
  <2> HIDE DEF TypeOK
  <2>3. QED
    BY <2>1, <2>2 DEF Locks
<1>5. Drafts'
  BY DEF Drafts, EndOfUpdate, Goto
<1>6. Candidates'
  BY DEF Candidates, EndOfUpdate, Goto
<1>7. Replayed'
  BY DEF Replayed, EndOfUpdate, Goto
<1>8. Revoking'
  BY DEF Revoking, EndOfUpdate, Goto, LiveTokens
<1>9. SingleUse'
  BY DEF SingleUse, EndOfUpdate, Goto
<1>10. OneLivePerFamily'
  BY DEF OneLivePerFamily, EndOfUpdate, Goto, LiveTokens
<1>11. QED
  BY <1>1, <1>2, <1>3, <1>4, <1>5, <1>6, <1>7, <1>8, <1>9, <1>10

\* A commit revokes the locked row and stores the successor at once.
LEMMA CommitInv ==
  ASSUME IInv, TypeOK', NEW r \in Request, Commit(r)
  PROVE  IInv'
<1> USE DEF IInv
<1>a. /\ r \notin Stored
      /\ Stored' = Stored \cup ({r} \cap DOMAIN draft)
      /\ row' = Committed(r)
      /\ pc' = [pc EXCEPT ![r] = "done"]
      /\ held' = [held EXCEPT ![r] = {}]
      /\ targets' = [targets EXCEPT ![r] = {}]
      /\ DOMAIN draft' = DOMAIN draft \ {r}
      /\ \A q \in DOMAIN draft \ {r} : draft'[q] = draft[q]
      /\ UNCHANGED <<token, answer, skipped>>
  BY DEF Commit, Release, Committed, Stored, StoredDone, Goto
<1>b. \A t \in held[r] : /\ t \in Stored
                         /\ ~ row[t].revoked
                         /\ row'[t] = [row[t] EXCEPT !.revoked = TRUE]
  BY <1>a DEF Committed, Locks
<1>c. \A t \in held[r] : /\ row'[t].revoked
                         /\ row'[t].family = row[t].family
                         /\ row'[t].parent = row[t].parent
  <2> SUFFICES ASSUME NEW t \in held[r]
               PROVE  /\ row'[t].revoked
                      /\ row'[t].family = row[t].family
                      /\ row'[t].parent = row[t].parent
    OBVIOUS
  <2>1. row[t] \in [family : Request, parent : Request, expiresAt : Nat, revoked : BOOLEAN,
                   place : Nat]
    BY <1>b DEF TypeOK, Row
  <2>2. QED
    BY <1>b, <2>1
<1>d. \A t \in Stored \ held[r] : row'[t] = row[t]
  BY <1>a DEF Committed
<1>e. \A t \in Stored : /\ row'[t].family = row[t].family
                        /\ row'[t].parent = row[t].parent
                        /\ row[t].revoked => row'[t].revoked
  BY <1>c, <1>d
<1>f. \A t \in Stored : /\ row[t].family \in Stored
                        /\ row[t].parent \in Stored
  BY DEF Lineage
<1>g. ASSUME r \in DOMAIN draft
      PROVE  /\ answer[r] = "session"
             /\ held[r] = {token[r]}
             /\ token[r] \in Stored
             /\ ~ row[token[r]].revoked
             /\ row'[r] = draft[r]
             /\ row'[r].family = FamilyOf(r)
             /\ row'[r].parent = token[r]
             /\ ~ row'[r].revoked
  <2>1. /\ answer[r] = "session" /\ held[r] = {token[r]}
        /\ draft[r].family = FamilyOf(r) /\ draft[r].parent = token[r]
        /\ ~ draft[r].revoked
    BY <1>g DEF Drafts
  <2>2. token[r] \in Stored /\ ~ row[token[r]].revoked
    BY <2>1 DEF Locks
  <2>3. row'[r] = draft[r]
    BY <1>a, <1>g, <2>1, <2>2 DEF Committed
  <2>4. QED
    BY <2>1, <2>2, <2>3
<1>h. \A q \in Request \ {r} : /\ pc'[q] = pc[q]
                               /\ held'[q] = held[q]
                               /\ targets'[q] = targets[q]
                               /\ held[q] \cap held[r] = {}
                               /\ token[q] # r
  BY <1>a DEF TypeOK, Presented, Locks
<1>i. pc'[r] = "done" /\ held'[r] = {} /\ targets'[r] = {} /\ pc[r] = "commit"
  BY <1>a DEF TypeOK, Commit
<1>j. \A q \in Request : token[q] \in Stored => FamilyOf(q)' = FamilyOf(q)
  BY <1>a, <1>e DEF FamilyOf
<1>k. \A s \in Stored' : s \in Stored \/ (s = r /\ r \in DOMAIN draft)
  BY <1>a
<1>1. StoredDone'
  <2> SUFFICES ASSUME NEW s \in Stored' PROVE pc'[s] = "done" /\ answer'[s] = "session"
    BY DEF StoredDone
  <2>1. CASE s \in Stored
    <3>1. s # r /\ s \in Request /\ pc[s] = "done" /\ answer[s] = "session"
      BY <1>a, <2>1 DEF StoredDone, TypeOK
    <3>2. QED
      BY <1>a, <1>h, <3>1
  <2>2. CASE s = r /\ r \in DOMAIN draft
    BY <1>a, <1>g, <1>i, <2>2
  <2>3. QED
    BY <1>k, <2>1, <2>2
<1>2. Lineage'
  <2> SUFFICES ASSUME NEW t \in Stored'
               PROVE  /\ row'[t].parent \in Stored'
                      /\ row'[t].family \in Stored'
                      /\ row'[row'[t].parent].family = row'[t].family
                      /\ row'[t].parent # t => row'[row'[t].parent].revoked
    BY DEF Lineage
  <2>1. CASE t \in Stored
    BY <1>a, <1>e, <1>f, <2>1 DEF Lineage
  <2>2. CASE t = r /\ r \in DOMAIN draft
    <3>1. token[r] \in Stored /\ row'[token[r]].revoked
      BY <1>c, <1>g, <2>2
    <3>2. row'[token[r]].family = FamilyOf(r) /\ FamilyOf(r) \in Stored
      BY <1>e, <1>f, <3>1 DEF FamilyOf
    <3>3. QED
      BY <1>a, <1>g, <2>2, <3>1, <3>2
  <2>3. QED
    BY <1>k, <2>1, <2>2
<1>3. Presented'
  BY <1>a, <1>h, <1>i DEF Presented
<1>4. Locks'
  <2> SUFFICES ASSUME NEW q \in Request
      PROVE  /\ held'[q] # {} => pc'[q] \in {"issue", "commit", "revoking"}
             /\ held'[q] # {} => targets'[q] = {}
             /\ pc'[q] = "issue" => held'[q] = {token'[q]}
             /\ \A t \in held'[q] :
                  /\ t \in Stored'
                  /\ token'[q] \in Stored'
                  /\ ~ row'[t].revoked
                  /\ row'[t].family = FamilyOf(q)'
                  /\ \A p \in Request : t \in held'[p] => p = q
    BY DEF Locks
  <2>1. CASE q = r
    BY <1>i, <2>1
  <2>2. CASE q # r
    <3>1. \A t \in held[q] : t \in Stored \ held[r] /\ token[q] \in Stored
      BY <1>h, <2>2 DEF Locks
    <3>2. \A t \in held[q] : \A p \in Request : t \in held'[p] => p = q
      BY <1>h, <1>i, <2>2 DEF Locks
    <3>3. QED
      BY <1>a, <1>d, <1>h, <1>j, <2>2, <3>1, <3>2 DEF Locks
  <2>3. QED
    BY <2>1, <2>2
<1>5. Drafts'
  <2> SUFFICES ASSUME NEW q \in DOMAIN draft'
               PROVE  /\ pc'[q] = "commit"
                      /\ answer'[q] = "session"
                      /\ held'[q] = {token'[q]}
                      /\ draft'[q].family = FamilyOf(q)'
                      /\ draft'[q].parent = token'[q]
                      /\ ~ draft'[q].revoked
    BY DEF Drafts
  <2>1. q \in Request \ {r} /\ q \in DOMAIN draft /\ draft'[q] = draft[q]
    BY <1>a DEF TypeOK
  <2>2. held[q] = {token[q]} /\ token[q] \in Stored
    BY <2>1 DEF Drafts, Locks
  <2>3. QED
    BY <1>a, <1>h, <1>j, <2>1, <2>2 DEF Drafts
<1>6. Candidates'
  <2>1. \A q \in Request \ {r} : targets[q] # {} => token[q] \in Stored
    BY DEF Candidates, Presented
  <2>2. QED
    BY <1>a, <1>e, <1>h, <1>i, <1>j, <2>1 DEF Candidates
<1>7. Replayed'
  <2> SUFFICES ASSUME NEW q \in Request, answer[q] = "reused"
               PROVE  /\ token[q] \in Stored'
                      /\ row'[token[q]].revoked
                      /\ \A s \in Stored' :
                           (row'[s].parent = token[q] /\ s # token[q] /\ ~ row'[s].revoked)
                              => \/ pc'[q] = "revoke"
                                 \/ pc'[q] = "revoking" /\ s \in targets'[q] \cup held'[q]
                                 \/ pc'[q] = "commit" /\ s \in held'[q]
    BY <1>a DEF Replayed
  <2>1. token[q] \in Stored /\ row[token[q]].revoked
    BY DEF Replayed
  <2>2. ASSUME NEW s \in Stored', row'[s].parent = token[q], s # token[q],
               ~ row'[s].revoked
        PROVE  \/ pc'[q] = "revoke"
               \/ pc'[q] = "revoking" /\ s \in targets'[q] \cup held'[q]
               \/ pc'[q] = "commit" /\ s \in held'[q]
    <3>1. s \in Stored
      BY <1>g, <1>k, <2>1, <2>2
    <3>2. row[s].parent = token[q] /\ ~ row[s].revoked /\ s \notin held[r]
      BY <1>c, <1>e, <2>2, <3>1
    <3>3. CASE q = r
      BY <1>i, <2>2, <3>1, <3>2, <3>3 DEF Replayed
    <3>4. CASE q # r
      BY <1>h, <2>2, <3>1, <3>2, <3>4 DEF Replayed
    <3>5. QED
      BY <3>3, <3>4
  <2>3. QED
    BY <1>a, <1>e, <2>1, <2>2
<1>8. Revoking'
  <2> SUFFICES ASSUME NEW q \in Request, answer[q] \in {"reused", "loggedOut"},
                      token[q] \in Stored', ~ skipped[q]
               PROVE  \/ pc'[q] = "revoke"
                      \/ /\ pc'[q] = "revoking"
                         /\ \/ LiveTokens(FamilyOf(q))' \subseteq targets'[q] \cup held'[q]
                            \/ \E t \in targets'[q] : row'[t].revoked
                      \/ pc'[q] = "commit" /\ LiveTokens(FamilyOf(q))' \subseteq held'[q]
                      \/ pc'[q] = "done" /\ LiveTokens(FamilyOf(q))' = {}
    BY <1>a DEF Revoking
  <2>1. token[q] \in Stored /\ FamilyOf(q)' = FamilyOf(q)
    BY <1>g, <1>h, <1>j, <1>k DEF Presented
  <2>2. \A t \in Stored : t \in LiveTokens(FamilyOf(q))'
                             => t \in LiveTokens(FamilyOf(q)) \ held[r]
    BY <1>c, <1>e, <2>1 DEF LiveTokens
  <2>3. LiveTokens(FamilyOf(q))' \subseteq Stored'
    BY DEF LiveTokens
  <2>4. CASE q = r
    <3>1. r \notin DOMAIN draft
      BY <1>g, <2>4
    <3>2. LiveTokens(FamilyOf(r)) \subseteq held[r]
      BY <1>i, <2>1, <2>4 DEF Revoking
    <3>3. LiveTokens(FamilyOf(q))' = {}
      BY <1>k, <2>2, <2>3, <2>4, <3>1, <3>2
    <3>4. QED
      BY <1>i, <2>4, <3>3
  <2>5. CASE q # r /\ r \in LiveTokens(FamilyOf(q))'
    <3>1. r \in DOMAIN draft /\ FamilyOf(r) = FamilyOf(q)
      BY <1>a, <1>g, <2>1, <2>3, <2>5 DEF LiveTokens
    <3>2. token[r] \in LiveTokens(FamilyOf(q)) /\ token[r] \notin held[q]
      BY <1>g, <1>h, <2>5, <3>1 DEF LiveTokens, FamilyOf
    <3>3. row'[token[r]].revoked
      BY <1>c, <1>g, <3>1
    <3>4. QED
      BY <1>e, <1>h, <2>1, <2>5, <3>2, <3>3 DEF Revoking, Candidates
  <2>6. CASE q # r /\ r \notin LiveTokens(FamilyOf(q))'
    <3>1. LiveTokens(FamilyOf(q))' \subseteq LiveTokens(FamilyOf(q))
      BY <1>k, <2>2, <2>3, <2>6
    <3>2. QED
      BY <1>e, <1>h, <2>1, <2>6, <3>1 DEF Revoking, Candidates
  <2>7. QED
    BY <2>4, <2>5, <2>6
<1>9. SingleUse'
  <2>1. ASSUME NEW t \in Stored, r \in DOMAIN draft, row'[t].parent = token[r]
        PROVE  t = token[r]
    BY <1>e, <1>g, <2>1 DEF Lineage
  <2>2. QED
    BY <1>e, <1>g, <1>k, <2>1 DEF SingleUse
<1>10. OneLivePerFamily'
  <2> SUFFICES ASSUME NEW f \in Request, NEW s \in LiveTokens(f)', NEW t \in LiveTokens(f)'
               PROVE  s = t
    BY DEF OneLivePerFamily
  <2>1. \A u \in Stored : u \in LiveTokens(f)' => u \in LiveTokens(f) \ held[r]
    BY <1>c, <1>e DEF LiveTokens
  <2>2. s \in Stored' /\ t \in Stored'
    BY DEF LiveTokens
  <2>3. r \in DOMAIN draft /\ r \in LiveTokens(f)' => token[r] \in LiveTokens(f)
    BY <1>g DEF LiveTokens, FamilyOf
  <2>4. QED
    BY <1>g, <1>k, <2>1, <2>2, <2>3 DEF OneLivePerFamily
<1>11. QED
  BY <1>1, <1>2, <1>3, <1>4, <1>5, <1>6, <1>7, <1>8, <1>9, <1>10

\* A rollback leaves the committed rows as they were.
LEMMA AbortInv ==
  ASSUME IInv, TypeOK', NEW r \in Request, Abort(r)
  PROVE  IInv'
<1> USE DEF IInv, TypeOK, Stored, FamilyOf
<1>1. StoredDone'
  BY DEF StoredDone, Abort, Release, Finish
<1>2. Lineage'
  BY DEF Lineage, Abort, Release, Finish
<1>3. Presented'
  BY DEF Presented, Abort, Release, Finish
<1>4. Locks'
  BY DEF Locks, Abort, Release, Finish
<1>5. Drafts'
  BY DEF Drafts, Abort, Release, Finish
<1>6. Candidates'
  BY DEF Candidates, Abort, Release, Finish
<1>7. Replayed'
  BY DEF Replayed, Abort, Release, Finish
<1>8. Revoking'
  BY DEF Revoking, Abort, Release, Finish, LiveTokens
<1>9. SingleUse'
  BY DEF SingleUse, Abort, Release, Finish
<1>10. OneLivePerFamily'
  BY DEF OneLivePerFamily, Abort, Release, Finish, LiveTokens
<1>11. QED
  BY <1>1, <1>2, <1>3, <1>4, <1>5, <1>6, <1>7, <1>8, <1>9, <1>10

\* The clock, the account's flag and stuttering leave the tokens alone.
LEMMA IdleInv ==
  ASSUME IInv, TypeOK',
         UNCHANGED <<row, draft, held, kept, pc, token, targets, skipped, answer>>
  PROVE  IInv'
<1>1. StoredDone' /\ Lineage' /\ Presented'
  BY DEF IInv, StoredDone, Lineage, Presented, Stored
<1>2. Locks' /\ Drafts' /\ Candidates'
  BY DEF IInv, Locks, Drafts, Candidates, Stored, FamilyOf
<1>3. Replayed'
  BY DEF IInv, Replayed, Stored
<1>4. Revoking'
  BY DEF IInv, Revoking, Stored, FamilyOf, LiveTokens
<1>5. SingleUse' /\ OneLivePerFamily'
  BY DEF IInv, SingleUse, OneLivePerFamily, Stored, LiveTokens
<1>6. QED
  BY <1>1, <1>2, <1>3, <1>4, <1>5 DEF IInv

\* Every step of the handlers, the database and the environment keeps IInv.
LEMMA InvStep == IInv /\ [Next]_vars => IInv'
<1> SUFFICES ASSUME IInv, [Next]_vars PROVE IInv'
  OBVIOUS
<1>1. TypeOK'
  BY TypeStep DEF IInv
<1>2. ASSUME NEW r \in Request, Login(r) PROVE IInv'
  BY <1>1, <1>2, LoginInv
<1>3. ASSUME NEW r \in Request, Arrive(r) PROVE IInv'
  BY <1>1, <1>3, StartRefreshInv, FindFamilyInv DEF Arrive
<1>4. ASSUME NEW r \in Request, Proceed(r) PROVE IInv'
  BY <1>1, <1>4, StoreLoginInv, ReadTokenInv, ClaimInv, ClaimRowInv, IssueInv, SnapshotInv,
     RevokeRowInv, EndOfUpdateInv, CommitInv DEF Proceed
<1>5. ASSUME NEW r \in Request, Abort(r) PROVE IInv'
  BY <1>1, <1>5, AbortInv
<1>6. CASE Tick \/ SetActive \/ UNCHANGED vars
  BY <1>1, <1>6, IdleInv DEF Tick, SetActive, vars
<1>7. QED
  BY <1>2, <1>3, <1>4, <1>5, <1>6 DEF Next

-----------------------------------------------------------------------------
(* The order of the tokens, and of the waits *)

\* A token that works is the newest of its family, and a drafted one is newer.
Places ==
  /\ \A s, t \in Stored :
       (row[s].family = row[t].family /\ ~ row[t].revoked /\ s # t) => row[s].place < row[t].place
  /\ \A r \in DOMAIN draft : draft[r].place = row[token[r]].place + 1

\* A row that is locked without being written was found revoked.  While its
\* transaction may wait it is the token that was presented, and older than the
\* candidate.
Keeps ==
  \A r \in Request :
    /\ kept[r] # {} => pc[r] \in {"revoke", "revoking", "commit"}
    /\ (targets[r] # {} \/ pc[r] = "revoke") => kept[r] \subseteq {token[r]}
    /\ \A t \in kept[r] : /\ t \in Stored /\ token[r] \in Stored
                          /\ row[t].revoked /\ row[t].family = FamilyOf(r)
                          /\ \A u \in targets[r] : row[t].place < row[u].place

\* The candidate of a claim had not expired when the request came in.
Unexpired ==
  \A r \in Request : pc[r] = "claiming" => row[token[r]].expiresAt > started[r]

Ordered == Places /\ Keeps /\ Unexpired

\* No request has arrived.
LEMMA OrderInit == Init => Ordered
BY DEF Init, Ordered, Places, Keeps, Unexpired, Stored

\* Only a login and a commit write the committed table.
LEMMA WhoWrites ==
  ASSUME [Next]_vars
  PROVE  \/ row' = row
         \/ \E r \in Request : StoreLogin(r) \/ Commit(r)
<1>1. ASSUME NEW r \in Request, Login(r) \/ Arrive(r) \/ Abort(r) PROVE row' = row
  BY <1>1 DEF Login, Arrive, StartRefresh, FindFamily, Abort
<1>2. ASSUME NEW r \in Request, Proceed(r), ~ StoreLogin(r), ~ Commit(r) PROVE row' = row
  BY <1>2 DEF Proceed, ReadToken, Claim, ClaimRow, Issue, SnapshotFamily, RevokeRow, EndOfUpdate
<1>3. CASE Tick \/ SetActive \/ UNCHANGED vars
  BY <1>3 DEF Tick, SetActive, vars
<1>4. QED
  BY <1>1, <1>2, <1>3 DEF Next

\* A stored row stays, and all that may change is that it becomes revoked.
LEMMA RowsStay ==
  ASSUME IInv, [Next]_vars
  PROVE  /\ Stored \subseteq Stored'
         /\ \A t \in Stored : /\ row'[t].family = row[t].family
                              /\ row'[t].place = row[t].place
                              /\ row'[t].expiresAt = row[t].expiresAt
                              /\ row[t].revoked => row'[t].revoked
<1>1. CASE row' = row
  BY <1>1 DEF Stored
<1>2. ASSUME NEW r \in Request, StoreLogin(r)
      PROVE  Stored \subseteq Stored' /\ \A t \in Stored : row'[t] = row[t]
  BY <1>2 DEF StoreLogin, Stored, IInv, StoredDone
<1>3. ASSUME NEW r \in Request, Commit(r)
      PROVE  /\ Stored \subseteq Stored'
             /\ \A t \in Stored : row'[t] \in {row[t], [row[t] EXCEPT !.revoked = TRUE]}
  BY <1>3 DEF Commit, Committed, Stored
<1>4. \A t \in Stored : row[t] \in [family : Request, parent : Request, expiresAt : Nat,
                                  revoked : BOOLEAN, place : Nat]
  BY DEF IInv, TypeOK, Row
<1>5. QED
  BY <1>1, <1>2, <1>3, <1>4, WhoWrites

\* A claim waits for a token that had not expired when the request came in.
LEMMA UnexpiredStep == IInv /\ Unexpired /\ [Next]_vars => Unexpired'
<1> SUFFICES ASSUME IInv, Unexpired, [Next]_vars PROVE Unexpired'
  OBVIOUS
<1>1. ASSUME NEW q \in Request, pc'[q] = "claiming"
      PROVE  \/ pc[q] = "claiming" /\ token'[q] = token[q] /\ started'[q] = started[q]
             \/ Claimable(q) /\ pc[q] = "claim" /\ token'[q] = token[q] /\ started'[q] = started[q]
  <2> USE DEF IInv, TypeOK
  <2>1. ASSUME NEW r \in Request, Claim(r)
        PROVE  \/ q # r /\ pc'[q] = pc[q]
               \/ q = r /\ Claimable(q) /\ pc[q] = "claim"
    BY <1>1, <2>1 DEF Claim, ClaimLost, Goto
  <2>2. ASSUME NEW r \in Request, ClaimRow(r) PROVE q # r /\ pc'[q] = pc[q]
    BY <1>1, <2>2 DEF ClaimRow, ClaimWon, ClaimLost, Goto
  <2>3. ASSUME NEW r \in Request, Login(r) \/ StoreLogin(r) \/ ReadToken(r) \/ Issue(r)
                                   \/ SnapshotFamily(r) \/ EndOfUpdate(r) \/ Commit(r) \/ Abort(r)
        PROVE  q # r /\ pc'[q] = pc[q]
    BY <1>1, <2>3 DEF Login, StoreLogin, ReadToken, Issue, SnapshotFamily, EndOfUpdate, Commit,
       Abort, Goto, Finish
  <2>4. ASSUME NEW r \in Request, Arrive(r)
        PROVE  q # r /\ pc'[q] = pc[q] /\ token'[q] = token[q] /\ started'[q] = started[q]
    BY <1>1, <2>4 DEF Arrive, StartRefresh, FindFamily, Goto, Finish
  <2>5. ASSUME NEW r \in Request, NEW t \in Request, RevokeRow(r, t) PROVE pc' = pc
    BY <2>5 DEF RevokeRow
  <2>6. CASE Tick \/ SetActive \/ UNCHANGED vars
    BY <1>1, <2>6 DEF Tick, SetActive, vars
  <2>7. ASSUME NEW r \in Request, Login(r) \/ Proceed(r) \/ Abort(r)
        PROVE  token' = token /\ started' = started
    BY <2>7 DEF Login, Proceed, StoreLogin, ReadToken, Claim, ClaimRow, Issue, SnapshotFamily,
       RevokeRow, EndOfUpdate, Commit, Abort
  <2>8. QED
    BY <1>1, <2>1, <2>2, <2>3, <2>4, <2>5, <2>6, <2>7 DEF Next, Proceed
<1>2. ASSUME NEW q \in Request, pc[q] \in {"claim", "claiming"}
      PROVE  token[q] \in Stored /\ row'[token[q]].expiresAt = row[token[q]].expiresAt
  BY <1>2, RowsStay DEF IInv, Presented
<1>3. QED
  BY <1>1, <1>2 DEF Unexpired, Claimable

\* A step that leaves the rows alone keeps their order.
LEMMA SamePlaces ==
  ASSUME Places, row' = row, draft' = draft, token' = token
  PROVE  Places'
BY DEF Places, Stored

\* A step that only touches what r has locked or looks for.
LEMMA SameKeeps ==
  ASSUME IInv, Keeps, row' = row, NEW r \in Request,
         \A q \in Request \ {r} : /\ kept'[q] = kept[q] /\ targets'[q] = targets[q]
                                  /\ pc'[q] = pc[q] /\ token'[q] = token[q],
         /\ kept'[r] # {} => pc'[r] \in {"revoke", "revoking", "commit"}
         /\ (targets'[r] # {} \/ pc'[r] = "revoke") => kept'[r] \subseteq {token'[r]}
         /\ \A t \in kept'[r] : /\ t \in Stored /\ token'[r] \in Stored
                                /\ row[t].revoked /\ row[t].family = row[token'[r]].family
                                /\ \A u \in targets'[r] : row[t].place < row[u].place
  PROVE  Keeps'
BY DEF Keeps, Stored, FamilyOf

\* Rows are stored, or revoked, and never move.
LEMMA MoreRows ==
  ASSUME IInv, Keeps, NEW r \in Request, kept'[r] = {},
         Stored \subseteq Stored',
         \A t \in Stored : /\ row'[t].family = row[t].family /\ row'[t].place = row[t].place
                           /\ row[t].revoked => row'[t].revoked,
         \A q \in Request \ {r} : /\ kept'[q] = kept[q] /\ targets'[q] = targets[q]
                                  /\ pc'[q] = pc[q] /\ token'[q] = token[q]
  PROVE  Keeps'
<1>1. \A q \in Request : \A u \in targets[q] : u \in Stored
  BY DEF IInv, Candidates
<1>2. ASSUME NEW q \in Request \ {r}
      PROVE  /\ kept'[q] # {} => pc'[q] \in {"revoke", "revoking", "commit"}
             /\ (targets'[q] # {} \/ pc'[q] = "revoke") => kept'[q] \subseteq {token'[q]}
             /\ \A t \in kept'[q] : /\ t \in Stored' /\ token'[q] \in Stored'
                                    /\ row'[t].revoked /\ row'[t].family = FamilyOf(q)'
                                    /\ \A u \in targets'[q] : row'[t].place < row'[u].place
  <2>1. ASSUME NEW t \in kept[q]
        PROVE  /\ t \in Stored' /\ token[q] \in Stored'
               /\ row'[t].revoked /\ row'[t].family = row'[token[q]].family
    BY <2>1 DEF Keeps, FamilyOf
  <2>2. ASSUME NEW t \in kept[q], NEW u \in targets[q] PROVE row'[t].place < row'[u].place
    <3>1. t \in Stored /\ u \in Stored /\ row[t].place < row[u].place
      BY <1>1 DEF Keeps
    <3>2. QED
      BY <3>1
  <2>3. QED
    BY <2>1, <2>2 DEF Keeps, FamilyOf
<1>3. QED
  BY <1>2 DEF Keeps

\* Every step keeps the order.
LEMMA OrderStep == IInv /\ Ordered /\ [Next]_vars => Ordered'
<1> SUFFICES ASSUME IInv, Ordered, [Next]_vars PROVE Places' /\ Keeps'
  BY UnexpiredStep DEF Ordered
<1>0. \A r \in Request : /\ targets[r] # {} => pc[r] \in {"claiming", "revoking"}
                         /\ kept[r] # {} => pc[r] \in {"revoke", "revoking", "commit"}
  BY DEF IInv, Candidates, Ordered, Keeps
<1>1. ASSUME NEW r \in Request, Login(r) PROVE Places' /\ Keeps'
  <2>1. /\ kept[r] = {} /\ targets[r] = {}
        /\ UNCHANGED <<row, draft, token, kept, targets>>
        /\ \A q \in Request \ {r} : pc'[q] = pc[q]
        /\ pc'[r] # "revoke"
    BY <1>0, <1>1 DEF Login, Goto, Finish, IInv, TypeOK
  <2>2. Places'
    BY <2>1, SamePlaces DEF Ordered
  <2>3. Keeps'
    BY <2>1, SameKeeps DEF Ordered
  <2>4. QED
    BY <2>2, <2>3
<1>2. ASSUME NEW r \in Request, Arrive(r) PROVE Places' /\ Keeps'
  <2> PICK t \in Stored \cup {r} : StartRefresh(r, t) \/ FindFamily(r, t)
    BY <1>2 DEF Arrive
  <2>1. /\ kept[r] = {} /\ targets[r] = {} /\ r \notin DOMAIN draft
        /\ UNCHANGED <<row, draft, kept, targets>>
        /\ \A q \in Request \ {r} : pc'[q] = pc[q] /\ token'[q] = token[q]
    BY <1>0 DEF StartRefresh, FindFamily, Goto, Finish, IInv, TypeOK, Drafts
  <2>2. Places'
    <3>1. \A q \in DOMAIN draft : q \in Request \ {r}
      BY <2>1 DEF IInv, TypeOK
    <3>2. QED
      BY <2>1, <3>1 DEF Ordered, Places, Stored
  <2>3. Keeps'
    BY <2>1, SameKeeps DEF Ordered
  <2>4. QED
    BY <2>2, <2>3
<1>3. ASSUME NEW r \in Request, StoreLogin(r) PROVE Places' /\ Keeps'
  <2>1. /\ r \notin Stored /\ Stored' = Stored \cup {r} /\ row'[r] = NewRow(r, r, 0)
        /\ \A t \in Stored : row'[t] = row[t]
        /\ \A q \in Request \ {r} : pc'[q] = pc[q]
        /\ UNCHANGED <<draft, token, kept, targets>>
        /\ kept[r] = {}
    BY <1>0, <1>3 DEF StoreLogin, Stored, Finish, IInv, StoredDone, TypeOK
  <2>2. row'[r].family = r /\ \A t \in Stored : row[t].family # r
    BY <2>1 DEF NewRow, IInv, Lineage
  <2>3. Places'
    <3>1. \A q \in DOMAIN draft : token[q] \in Stored
      BY DEF IInv, Drafts, Locks, TypeOK
    <3>2. QED
      BY <2>1, <2>2, <3>1 DEF Ordered, Places
  <2>4. Keeps'
    BY <2>1, MoreRows DEF Ordered
  <2>5. QED
    BY <2>3, <2>4
<1>4. ASSUME NEW r \in Request, ReadToken(r) PROVE Places' /\ Keeps'
  <2>1. /\ kept[r] = {} /\ targets[r] = {}
        /\ UNCHANGED <<row, draft, token, kept, targets>>
        /\ \A q \in Request \ {r} : pc'[q] = pc[q]
        /\ pc'[r] # "revoke"
    BY <1>0, <1>4 DEF ReadToken, Goto, Finish, IInv, TypeOK
  <2>2. Places'
    BY <2>1, SamePlaces DEF Ordered
  <2>3. Keeps'
    BY <2>1, SameKeeps DEF Ordered
  <2>4. QED
    BY <2>2, <2>3
<1>5. ASSUME NEW r \in Request, Claim(r) PROVE Places' /\ Keeps'
  <2>1. /\ kept[r] = {}
        /\ UNCHANGED <<row, draft, token, kept>>
        /\ \A q \in Request \ {r} : pc'[q] = pc[q] /\ targets'[q] = targets[q]
    BY <1>0, <1>5, LostAnswer DEF Claim, Goto, IInv, TypeOK
  <2>2. Places'
    BY <2>1, SamePlaces DEF Ordered
  <2>3. Keeps'
    BY <2>1, SameKeeps DEF Ordered
  <2>4. QED
    BY <2>2, <2>3
<1>6. ASSUME NEW r \in Request, ClaimRow(r) PROVE Places' /\ Keeps'
  <2>1. /\ kept[r] = {} /\ token[r] \in Stored
        /\ UNCHANGED <<row, draft, token>>
        /\ targets'[r] = {}
        /\ \A q \in Request \ {r} : targets'[q] = targets[q]
    BY <1>0, <1>6 DEF ClaimRow, IInv, TypeOK, Presented
  <2>2. /\ \A q \in Request \ {r} : pc'[q] = pc[q] /\ kept'[q] = kept[q]
        /\ \/ kept'[r] = {}
           \/ /\ kept'[r] = {token[r]} /\ row[token[r]].revoked
              /\ pc'[r] \in {"revoke", "commit"}
    <3>1. CASE ClaimWon(r) /\ UNCHANGED kept
      BY <2>1, <3>1 DEF ClaimWon, Goto, IInv, TypeOK
    <3>2. CASE ~ Claimable(r) /\ ClaimLost(r) /\ kept' = [kept EXCEPT ![r] = {token[r]}]
      <4>1. \A q \in Request \ {r} : pc'[q] = pc[q] /\ kept'[q] = kept[q]
        BY <3>2, LostAnswer DEF IInv, TypeOK
      <4>2. kept'[r] = {token[r]} /\ pc'[r] \in {"revoke", "commit"}
        BY <3>2, LostAnswer DEF IInv, TypeOK
      <4>3. row[token[r]].revoked
        BY <1>6, <3>2 DEF ClaimRow, Ordered, Unexpired, Claimable
      <4>4. QED
        BY <4>1, <4>2, <4>3
    <3>3. QED
      BY <1>6, <3>1, <3>2 DEF ClaimRow
  <2>3. Places'
    BY <2>1, SamePlaces DEF Ordered
  <2>4. Keeps'
    BY <2>1, <2>2, SameKeeps DEF Ordered
  <2>5. QED
    BY <2>3, <2>4
<1>7. ASSUME NEW r \in Request, Issue(r) PROVE Places' /\ Keeps'
  <2>1. /\ kept[r] = {}
        /\ UNCHANGED <<row, token, kept, targets>>
        /\ \A q \in Request \ {r} : pc'[q] = pc[q]
        /\ DOMAIN draft' = DOMAIN draft \cup {r}
        /\ draft'[r] = Successor(r)
        /\ \A q \in DOMAIN draft \ {r} : draft'[q] = draft[q]
    BY <1>0, <1>7 DEF Issue, Goto, IInv, TypeOK
  <2>2. Places'
    <3>1. draft'[r].place = row[token[r]].place + 1
      BY <2>1 DEF Successor, NewRow
    <3>2. QED
      BY <2>1, <3>1 DEF Ordered, Places, Stored
  <2>3. Keeps'
    BY <2>1, SameKeeps DEF Ordered
  <2>4. QED
    BY <2>2, <2>3
<1>8. ASSUME NEW r \in Request, SnapshotFamily(r) PROVE Places' /\ Keeps'
  <2>1. /\ UNCHANGED <<row, draft, token, kept>>
        /\ pc[r] = "revoke" /\ pc'[r] = "revoking"
        /\ targets'[r] = LiveTokens(FamilyOf(r))
        /\ \A q \in Request \ {r} : pc'[q] = pc[q] /\ targets'[q] = targets[q]
    BY <1>8 DEF SnapshotFamily, Goto, IInv, TypeOK
  <2>2. Places'
    BY <2>1, SamePlaces DEF Ordered
  <2>3. ASSUME NEW t \in kept[r], NEW u \in LiveTokens(FamilyOf(r))
        PROVE  row[t].place < row[u].place
    <3>1. t \in Stored /\ row[t].revoked /\ row[t].family = FamilyOf(r)
      BY DEF Ordered, Keeps
    <3>2. u \in Stored /\ ~ row[u].revoked /\ row[u].family = FamilyOf(r)
      BY DEF LiveTokens
    <3>3. QED
      BY <3>1, <3>2 DEF Ordered, Places
  <2>4. /\ kept[r] \subseteq {token[r]}
        /\ \A t \in kept[r] : /\ t \in Stored /\ token[r] \in Stored
                              /\ row[t].revoked /\ row[t].family = row[token[r]].family
    BY <2>1 DEF Ordered, Keeps, FamilyOf
  <2>5. Keeps'
    <3> HIDE DEF LiveTokens
    <3> QED
      BY <2>1, <2>3, <2>4, SameKeeps DEF Ordered
  <2>6. QED
    BY <2>2, <2>5
<1>9. ASSUME NEW r \in Request, NEW t \in Request, RevokeRow(r, t) PROVE Places' /\ Keeps'
  <2>1. /\ UNCHANGED <<row, draft, token, pc>>
        /\ pc[r] = "revoking" /\ t \in targets[r]
        /\ targets'[r] = targets[r] \ {t}
        /\ \A q \in Request \ {r} : kept'[q] = kept[q] /\ targets'[q] = targets[q]
        /\ \/ kept'[r] = kept[r]
           \/ row[t].revoked /\ kept'[r] = kept[r] \cup {t}
    BY <1>9 DEF RevokeRow, IInv, TypeOK
  <2>2. t \in Stored /\ token[r] \in Stored /\ row[t].family = FamilyOf(r) /\ targets'[r] = {}
    BY <2>1 DEF IInv, Candidates, Presented
  <2>3. Places'
    BY <2>1, SamePlaces DEF Ordered
  <2>4. \A s \in kept'[r] : /\ s \in Stored /\ row[s].revoked
                            /\ row[s].family = row[token[r]].family
    BY <2>1, <2>2 DEF Ordered, Keeps, FamilyOf
  <2>5. Keeps'
    BY <2>1, <2>2, <2>4, SameKeeps DEF Ordered
  <2>6. QED
    BY <2>3, <2>5
<1>10. ASSUME NEW r \in Request, EndOfUpdate(r) PROVE Places' /\ Keeps'
  <2>1. /\ UNCHANGED <<row, draft, token, kept, targets>>
        /\ targets[r] = {} /\ pc'[r] = "commit"
        /\ \A q \in Request \ {r} : pc'[q] = pc[q]
    BY <1>10 DEF EndOfUpdate, Goto, IInv, TypeOK
  <2>2. Places'
    BY <2>1, SamePlaces DEF Ordered
  <2>3. \A t \in kept[r] : /\ t \in Stored /\ token[r] \in Stored
                           /\ row[t].revoked /\ row[t].family = row[token[r]].family
    BY DEF Ordered, Keeps, FamilyOf
  <2>4. Keeps'
    BY <2>1, <2>3, SameKeeps DEF Ordered
  <2>5. QED
    BY <2>2, <2>4
<1>11. ASSUME NEW r \in Request, Commit(r) PROVE Places' /\ Keeps'
  <2>1. /\ r \notin Stored
        /\ pc[r] = "commit"
        /\ Stored' = Stored \cup ({r} \cap DOMAIN draft)
        /\ row' = Committed(r)
        /\ kept'[r] = {} /\ token' = token
        /\ \A q \in Request \ {r} : /\ kept'[q] = kept[q] /\ targets'[q] = targets[q]
                                  /\ pc'[q] = pc[q]
        /\ draft' = [q \in DOMAIN draft \ {r} |-> draft[q]]
    BY <1>11 DEF Commit, Release, Committed, Stored, Goto, IInv, TypeOK, StoredDone
  <2>2. \A t \in Stored : /\ row'[t].family = row[t].family /\ row'[t].place = row[t].place
                          /\ row[t].revoked => row'[t].revoked
    BY RowsStay
  <2>3. Keeps'
    BY <2>1, <2>2, MoreRows DEF Ordered
  <2>4. \A q \in DOMAIN draft : token[q] \in Stored
    BY DEF IInv, Drafts, Locks, TypeOK
  <2>5. \A q \in DOMAIN draft' : draft'[q].place = row'[token[q]].place + 1
    BY <2>1, <2>2, <2>4 DEF Ordered, Places
  <2>6. ASSUME NEW s \in Stored', NEW t \in Stored', s # t,
               row'[s].family = row'[t].family, ~ row'[t].revoked
        PROVE  row'[s].place < row'[t].place
    <3>1. CASE s \in Stored /\ t \in Stored
      BY <2>2, <2>6, <3>1 DEF Ordered, Places
    <3>2. ASSUME r \in DOMAIN draft
          PROVE  /\ row'[r] = draft[r] /\ draft[r].family = FamilyOf(r)
                 /\ draft[r].place = row[token[r]].place + 1
                 /\ token[r] \in Stored /\ ~ row[token[r]].revoked
                 /\ row'[token[r]].revoked
      <4>1. /\ held[r] = {token[r]} /\ draft[r].family = FamilyOf(r)
            /\ draft[r].place = row[token[r]].place + 1
        BY <3>2 DEF IInv, Drafts, Ordered, Places
      <4>2. token[r] \in Stored /\ ~ row[token[r]].revoked
        BY <4>1 DEF IInv, Locks
      <4>3. row'[r] = draft[r]
        BY <2>1, <3>2, <4>1, <4>2 DEF Committed
      <4>4. row'[token[r]] = [row[token[r]] EXCEPT !.revoked = TRUE]
        BY <2>1, <4>1, <4>2 DEF Committed
      <4>5. row[token[r]] \in [family : Request, parent : Request, expiresAt : Nat,
                               revoked : BOOLEAN, place : Nat]
        BY <4>2 DEF IInv, TypeOK, Row
      <4>6. QED
        BY <4>1, <4>2, <4>3, <4>4, <4>5
    <3>3. CASE s = r /\ r \in DOMAIN draft
      <4>1. t \in Stored /\ row[t].family = FamilyOf(r) /\ ~ row[t].revoked
        BY <2>1, <2>2, <2>6, <3>2, <3>3
      <4>2. FamilyOf(r) \in Request
        BY <3>2, <3>3 DEF FamilyOf, IInv, TypeOK, Lineage
      <4>3. t = token[r]
        BY <3>2, <3>3, <4>1, <4>2 DEF IInv, OneLivePerFamily, LiveTokens, FamilyOf
      <4>4. QED
        BY <2>6, <3>2, <3>3, <4>3
    <3>4. CASE t = r /\ r \in DOMAIN draft
      <4>1. /\ s \in Stored /\ row[s].family = row[token[r]].family
            /\ row'[s].place = row[s].place
        BY <2>1, <2>2, <2>6, <3>2, <3>4 DEF FamilyOf
      <4>2. s = token[r] \/ row[s].place < row[token[r]].place
        BY <3>2, <3>4, <4>1 DEF Ordered, Places
      <4>3. row[s].place \in Nat /\ row[token[r]].place \in Nat
        <5>1. row[s] \in Row /\ row[token[r]] \in Row
          BY <3>2, <3>4, <4>1 DEF IInv, TypeOK
        <5>2. QED
          BY <5>1 DEF Row
      <4>4. QED
        BY <3>2, <3>4, <4>1, <4>2, <4>3
    <3>5. QED
      BY <2>1, <3>1, <3>3, <3>4
  <2>7. Places'
    BY <2>1, <2>5, <2>6 DEF Places
  <2>8. QED
    BY <2>3, <2>7
<1>12. ASSUME NEW r \in Request, Abort(r) PROVE Places' /\ Keeps'
  <2>1. /\ UNCHANGED <<row, token>>
        /\ draft' = [q \in DOMAIN draft \ {r} |-> draft[q]]
        /\ kept'[r] = {}
        /\ \A q \in Request \ {r} : /\ kept'[q] = kept[q] /\ targets'[q] = targets[q]
                                  /\ pc'[q] = pc[q]
    BY <1>12 DEF Abort, Release, Finish, IInv, TypeOK
  <2>2. Places'
    BY <2>1 DEF Ordered, Places, Stored
  <2>3. Keeps'
    BY <2>1, MoreRows DEF Ordered, Stored
  <2>4. QED
    BY <2>2, <2>3
<1>13. CASE Tick \/ SetActive \/ UNCHANGED vars
  <2>1. UNCHANGED <<row, draft, token, kept, targets, pc>>
    BY <1>13 DEF Tick, SetActive, vars
  <2>2. QED
    BY <2>1 DEF Ordered, Places, Keeps, Stored, FamilyOf
<1>14. QED
  BY <1>1, <1>2, <1>3, <1>4, <1>5, <1>6, <1>7, <1>8, <1>9, <1>10, <1>11, <1>12, <1>13
     DEF Next, Proceed

\* Whoever waits while it has locked a row waits for a newer token.
LEMMA NewerTokens == IInv /\ Ordered => WaitsForNewer
<1> SUFFICES ASSUME IInv, Ordered, NEW r \in Request, NEW t \in Locked(r), NEW u \in targets[r]
             PROVE  row[t].family = row[u].family /\ row[t].place < row[u].place
  BY DEF WaitsForNewer
<1>1. t \in kept[r]
  BY DEF Locked, IInv, Locks
<1>2. QED
  BY <1>1 DEF Ordered, Keeps, IInv, Candidates

\* A nonempty set of numbers has a least element.
LEMMA LeastNumber ==
  ASSUME NEW S \in SUBSET Nat, S # {}
  PROVE  \E m \in S : \A x \in S : m <= x
<1> DEFINE Less == {p \in Nat \X Nat : p[1] < p[2]}
<1>1. IsWellFoundedOn(Less, Nat)
  <2>1. OpToRel(<, Nat) = Less
    BY Zenon DEF OpToRel
  <2> QED
    BY <2>1, NatLessThanWellFounded, Zenon
<1>2. PICK m \in S : \A x \in S : ~ (<<x, m>> \in Less)
  <2> HIDE DEF Less
  <2> QED
    BY <1>1, WFMin
<1>3. ASSUME NEW x \in S, x < m PROVE FALSE
  <2>1. <<x, m>> \in Less
    BY <1>3
  <2> QED
    BY <1>2, <2>1
<1> QED
  BY <1>3

\* In a finite set one element is the highest: f cannot always climb further.
LEMMA NoEndlessClimb ==
  ASSUME NEW H, IsFiniteSet(H), H # {}, NEW f, \A q \in H : f[q] \in Nat
  PROVE  \E q \in H : \A p \in H : ~ (f[q] < f[p])
<1> DEFINE Above(q) == {p \in H : f[q] < f[p]}
           Count == {Cardinality(Above(q)) : q \in H}
<1>1. ASSUME NEW q \in H PROVE IsFiniteSet(Above(q)) /\ Cardinality(Above(q)) \in Nat
  <2>1. Above(q) \subseteq H
    OBVIOUS
  <2> HIDE DEF Above
  <2>2. QED
    BY <2>1, FS_Subset, FS_CardinalityType
<1>2. PICK m \in Count : \A x \in Count : m <= x
  <2>1. Count \in SUBSET Nat /\ Count # {}
    BY <1>1
  <2> HIDE DEF Count
  <2>2. QED
    BY <2>1, LeastNumber
<1>3. PICK q \in H : m = Cardinality(Above(q))
  OBVIOUS
<1>4. ASSUME NEW p \in H, f[q] < f[p] PROVE FALSE
  <2>1. Above(p) \subseteq Above(q) /\ p \in Above(q) /\ p \notin Above(p)
    BY <1>4
  <2>2. Cardinality(Above(p)) \in Count
    OBVIOUS
  <2> HIDE DEF Above, Count
  <2>3. Cardinality(Above(p)) < Cardinality(Above(q))
    <3>1. Above(p) # Above(q)
      BY <2>1
    <3>2. QED
      BY <1>1, <2>1, <3>1, FS_Subset
  <2>4. QED
    BY <1>1, <1>2, <1>3, <2>2, <2>3
<1>5. QED
  BY <1>4

\* Among any transactions one waits for none of the others.  Were each to wait
\* within the set, each would wait for a token another has kept, and so each of
\* those for a newer one, for ever.
LEMMA NoCircle == IInv /\ Ordered => NoDeadlock
<1> SUFFICES ASSUME IInv, Ordered, NEW S \in SUBSET Request, IsFiniteSet(S), S # {},
                    \A r \in S : \E q \in S : WaitsFor(r, q)
             PROVE  FALSE
  BY DEF NoDeadlock
<1>1. ASSUME NEW r \in S
      PROVE  targets[r] # {} /\ held[r] = {} /\ kept[r] \subseteq {token[r]}
  <2>1. targets[r] # {}
    BY DEF WaitsFor
  <2>2. QED
    BY <2>1 DEF IInv, Locks, Ordered, Keeps
<1> DEFINE H == {q \in S : kept[q] # {}}
           f == [q \in H |-> row[token[q]].place]
<1>2. ASSUME NEW r \in S PROVE \E q \in H : token[q] \in kept[q] /\ token[q] \in targets[r]
  <2>1. PICK q \in S : WaitsFor(r, q)
    OBVIOUS
  <2>2. PICK t \in targets[r] : t \in Locked(q)
    BY <2>1 DEF WaitsFor
  <2>3. t \in kept[q] /\ t = token[q]
    BY <1>1, <2>2 DEF Locked
  <2>4. QED
    BY <2>2, <2>3
<1>3. IsFiniteSet(H) /\ H # {}
  BY <1>2, FS_Subset
<1>4. \A q \in H : f[q] \in Nat
  <2> SUFFICES ASSUME NEW q \in H PROVE row[token[q]].place \in Nat
    OBVIOUS
  <2>1. token[q] \in Stored
    BY DEF Ordered, Keeps
  <2>2. row[token[q]] \in Row
    BY <2>1 DEF IInv, TypeOK
  <2>3. QED
    BY <2>2 DEF Row
<1>5. ASSUME NEW q \in H PROVE \E p \in H : f[q] < f[p]
  <2>1. PICK p \in H : token[p] \in kept[p] /\ token[p] \in targets[q]
    BY <1>2
  <2>2. token[q] \in kept[q]
    BY <1>1
  <2>3. row[token[q]].place < row[token[p]].place
    BY <2>1, <2>2 DEF Ordered, Keeps
  <2>4. QED
    BY <2>3
<1> HIDE DEF H, f
<1>6. QED
  BY <1>3, <1>4, <1>5, NoEndlessClimb

-----------------------------------------------------------------------------
(* The theorems *)

\* The inductive invariant of the refresh-token transactions holds throughout.
THEOREM Invariance == Spec => []IInv
<1>1. QED
  BY InvInit, InvStep, PTL DEF Spec

\* Types are kept, and drafted rows belong to transactions about to commit.
THEOREM TypeCorrect == Spec => []TypeOK
<1>1. IInv => TypeOK
  BY DEF IInv
<1>2. QED
  BY <1>1, Invariance, PTL

\* Each refresh token works exactly once, whatever the number of requests that
\* race for it and wherever they crash.
THEOREM EachTokenOnce == Spec => []SingleUse
<1>1. IInv => SingleUse
  BY DEF IInv
<1>2. QED
  BY <1>1, Invariance, PTL

\* A family never has two tokens that work.
THEOREM OneLive == Spec => []OneLivePerFamily
<1>1. IInv => OneLivePerFamily
  BY DEF IInv
<1>2. QED
  BY <1>1, Invariance, PTL

\* Reuse detection is set off by a token that was used or revoked, never by one
\* that has just expired (`now` in rotateRefreshToken), and the answer "reused"
\* leaves no working replacement of that token.
THEOREM ReplayEnds == Spec => []ReplayEndsSuccessor
<1>1. IInv => ReplayEndsSuccessor
  BY DEF IInv, ReplayEndsSuccessor, Replayed
<1>2. QED
  BY <1>1, Invariance, PTL

\* A family UPDATE that lost no race for a row has ended the session, also
\* against the rotations that are still open.
THEOREM RevocationEnds == Spec => []RevocationEndsFamily
<1>1. IInv => RevocationEndsFamily
  <2> SUFFICES ASSUME IInv, NEW r \in Request, pc[r] = "done",
                      answer[r] \in {"reused", "loggedOut"},
                      token[r] \in Stored, ~ skipped[r]
               PROVE  /\ LiveTokens(FamilyOf(r)) = {}
                      /\ \A q \in DOMAIN draft : draft[q].family # FamilyOf(r)
    BY DEF RevocationEndsFamily
  <2>1. LiveTokens(FamilyOf(r)) = {}
    BY DEF IInv, Revoking
  <2>2. ASSUME NEW q \in DOMAIN draft PROVE draft[q].family # FamilyOf(r)
    <3>1. q \in Request /\ held[q] = {token[q]} /\ draft[q].family = FamilyOf(q)
      BY DEF IInv, TypeOK, Drafts
    <3>2. token[q] \in LiveTokens(FamilyOf(q))
      BY <3>1 DEF IInv, Locks, LiveTokens, FamilyOf
    <3>3. QED
      BY <2>1, <3>1, <3>2
  <2>3. QED
    BY <2>1, <2>2
<1>2. QED
  BY <1>1, Invariance, PTL

\* The order of the tokens holds throughout.
THEOREM OrderInvariance == Spec => []Ordered
<1>1. QED
  BY Invariance, OrderInit, OrderStep, PTL DEF Spec

\* However many transactions work on one family, a transaction that has locked a
\* row only ever waits for a newer token, and no set of them is deadlocked.
THEOREM OrderOfWaits == Spec => []WaitsAreOrdered
<1>1. IInv /\ Ordered => WaitsAreOrdered
  BY NewerTokens, NoCircle DEF WaitsAreOrdered
<1>2. QED
  BY <1>1, Invariance, OrderInvariance, PTL

-----------------------------------------------------------------------------
(* The committed table implements SessionChain *)

LiveMap == [f \in Request |-> LiveTokens(f)]
SpentMap == [f \in Request |-> SpentTokens(f)]

\* The tokens the chains know are the stored ones.
LEMMA KnownIsStored ==
  ASSUME IInv, NEW t \in Request
  PROVE  Chain!Known(t) <=> t \in Stored
  BY DEF IInv, TypeOK, Chain!Known, LiveTokens, SpentTokens, Row

\* A login opens a chain.
LEMMA StoreLoginOpens ==
  ASSUME IInv, NEW r \in Request, StoreLogin(r)
  PROVE  Chain!Open(r)
<1>1. /\ r \notin Stored
      /\ Stored' = Stored \cup {r}
      /\ row'[r] = NewRow(r, r, 0)
      /\ \A t \in Stored : row'[t] = row[t]
  BY DEF StoreLogin, Stored, IInv, StoredDone
<1>2. row'[r].family = r /\ ~ row'[r].revoked
  BY <1>1 DEF NewRow
<1>3. \A t \in Stored : row[t].family # r
  BY <1>1 DEF IInv, Lineage
<1>4. LiveTokens(r) = {} /\ SpentTokens(r) = {}
  BY <1>3 DEF LiveTokens, SpentTokens
<1>5. LiveTokens(r)' = {r}
  BY <1>1, <1>2, <1>3 DEF LiveTokens
<1>6. \A f \in Request \ {r} : LiveTokens(f)' = LiveTokens(f)
  BY <1>1, <1>2 DEF LiveTokens
<1>7. \A f \in Request : SpentTokens(f)' = SpentTokens(f)
  BY <1>1, <1>2 DEF SpentTokens
<1>8. ~ Chain!Known(r)
  BY <1>1, KnownIsStored
<1>9. LiveMap' = [LiveMap EXCEPT ![r] = {r}] /\ SpentMap' = SpentMap
  BY <1>5, <1>6, <1>7 DEF LiveMap, SpentMap
<1>10. QED
  BY <1>4, <1>8, <1>9 DEF Chain!Open, LiveMap, SpentMap

\* What a commit does to the rows: at most one token is spent, and only then
\* at most one is added, to the same family.
LEMMA CommitMoves ==
  ASSUME IInv, NEW r \in Request, Commit(r)
  PROVE  \/ \E f, old, new \in Request : Chain!Advance(f, old, new)
         \/ \E f, old \in Request : Chain!End(f, old)
         \/ LiveMap' = LiveMap /\ SpentMap' = SpentMap
<1> USE DEF IInv
<1>1. /\ r \notin Stored
      /\ pc[r] = "commit"
      /\ Stored' = Stored \cup ({r} \cap DOMAIN draft)
      /\ row' = Committed(r)
  BY DEF Commit, Committed, Stored, StoredDone
<1>2. \A t \in Stored \ held[r] : row'[t] = row[t]
  BY <1>1 DEF Committed
<1>3. CASE held[r] = {}
  <2>1. r \notin DOMAIN draft
    BY <1>3 DEF Drafts
  <2>2. Stored' = Stored /\ \A t \in Stored : row'[t] = row[t]
    BY <1>1, <1>2, <1>3, <2>1
  <2>3. \A f \in Request : LiveTokens(f)' = LiveTokens(f) /\ SpentTokens(f)' = SpentTokens(f)
    BY <2>2 DEF LiveTokens, SpentTokens
  <2>4. QED
    BY <2>3 DEF LiveMap, SpentMap
<1>4. CASE held[r] # {}
  <2>1. PICK x \in held[r] : TRUE
    BY <1>4
  <2>2. /\ x \in Stored /\ ~ row[x].revoked /\ row[x].family = FamilyOf(r)
        /\ token[r] \in Stored
    BY DEF Locks
  <2>a. FamilyOf(r) \in Request
    BY <2>2 DEF Lineage, TypeOK, FamilyOf
  <2>b. PICK f \in Request : f = FamilyOf(r)
    BY <2>a
  <2>3. f \in Request /\ x \in Request /\ row[x].family = f
    BY <2>2, <2>b DEF TypeOK
  <2>4. LiveTokens(f) = {x}
    BY <2>2, <2>3 DEF OneLivePerFamily, LiveTokens
  <2>5. held[r] = {x}
    BY <2>1, <2>4, <2>b DEF Locks, LiveTokens
  <2>6. row'[x] = [row[x] EXCEPT !.revoked = TRUE]
    BY <1>1, <2>2, <2>5 DEF Committed
  <2>7. row[x] \in [family : Request, parent : Request, expiresAt : Nat, revoked : BOOLEAN,
                   place : Nat]
    BY <2>2 DEF TypeOK, Row
  <2>8. row'[x].revoked /\ row'[x].family = f
    BY <2>3, <2>6, <2>7
  <2>9. \A g \in Request \ {f} : \A t \in Stored :
          /\ t \in LiveTokens(g)' <=> t \in LiveTokens(g)
          /\ t \in SpentTokens(g)' <=> t \in SpentTokens(g)
    BY <1>1, <1>2, <2>2, <2>3, <2>5, <2>8 DEF LiveTokens, SpentTokens
  <2>10. \A t \in Stored : t \notin LiveTokens(f)'
    BY <1>2, <2>4, <2>5, <2>8 DEF LiveTokens
  <2>11. \A t \in Stored : t \in SpentTokens(f)' <=> t \in SpentTokens(f) \cup {x}
    BY <1>1, <1>2, <2>2, <2>3, <2>5, <2>8 DEF SpentTokens
  <2>12. \A g \in Request : /\ LiveTokens(g) \cup SpentTokens(g) \subseteq Stored
                            /\ LiveTokens(g)' \cup SpentTokens(g)' \subseteq Stored'
    BY DEF LiveTokens, SpentTokens
  <2>13. CASE r \notin DOMAIN draft
    <3>1. Stored' = Stored
      BY <1>1, <2>13
    <3>2. LiveTokens(f)' = {} /\ SpentTokens(f)' = SpentTokens(f) \cup {x}
      BY <2>2, <2>3, <2>10, <2>11, <2>12, <3>1
    <3>3. \A g \in Request \ {f} : LiveTokens(g)' = LiveTokens(g) /\ SpentTokens(g)' = SpentTokens(g)
      BY <2>9, <2>12, <3>1
    <3>4. /\ LiveMap' = [LiveMap EXCEPT ![f] = {}]
          /\ SpentMap' = [SpentMap EXCEPT ![f] = SpentMap[f] \cup {x}]
      BY <2>3, <3>2, <3>3 DEF LiveMap, SpentMap
    <3>5. Chain!End(f, x)
      BY <2>3, <2>4, <3>4 DEF Chain!End, LiveMap, SpentMap
    <3>6. QED
      BY <2>3, <3>5
  <2>14. CASE r \in DOMAIN draft
    <3>1. /\ Stored' = Stored \cup {r}
          /\ row'[r] = draft[r]
          /\ draft[r].family = f /\ ~ draft[r].revoked
      BY <1>1, <2>2, <2>5, <2>14, <2>b DEF Drafts, Committed
    <3>2. LiveTokens(f)' = {r}
      BY <2>10, <2>12, <3>1 DEF LiveTokens
    <3>3. SpentTokens(f)' = SpentTokens(f) \cup {x}
      <4>1. r \notin SpentTokens(f)'
        BY <3>1 DEF SpentTokens
      <4>2. QED
        BY <2>2, <2>3, <2>11, <2>12, <3>1, <4>1
    <3>4. \A g \in Request \ {f} : LiveTokens(g)' = LiveTokens(g) /\ SpentTokens(g)' = SpentTokens(g)
      <4>1. \A g \in Request \ {f} : r \notin LiveTokens(g)' /\ r \notin SpentTokens(g)'
        BY <3>1 DEF LiveTokens, SpentTokens
      <4> SUFFICES ASSUME NEW g \in Request \ {f}
                   PROVE  LiveTokens(g)' = LiveTokens(g) /\ SpentTokens(g)' = SpentTokens(g)
        OBVIOUS
      <4>2. /\ LiveTokens(g) \cup SpentTokens(g) \subseteq Stored
            /\ LiveTokens(g)' \cup SpentTokens(g)' \subseteq Stored
        BY <2>12, <3>1, <4>1
      <4>3. QED
        BY <2>9, <4>2
    <3>5. /\ LiveMap' = [LiveMap EXCEPT ![f] = {r}]
          /\ SpentMap' = [SpentMap EXCEPT ![f] = SpentMap[f] \cup {x}]
      BY <2>3, <3>2, <3>3, <3>4 DEF LiveMap, SpentMap
    <3>6. ~ Chain!Known(r)
      BY <1>1, KnownIsStored
    <3>7. Chain!Advance(f, x, r)
      BY <2>3, <2>4, <3>5, <3>6 DEF Chain!Advance, LiveMap, SpentMap
    <3>8. QED
      BY <2>3, <3>7
  <2>15. QED
    BY <2>13, <2>14
<1>5. QED
  BY <1>3, <1>4

\* Every step of the handlers is a step of the chains, or none.
LEMMA ChainStep == IInv /\ [Next]_vars => [Chain!Next]_(Chain!chainVars)
<1> SUFFICES ASSUME IInv, [Next]_vars PROVE Chain!Next \/ UNCHANGED Chain!chainVars
  OBVIOUS
<1>1. ASSUME row' = row PROVE UNCHANGED Chain!chainVars
  BY <1>1 DEF Chain!chainVars, LiveTokens, SpentTokens, Stored
<1>2. ASSUME NEW r \in Request, StoreLogin(r) PROVE Chain!Next
  BY <1>2, StoreLoginOpens DEF Chain!Next
<1>3. ASSUME NEW r \in Request, Commit(r) PROVE Chain!Next \/ UNCHANGED Chain!chainVars
  BY <1>3, CommitMoves DEF Chain!Next, Chain!chainVars, LiveMap, SpentMap
<1>4. QED
  BY <1>1, <1>2, <1>3, WhoWrites

\* The committed refresh tokens behave as the chains SessionChain promises.
THEOREM Refinement == Spec => ImplementsChain
<1>1. Init => Chain!Init
  BY DEF Init, Chain!Init, LiveTokens, SpentTokens, Stored
<1>2. QED
  BY <1>1, Invariance, ChainStep, PTL DEF Spec, ImplementsChain, Chain!Spec
=============================================================================

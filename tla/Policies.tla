----------------------------- MODULE Policies -----------------------------
(***************************************************************************)
(* The row-level access rules.  They exist twice in the code: as a check on *)
(* a row that was read, and as the WHERE clause a write repeats.            *)
(***************************************************************************)
CONSTANTS Admins, Managers, Developers   \* the users of each role

ASSUME RolesAssumption ==
  /\ Admins \cap Managers = {}
  /\ Admins \cap Developers = {}
  /\ Managers \cap Developers = {}

User == Admins \cup Managers \cup Developers

\* WHERE clauses.  projectScope throws for a developer: no row is in scope.
InProjectScope(u, p) == u \in Admins \/ (u \in Managers /\ p.owner = u)

InTaskScope(u, t, p) == \/ u \in Admins
                        \/ u \in Managers /\ p.owner = u
                        \/ u \in Developers /\ t.assignee = u

\* Checks on rows already read.
CanManageProject(u, p) == u \in Admins \/ (u \in Managers /\ p.owner = u)

TaskAccess(u, t, p) ==
  CASE CanManageProject(u, p) -> "manage"
    [] ~ CanManageProject(u, p) /\ u \in Developers /\ t.assignee = u -> "assignee"
    [] OTHER -> "none"
=============================================================================

---------------------------- MODULE MCTaskBoard ----------------------------
(* Small instances of TaskBoard for TLC. *)
EXTENDS TaskBoard, TLC

CONSTANTS dev1, dev2, pm1

Body(s, a, d) == [status |-> s, assignee |-> a, due |-> d]

\* Bodies that move a task or its deadline.
Moves == {Body(s, Keep, Keep) : s \in {"IN_PROGRESS", "IN_REVIEW", "DONE"}}
           \cup {Body(Keep, Keep, "future")}

\* Bodies that hand a task over, with a review on the way.  The one that names a
\* project manager is always refused.
Handovers == {Body(Keep, a, Keep) : a \in {dev1, dev2, pm1, Nobody}}
               \cup {Body("IN_REVIEW", Keep, Keep), Body("DONE", dev1, "past")}

Symmetry == Permutations(Request)
=============================================================================

--------------------------- MODULE MCActivityFeed ---------------------------
(* A small instance of ActivityFeed for TLC. *)
EXTENDS ActivityFeed, TLC

\* Requests and entries are each treated alike.
Symmetry == Permutations(Entry) \cup Permutations(Req)

\* Only the order of the stamps matters, so a tick after which nothing can differ
\* from the moment before is not followed: nothing was stamped since the last one.
TicksThatCount == clock = 1 \/ \E e \in Entry : stamp[e] = clock - 1
=============================================================================

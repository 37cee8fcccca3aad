------------------------ MODULE MCNotificationCenter ------------------------
(* A small instance of NotificationCenter for TLC. *)
EXTENDS NotificationCenter, TLC

\* Tabs, notifications and requests are each treated alike.
Symmetry == Permutations(Tab) \cup Permutations(Note) \cup Permutations(Req)
=============================================================================

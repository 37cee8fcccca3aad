--------------------------- MODULE MCOverdueSweep ---------------------------
(* A small instance of OverdueSweep for TLC: three tasks, batches of two. *)
EXTENDS OverdueSweep

Row(s, d) == [status |-> s, due |-> d]

\* Three tasks overdue at once, or two that fill a batch exactly and one with an
\* id between theirs that falls due later.
Tables == {<<Row("TODO", 0), Row("IN_PROGRESS", 0), Row("TODO", 0)>>,
           <<Row("TODO", 0), Row("IN_PROGRESS", 1), Row("TODO", 0)>>}
=============================================================================

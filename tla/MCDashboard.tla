---------------------------- MODULE MCDashboard ----------------------------
(* Instance of Dashboard for TLC: three open or overdue tasks with ties in *)
(* every sort key, one of them without a due date.                          *)
EXTENDS Dashboard

Task(s, d, p) == [status |-> s, priority |-> "HIGH", due |-> d, assignee |-> "dev1",
                  project |-> p, created |-> 1]

SeedDb_MC ==
  {[owner |-> [project \in {"p1", "p2"} |-> "pm1"],
    task |-> <<Task("IN_REVIEW", 2, "p1"), Task("IN_REVIEW", Late, "p2"), Task("OVERDUE", 2, "p2")>>]}

Chips_MC == [status |-> {"OVERDUE"}, priority |-> {}]

HandOffsets_MC == {1, -2}

HandLists_MC == {<<>>, <<<<"OVERDUE", "", "bad">>>>, <<<<" ">>, <<"no">>>>, <<<<"">>>>}
=============================================================================

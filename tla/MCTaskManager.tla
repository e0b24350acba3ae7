--------------------------- MODULE MCTaskManager ---------------------------
(***************************************************************************)
(* TaskManager on a small instance: a history variable for the size of the *)
(* kept history, and small sets of reported percentages.                   *)
(***************************************************************************)
EXTENDS TaskManager, FiniteSets

VARIABLE peak   \* the most tasks that were ever unfinished at once

MCReports == {-1, 101}
NoReports == {}

Unfinished == {t \in 1..seq : status[t] \notin Terminal}

MCInit == Init /\ peak = 0

MCNext ==
  /\ Next
  /\ peak' = IF Cardinality(Unfinished') > peak THEN Cardinality(Unfinished') ELSE peak

MCSpec == MCInit /\ [][MCNext]_<<vars, peak>>

MCFairSpec == MCSpec /\ Fairness

\* Outside the trimming loop the history is within the cap, or as large as the
\* most tasks that were ever unfinished together: finished tasks the loop steps
\* over never pile up.
HistoryBounded ==
  Unlocked => Len(order) <= MaxHistory \/ Len(order) <= peak

=============================================================================

--------------------------- MODULE TaskLifecycle ---------------------------
(***************************************************************************)
(* What the job system promises about each task, without mutex, history,   *)
(* goroutines or progress: a task is opened once, may be asked to stop     *)
(* while it is open, and ends exactly once.  A task that was asked to stop *)
(* ends as cancelled, one that was not never does, and every task ends.    *)
(***************************************************************************)
EXTENDS Naturals

CONSTANTS MaxTasks   \* bound: how many tasks are ever opened

VARIABLES phase      \* task -> its phase

Task == 1..MaxTasks

Phase == {"absent", "open", "stopping", "succeeded", "failed", "cancelled"}

Init == phase = [t \in Task |-> "absent"]

Move(t, to) == phase' = [phase EXCEPT ![t] = to]

\* Tasks are numbered in the order in which they are opened.
Open(t) ==
  /\ phase[t] = "absent"
  /\ \A u \in 1..(t - 1) : phase[u] # "absent"
  /\ Move(t, "open")

AskToStop(t) == phase[t] = "open" /\ Move(t, "stopping")

End(t) ==
  \/ phase[t] = "open" /\ \E r \in {"succeeded", "failed"} : Move(t, r)
  \/ phase[t] = "stopping" /\ Move(t, "cancelled")

Next == \E t \in Task : Open(t) \/ AskToStop(t) \/ End(t)

SafeSpec == Init /\ [][Next]_phase

Spec == SafeSpec /\ \A t \in Task : WF_phase(End(t))

=============================================================================

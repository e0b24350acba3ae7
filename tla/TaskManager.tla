---------------------------- MODULE TaskManager ----------------------------
(***************************************************************************)
(* The in-memory job system of the API server (internal/tasks/tasks.go)    *)
(* and the cancel handler in front of it.                                  *)
(*                                                                         *)
(* One mutex protects every task record.  Start registers a task, trims    *)
(* the history, releases the mutex, spawns the worker goroutine and only   *)
(* then takes the mutex again to read back the view it returns.  A worker  *)
(* takes the mutex to become running, runs the operation without it, and   *)
(* takes it again to record the outcome.  Cancel may fall between any two  *)
(* of these critical sections.                                             *)
(*                                                                         *)
(* Each action below is one critical section, except the trimming loop,    *)
(* which is one action per iteration: while it runs (trimAt # 0) the mutex *)
(* is held and nothing else that needs it may happen.                      *)
(***************************************************************************)
EXTENDS Naturals, Integers, Sequences

CONSTANTS
  MaxTasks,      \* bound: how many tasks are ever started
  MaxHistory,    \* the code's maxHistory (500)
  Reports        \* the values operations pass to Reporter.SetProgress

ASSUME TaskManagerAssumption ==
  /\ MaxTasks \in Nat \ {0}
  /\ MaxHistory \in Nat \ {0}
  /\ Reports \subseteq Int

VARIABLES
  seq,        \* number of the newest task
  order,      \* m.order: the kept tasks, oldest first
  byID,       \* keys of m.byID
  status,     \* task -> status; "none" before the task is started
  progress,   \* task -> reported percentage
  cancelled,  \* tasks whose context has been cancelled
  worker,     \* task -> where its goroutine is
  opening,    \* tasks whose Start call has not yet read its view back
  trimAt      \* position of the trimming loop in order, 0 when not trimming

vars == <<seq, order, byID, status, progress, cancelled, worker, opening, trimAt>>

Task == 1..MaxTasks

Terminal == {"succeeded", "failed", "cancelled"}
Status   == {"none", "queued", "running", "cancelling"} \cup Terminal

(***************************************************************************)
(* Where a worker goroutine is: not spawned, spawned but not yet running,  *)
(* inside the operation, back from it with or without an error and about   *)
(* to take the mutex, or finished.                                         *)
(***************************************************************************)
WorkerState == {"none", "spawned", "operating", "returnedOk", "returnedErr", "done"}

\* The mutex is free: no trimming loop is holding it.
Unlocked == trimAt = 0

TypeOK ==
  /\ seq \in 0..MaxTasks
  /\ order \in Seq(Task)
  /\ byID \subseteq Task
  /\ status \in [Task -> Status]
  /\ progress \in [Task -> 0..100]
  /\ cancelled \subseteq Task
  /\ worker \in [Task -> WorkerState]
  /\ opening \subseteq Task
  /\ trimAt \in Nat

Init ==
  /\ seq = 0
  /\ order = << >>
  /\ byID = {}
  /\ status = [t \in Task |-> "none"]
  /\ progress = [t \in Task |-> 0]
  /\ cancelled = {}
  /\ worker = [t \in Task |-> "none"]
  /\ opening = {}
  /\ trimAt = 0

-----------------------------------------------------------------------------
(***************************************************************************)
(* Start                                                                   *)
(***************************************************************************)

\* First half of Start: number, register and append the task, and begin
\* trimming with the mutex held.
StartRegister ==
  /\ Unlocked
  /\ seq < MaxTasks
  /\ LET t == seq + 1 IN
       /\ seq' = t
       /\ order' = Append(order, t)
       /\ byID' = byID \cup {t}
       /\ status' = [status EXCEPT ![t] = "queued"]
  /\ trimAt' = 1
  /\ UNCHANGED <<progress, cancelled, worker, opening>>

MutTrimmableSucceeded(t) == status[t] = "succeeded"

\* Only finished tasks may leave the history.
Trimmable(t) == status[t] \in Terminal

\* The slice s without position i, the later positions shifted left by one.
Without(s, i) == [j \in 1..(Len(s) - 1) |-> IF j < i THEN s[j] ELSE s[j + 1]]

MutDropLocked(i) == order' = Without(order, i) /\ UNCHANGED byID

\* dropLocked: the task at position i leaves the map and the slice.  The
\* slice is shifted left in place, under the loop that ranges over it.
DropLocked(i) == order' = Without(order, i) /\ byID' = byID \ {order[i]}

\* The range expression has the old length: past the end of the shortened
\* slice it only meets stale copies of the new task, which is queued and
\* never dropped, so the loop is over there.
TrimDone == Len(order) <= MaxHistory \/ trimAt > Len(order)

\* One iteration of the trimming loop.  The index moves on after a drop too,
\* past the task that was shifted into the freed position.
TrimStep ==
  /\ ~Unlocked
  /\ ~TrimDone
  /\ IF Trimmable(order[trimAt])
       THEN DropLocked(trimAt)
       ELSE UNCHANGED <<order, byID>>
  /\ trimAt' = trimAt + 1
  /\ UNCHANGED <<seq, status, progress, cancelled, worker, opening>>

\* The loop ends, the mutex is released and the goroutine is spawned.
StartSpawn ==
  /\ ~Unlocked
  /\ TrimDone
  /\ trimAt' = 0
  /\ worker' = [worker EXCEPT ![seq] = "spawned"]
  /\ opening' = opening \cup {seq}
  /\ UNCHANGED <<seq, order, byID, status, progress, cancelled>>

\* Second half of Start: Get reads the view that the caller receives.
StartReturn(t) ==
  /\ Unlocked
  /\ t \in opening
  /\ opening' = opening \ {t}
  /\ UNCHANGED <<seq, order, byID, status, progress, cancelled, worker, trimAt>>

-----------------------------------------------------------------------------
(***************************************************************************)
(* The worker goroutine                                                    *)
(***************************************************************************)

\* run, first critical section: running, whatever the status was.
RunBegin(t) ==
  /\ Unlocked
  /\ worker[t] = "spawned"
  /\ worker' = [worker EXCEPT ![t] = "operating"]
  /\ status' = [status EXCEPT ![t] = "running"]
  /\ UNCHANGED <<seq, order, byID, progress, cancelled, opening, trimAt>>

Clamp(p) == IF p < 0 THEN 0 ELSE IF p > 100 THEN 100 ELSE p

\* The operation reports progress.
SetProgress(t, p) ==
  /\ Unlocked
  /\ worker[t] = "operating"
  /\ progress' = [progress EXCEPT ![t] = Clamp(p)]
  /\ UNCHANGED <<seq, order, byID, status, cancelled, worker, opening, trimAt>>

\* The operation returns; nothing is locked, so this needs no mutex.
OperationReturns(t, result) ==
  /\ worker[t] = "operating"
  /\ worker' = [worker EXCEPT ![t] = result]
  /\ UNCHANGED <<seq, order, byID, status, progress, cancelled, opening, trimAt>>

MutOutcome(t) ==
  IF worker[t] = "returnedErr" THEN "failed" ELSE "succeeded"

\* The terminal status run records: a cancelled context wins over the result.
Outcome(t) ==
  IF t \in cancelled THEN "cancelled"
  ELSE IF worker[t] = "returnedErr" THEN "failed" ELSE "succeeded"

\* run, second critical section.
RunFinish(t) ==
  /\ Unlocked
  /\ worker[t] \in {"returnedOk", "returnedErr"}
  /\ worker' = [worker EXCEPT ![t] = "done"]
  /\ status' = [status EXCEPT ![t] = Outcome(t)]
  /\ progress' = [progress EXCEPT ![t] = IF Outcome(t) = "succeeded" THEN 100 ELSE @]
  /\ UNCHANGED <<seq, order, byID, cancelled, opening, trimAt>>

-----------------------------------------------------------------------------
(***************************************************************************)
(* Cancel and its handler                                                  *)
(***************************************************************************)

\* viewLocked's cancellable flag, and the statuses Cancel accepts.
Cancellable(t) == status[t] \in {"queued", "running"}

\* Cancel accepts the request: the status changes and the context is cancelled.
Cancel(t) ==
  /\ Unlocked
  /\ t \in byID
  /\ Cancellable(t)
  /\ status' = [status EXCEPT ![t] = "cancelling"]
  /\ cancelled' = cancelled \cup {t}
  /\ UNCHANGED <<seq, order, byID, progress, worker, opening, trimAt>>

\* What handleCancelTask answers for a task.
CancelAnswer(t) ==
  IF t \notin byID THEN "TASK_NOT_FOUND"
  ELSE IF Cancellable(t) THEN "ACCEPTED"
  ELSE "TASK_NOT_CANCELLABLE"

-----------------------------------------------------------------------------
StartSteps == StartRegister \/ TrimStep \/ StartSpawn

WorkerSteps(t) ==
  \/ RunBegin(t)
  \/ \E r \in {"returnedOk", "returnedErr"} : OperationReturns(t, r)
  \/ RunFinish(t)

Next ==
  \/ StartSteps
  \/ \E t \in Task :
       \/ StartReturn(t)
       \/ WorkerSteps(t)
       \/ \E p \in Reports : SetProgress(t, p)
       \/ Cancel(t)

(***************************************************************************)
(* The Go scheduler runs every goroutine that can run and a lock that is   *)
(* released is eventually acquired by a waiter; every operation handed to  *)
(* Start returns.  Nobody is obliged to start or to cancel anything.       *)
(***************************************************************************)
Fairness ==
  /\ WF_vars(TrimStep \/ StartSpawn)
  /\ \A t \in Task : WF_vars(StartReturn(t)) /\ SF_vars(WorkerSteps(t))

Spec == Init /\ [][Next]_vars /\ Fairness

-----------------------------------------------------------------------------
(***************************************************************************)
(* Safety                                                                  *)
(***************************************************************************)

\* An accepted cancellation is final: a task whose context was cancelled can
\* end only as cancelled, and only such a task ends as cancelled, however the
\* cancel request interleaves with the operation's return.
CancelledExactlyWhenRequested ==
  \A t \in Task : status[t] \in Terminal => (status[t] = "cancelled" <=> t \in cancelled)

\* The slice and the map of the manager hold the same tasks, each once and
\* oldest first, whatever the trimming loop dropped while ranging over the
\* slice it shifts.
HistoryConsistent ==
  /\ byID = {order[i] : i \in 1..Len(order)}
  /\ \A i, j \in 1..Len(order) : i < j => order[i] < order[j]

\* A task that has not finished can always be found: it can be polled, and its
\* cancellation can always be requested.
LiveTasksFindable ==
  \A t \in 1..seq : status[t] \notin Terminal => t \in byID

\* A finished task keeps its outcome, its progress and its worker for good.
TerminalIsForever ==
  [][\A t \in Task : status[t] \in Terminal =>
       /\ status'[t] = status[t]
       /\ progress'[t] = progress[t]
       /\ worker'[t] = worker[t]]_vars

\* The phase a task is in, by its context and outcome and not by the status
\* field it shows meanwhile.
phaseOf ==
  [t \in Task |->
     IF status[t] = "none" THEN "absent"
     ELSE IF status[t] \in Terminal THEN status[t]
     ELSE IF t \in cancelled THEN "stopping" ELSE "open"]

Lifecycle == INSTANCE TaskLifecycle WITH phase <- phaseOf

\* The job system implements the life cycle, with its liveness: every task that
\* is started ends, exactly once, as cancelled if and only if a cancellation
\* was accepted, even though its status field may go back from cancelling to
\* running on the way.
ImplementsLifecycle == Lifecycle!Spec

(***************************************************************************)
(* What the documentation promises and the code does not keep              *)
(***************************************************************************)

\* "cancelling: cancel requested, waiting for the worker to return": the only
\* way out of cancelling is cancelled.  (A worker that starts after the cancel
\* request overwrites the status with running.)
CancellingUntilCancelled ==
  [][\A t \in Task :
       status[t] = "cancelling" => status'[t] \in {"cancelling", "cancelled"}]_vars

\* "Trim history (drop oldest finished tasks beyond the cap)": when the trimming
\* loop of a Start ends, the history is within the cap or holds no finished
\* task.  (After a drop the loop steps over the task shifted into its place.)
TrimReachesCap ==
  [][trimAt # 0 /\ trimAt' = 0 =>
       \/ Len(order) <= MaxHistory
       \/ \A i \in 1..Len(order) : status[order[i]] \notin Terminal]_vars

\* "The returned task is in status queued": the view Start returns is that of a
\* queued task.  (Between the two critical sections the worker may run, and
\* finish, and the task may even be trimmed.)
StartReturnsQueued ==
  [][\A t \in opening \ opening' : t \in byID /\ status[t] = "queued"]_vars

\* "Task already reached a terminal state": the cancel handler says so only of
\* finished tasks.  (A task that is still cancelling gets the same answer.)
NotCancellableMeansTerminal ==
  \A t \in Task : CancelAnswer(t) = "TASK_NOT_CANCELLABLE" => status[t] \in Terminal

=============================================================================

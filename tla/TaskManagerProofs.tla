------------------------- MODULE TaskManagerProofs -------------------------
(***************************************************************************)
(* Theorems about the job system, for any number of tasks, any cap on the  *)
(* history and any reported percentages.                                   *)
(***************************************************************************)
EXTENDS MCTaskManager, FiniteSetTheorems, TLAPS

\* The tasks that were started and no other have left their initial state, and
\* only the newest one can still lack its goroutine, while Start trims.
StartedInv ==
  /\ opening \subseteq 1..seq
  /\ cancelled \subseteq 1..seq
  /\ \A t \in Task :
       /\ t > seq <=> status[t] = "none"
       /\ worker[t] = "none" <=> t > seq \/ (t = seq /\ ~Unlocked)
  /\ ~Unlocked => seq > 0 /\ status[seq] = "queued"

\* Records and goroutines agree on which tasks are finished, and how.
OutcomeInv ==
  \A t \in Task :
    /\ worker[t] = "done" <=> status[t] \in Terminal
    /\ status[t] \in Terminal => (status[t] = "cancelled" <=> t \in cancelled)
    /\ status[t] = "queued" => worker[t] \in {"none", "spawned"}

\* Slice and map agree, in order, and an unfinished task is in both.
HistoryInv ==
  /\ \A i \in 1..Len(order) : order[i] \in 1..seq
  /\ HistoryConsistent
  /\ LiveTasksFindable

IInv == TypeOK /\ StartedInv /\ OutcomeInv /\ HistoryInv

-----------------------------------------------------------------------------
LEMMA InitIInv == Init => IInv
  <1> SUFFICES ASSUME Init PROVE IInv
    OBVIOUS
  <1> USE TaskManagerAssumption DEF Init, Task
  <1>1. TypeOK
    BY DEF TypeOK, Status, Terminal, WorkerState
  <1>2. StartedInv
    BY DEF StartedInv, Unlocked
  <1>3. OutcomeInv
    BY DEF OutcomeInv, Terminal
  <1>4. HistoryInv
    BY DEF HistoryInv, HistoryConsistent, LiveTasksFindable
  <1>5. QED
    BY <1>1, <1>2, <1>3, <1>4 DEF IInv

\* Dropping a position from a strictly increasing sequence leaves a strictly
\* increasing sequence of the other elements.
LEMMA WithoutPosition ==
  ASSUME NEW S, S \subseteq Int, NEW s \in Seq(S), NEW k \in 1..Len(s),
         \A i, j \in 1..Len(s) : i < j => s[i] < s[j]
  PROVE  LET d == Without(s, k)
         IN /\ d \in Seq(S)
            /\ Len(d) = Len(s) - 1
            /\ {d[i] : i \in 1..Len(d)} = {s[i] : i \in 1..Len(s)} \ {s[k]}
            /\ \A i, j \in 1..Len(d) : i < j => d[i] < d[j]
  <1> DEFINE d == Without(s, k)
  <1>1. d \in Seq(S) /\ Len(d) = Len(s) - 1
    BY DEF Without
  <1>2. \A j \in 1..Len(d) : d[j] = IF j < k THEN s[j] ELSE s[j + 1]
    BY <1>1 DEF Without
  <1> HIDE DEF d
  <1>3. \A i, j \in 1..Len(d) : i < j => d[i] < d[j]
    BY <1>1, <1>2
  <1>4. {d[i] : i \in 1..Len(d)} \subseteq {s[i] : i \in 1..Len(s)} \ {s[k]}
    <2> SUFFICES ASSUME NEW j \in 1..Len(d)
                 PROVE  d[j] \in {s[i] : i \in 1..Len(s)} /\ d[j] # s[k]
      OBVIOUS
    <2>1. CASE j < k
      <3>1. d[j] = s[j] /\ j \in 1..Len(s)
        BY <1>1, <1>2, <2>1
      <3>2. s[j] < s[k] /\ s[j] \in S /\ s[k] \in S
        BY <2>1, <3>1
      <3>3. s[j] \in Int /\ s[k] \in Int
        BY <3>2, Zenon
      <3>4. s[j] # s[k]
        BY <3>2, <3>3, \A x, y \in Int : x < y => x # y
      <3>5. QED
        BY <3>1, <3>4, Zenon
    <2>2. CASE ~(j < k)
      <3>1. d[j] = s[j + 1] /\ j + 1 \in 1..Len(s)
        BY <1>1, <1>2, <2>2
      <3>2. s[k] < s[j + 1] /\ s[j + 1] \in S /\ s[k] \in S
        BY <1>1, <2>2, <3>1
      <3>3. s[j + 1] \in Int /\ s[k] \in Int
        BY <3>2, Zenon
      <3>4. s[j + 1] # s[k]
        BY <3>2, <3>3, \A x, y \in Int : x < y => x # y
      <3>5. QED
        BY <3>1, <3>4, Zenon
    <2>3. QED
      BY <2>1, <2>2
  <1>5. ASSUME NEW i \in 1..Len(s), s[i] # s[k]
        PROVE  \E j \in 1..Len(d) : d[j] = s[i]
    <2>1. CASE i < k
      <3>1. i \in 1..Len(d) /\ d[i] = s[i]
        BY <1>1, <1>2, <2>1
      <3>2. QED
        BY <3>1
    <2>2. CASE i > k
      <3>1. i - 1 \in 1..Len(d) /\ d[i - 1] = s[i]
        BY <1>1, <1>2, <2>2
      <3>2. QED
        BY <3>1
    <2>3. QED
      BY <1>5, <2>1, <2>2
  <1>6. {d[i] : i \in 1..Len(d)} = {s[i] : i \in 1..Len(s)} \ {s[k]}
    BY <1>4, <1>5
  <1>7. QED
    BY <1>1, <1>3, <1>6 DEF d

-----------------------------------------------------------------------------
(***************************************************************************)
(* Every step preserves the invariant: one lemma per group of actions, the *)
(* history separately since few actions touch it.                          *)
(***************************************************************************)

\* Steps that leave the slice, the map and the counter alone, and finish tasks
\* at most, keep the history consistent.
LEMMA HistoryUntouched ==
  ASSUME HistoryInv, UNCHANGED <<seq, order, byID>>,
         \A t \in 1..seq : status[t] \in Terminal => status'[t] \in Terminal
  PROVE  HistoryInv'
  BY DEF HistoryInv, HistoryConsistent, LiveTasksFindable

LEMMA RegisterKeepsIInv == IInv /\ StartRegister => IInv'
  <1> SUFFICES ASSUME IInv, StartRegister PROVE IInv'
    OBVIOUS
  <1> USE TaskManagerAssumption DEF IInv, StartRegister, Task
  <1> DEFINE t == seq + 1
  <1>1. t \in Task /\ t \notin 1..seq
    BY DEF TypeOK
  <1>2. TypeOK'
    BY <1>1 DEF TypeOK, Status
  <1>3. StartedInv'
    BY <1>1 DEF StartedInv, Unlocked, TypeOK
  <1>4. OutcomeInv'
    BY <1>1 DEF OutcomeInv, StartedInv, Unlocked, TypeOK, Terminal
  <1>5. Len(order') = Len(order) + 1 /\ order'[Len(order')] = t
          /\ \A i \in 1..Len(order) : order'[i] = order[i]
    BY DEF TypeOK
  <1>6. HistoryInv'
    <2>1. \A i \in 1..Len(order') : order'[i] \in 1..seq'
      BY <1>5 DEF HistoryInv, TypeOK
    <2>2. \A i, j \in 1..Len(order') : i < j => order'[i] < order'[j]
      <3> SUFFICES ASSUME NEW i \in 1..Len(order'), NEW j \in 1..Len(order'), i < j
                   PROVE  order'[i] < order'[j]
        OBVIOUS
      <3>1. i \in 1..Len(order) /\ order'[i] = order[i] /\ order[i] < t
        BY <1>5 DEF HistoryInv, TypeOK
      <3>2. CASE j = Len(order')
        BY <1>5, <3>1, <3>2
      <3>3. CASE j # Len(order')
        <4>1. Len(order) \in Nat
          BY DEF TypeOK
        <4>2. j \in 1..Len(order)
          BY <1>5, <3>3, <4>1
        <4>3. order'[j] = order[j]
          BY <1>5, <4>2
        <4>4. QED
          BY <3>1, <4>2, <4>3 DEF HistoryInv, HistoryConsistent
      <3>4. QED
        BY <3>2, <3>3
    <2>3. byID' = {order'[i] : i \in 1..Len(order')}
      <3>1. byID \cup {t} = {order[i] : i \in 1..Len(order)} \cup {t}
        BY DEF HistoryInv, HistoryConsistent
      <3>2. {order'[i] : i \in 1..Len(order')} = {order'[i] : i \in 1..Len(order)} \cup {t}
        BY <1>5 DEF TypeOK
      <3>3. {order'[i] : i \in 1..Len(order)} = {order[i] : i \in 1..Len(order)}
        BY <1>5
      <3>4. QED
        BY <3>1, <3>2, <3>3
    <2>4. LiveTasksFindable'
      BY <1>1 DEF HistoryInv, LiveTasksFindable, TypeOK
    <2>5. QED
      BY <2>1, <2>2, <2>3, <2>4 DEF HistoryInv, HistoryConsistent
  <1>7. QED
    BY <1>2, <1>3, <1>4, <1>6

LEMMA TrimKeepsIInv == IInv /\ TrimStep => IInv'
  <1> SUFFICES ASSUME IInv, TrimStep PROVE IInv'
    OBVIOUS
  <1> USE TaskManagerAssumption DEF IInv, TrimStep, Task
  <1>1. trimAt \in 1..Len(order)
    BY DEF Unlocked, TrimDone, TypeOK
  <1>2. StartedInv' /\ OutcomeInv'
    BY DEF StartedInv, OutcomeInv, Unlocked, TypeOK
  <1>3. CASE ~Trimmable(order[trimAt])
    <2>1. HistoryInv'
      BY <1>3, HistoryUntouched
    <2>2. UNCHANGED <<order, byID>> /\ trimAt' \in Nat
      BY <1>3 DEF TypeOK
    <2>3. TypeOK'
      BY <2>2 DEF TypeOK
    <2>4. QED
      BY <1>2, <2>1, <2>3
  <1>4. CASE Trimmable(order[trimAt])
    <2> DEFINE d == Without(order, trimAt)
    <2>1. order' = d /\ byID' = byID \ {order[trimAt]}
      BY <1>4 DEF DropLocked
    <2>2. /\ d \in Seq(Task)
          /\ {d[i] : i \in 1..Len(d)} = {order[i] : i \in 1..Len(order)} \ {order[trimAt]}
          /\ \A i, j \in 1..Len(d) : i < j => d[i] < d[j]
      <3>1. Task \subseteq Int /\ order \in Seq(Task)
        BY DEF TypeOK
      <3>2. \A i, j \in 1..Len(order) : i < j => order[i] < order[j]
        BY DEF HistoryInv, HistoryConsistent
      <3>3. QED
        BY <1>1, <3>1, <3>2, WithoutPosition DEF Task
    <2> HIDE DEF d
    <2>3. TypeOK'
      <3>1. order' \in Seq(Task) /\ byID' \subseteq Task /\ trimAt' \in Nat
        <4>1. order' \in Seq(Task)
          BY <2>1, <2>2, Zenon
        <4>2. byID' \subseteq Task
          BY <2>1 DEF TypeOK
        <4>3. trimAt' \in Nat
          BY <1>1
        <4>4. QED
          BY <4>1, <4>2, <4>3
      <3>2. QED
        BY <3>1 DEF TypeOK
    <2>4. HistoryConsistent'
      BY <2>1, <2>2 DEF HistoryInv, HistoryConsistent
    <2>5. \A i \in 1..Len(order') : order'[i] \in 1..seq'
      <3>1. {order[i] : i \in 1..Len(order)} \subseteq 1..seq
        BY DEF HistoryInv
      <3>2. {order'[i] : i \in 1..Len(order')} \subseteq 1..seq
        BY <2>1, <2>2, <3>1
      <3>3. QED
        BY <3>2
    <2>6. LiveTasksFindable'
      BY <1>4, <2>1 DEF Trimmable, HistoryInv, LiveTasksFindable
    <2>7. QED
      BY <1>2, <2>3, <2>4, <2>5, <2>6 DEF HistoryInv
  <1>5. QED
    BY <1>3, <1>4

LEMMA SpawnKeepsIInv == IInv /\ StartSpawn => IInv'
  <1> SUFFICES ASSUME IInv, StartSpawn PROVE IInv'
    OBVIOUS
  <1> USE TaskManagerAssumption DEF IInv, StartSpawn, Task
  <1>1. seq \in Task /\ status[seq] = "queued" /\ worker[seq] = "none"
    BY DEF StartedInv, Unlocked, TypeOK
  <1>2. TypeOK'
    BY <1>1 DEF TypeOK, WorkerState
  <1>3. StartedInv'
    BY <1>1 DEF StartedInv, Unlocked, TypeOK
  <1>4. OutcomeInv'
    BY <1>1 DEF OutcomeInv, TypeOK, Terminal
  <1>5. HistoryInv'
    BY HistoryUntouched
  <1>6. QED
    BY <1>2, <1>3, <1>4, <1>5

LEMMA CallsKeepIInv ==
  ASSUME IInv, NEW t \in Task, StartReturn(t) \/ (\E p \in Reports : SetProgress(t, p)) \/ Cancel(t)
  PROVE  IInv'
  <1> USE TaskManagerAssumption DEF IInv, Task
  <1>1. CASE StartReturn(t)
    BY <1>1, HistoryUntouched DEF StartReturn, TypeOK, StartedInv, OutcomeInv, Unlocked
  <1>2. ASSUME NEW p \in Reports, SetProgress(t, p) PROVE IInv'
    <2>1. Clamp(p) \in 0..100
      BY DEF Clamp
    <2>2. QED
      BY <1>2, <2>1, HistoryUntouched DEF SetProgress, TypeOK, StartedInv, OutcomeInv, Unlocked
  <1>3. CASE Cancel(t)
    <2> USE <1>3 DEF Cancel, Cancellable
    <2>1. t \in 1..seq
      BY DEF StartedInv, TypeOK
    <2>2. TypeOK'
      BY DEF TypeOK, Status
    <2>3. StartedInv'
      BY <2>1 DEF StartedInv, TypeOK, Unlocked
    <2>4. OutcomeInv'
      BY DEF OutcomeInv, TypeOK, Terminal
    <2>5. HistoryInv'
      BY HistoryUntouched DEF TypeOK, Terminal
    <2>6. QED
      BY <2>2, <2>3, <2>4, <2>5
  <1>4. QED
    BY <1>1, <1>2, <1>3

LEMMA WorkerKeepsIInv ==
  ASSUME IInv, NEW t \in Task, WorkerSteps(t)
  PROVE  IInv'
  <1> USE TaskManagerAssumption DEF IInv, Task
  <1>1. CASE RunBegin(t)
    <2> USE <1>1 DEF RunBegin
    <2>1. status[t] \notin Terminal /\ t \in 1..seq /\ Unlocked
      BY DEF StartedInv, OutcomeInv, TypeOK, Unlocked
    <2>2. TypeOK'
      BY DEF TypeOK, Status, WorkerState
    <2>3. StartedInv'
      BY <2>1 DEF StartedInv, TypeOK, Unlocked
    <2>4. OutcomeInv'
      BY DEF OutcomeInv, TypeOK, Terminal
    <2>5. HistoryInv'
      BY <2>1, HistoryUntouched DEF TypeOK
    <2>6. QED
      BY <2>2, <2>3, <2>4, <2>5
  <1>2. ASSUME NEW r \in {"returnedOk", "returnedErr"}, OperationReturns(t, r) PROVE IInv'
    <2> USE <1>2 DEF OperationReturns
    <2>1. TypeOK'
      BY DEF TypeOK, WorkerState
    <2>2. StartedInv'
      BY DEF StartedInv, TypeOK, Unlocked
    <2>3. OutcomeInv'
      BY DEF OutcomeInv, TypeOK, Terminal
    <2>4. HistoryInv'
      BY HistoryUntouched
    <2>5. QED
      BY <2>1, <2>2, <2>3, <2>4
  <1>3. CASE RunFinish(t)
    <2> USE <1>3 DEF RunFinish
    <2>1. Outcome(t) \in Terminal /\ (Outcome(t) = "cancelled" <=> t \in cancelled)
      BY DEF Outcome, Terminal
    <2>2. t \in 1..seq
      BY DEF StartedInv, TypeOK
    <2>3. TypeOK'
      BY <2>1 DEF TypeOK, Status, WorkerState
    <2>4. StartedInv'
      BY <2>1, <2>2 DEF StartedInv, TypeOK, Unlocked, Terminal
    <2>5. OutcomeInv'
      BY <2>1 DEF OutcomeInv, TypeOK, Terminal
    <2>6. HistoryInv'
      BY <2>1, HistoryUntouched DEF TypeOK
    <2>7. QED
      BY <2>3, <2>4, <2>5, <2>6
  <1>4. QED
    BY <1>1, <1>2, <1>3 DEF WorkerSteps

LEMMA NextKeepsIInv == IInv /\ [Next]_vars => IInv'
  <1> SUFFICES ASSUME IInv, [Next]_vars PROVE IInv'
    OBVIOUS
  <1>1. CASE StartSteps
    BY <1>1, RegisterKeepsIInv, TrimKeepsIInv, SpawnKeepsIInv DEF StartSteps
  <1>2. ASSUME NEW t \in Task, WorkerSteps(t) PROVE IInv'
    BY <1>2, WorkerKeepsIInv
  <1>3. ASSUME NEW t \in Task, StartReturn(t) \/ (\E p \in Reports : SetProgress(t, p)) \/ Cancel(t)
        PROVE  IInv'
    BY <1>3, CallsKeepIInv
  <1>4. CASE UNCHANGED vars
    BY <1>4 DEF vars, IInv, TypeOK, StartedInv, OutcomeInv, Unlocked, HistoryInv,
                HistoryConsistent, LiveTasksFindable
  <1>5. QED
    BY <1>1, <1>2, <1>3, <1>4 DEF Next

\* The inductive invariant holds throughout.
LEMMA Inductive == Spec => []IInv
  BY InitIInv, NextKeepsIInv, PTL DEF Spec

-----------------------------------------------------------------------------
\* Every variable keeps its type: progress in particular stays a percentage for
\* any value an operation reports.
THEOREM TypeCorrect == Spec => []TypeOK
  BY Inductive, PTL DEF IInv

\* A task ends as cancelled exactly when a cancellation of it was accepted,
\* wherever the request fell between the worker's critical sections.
THEOREM CancellationHonoured == Spec => []CancelledExactlyWhenRequested
  <1>1. IInv => CancelledExactlyWhenRequested
    BY DEF IInv, OutcomeInv, CancelledExactlyWhenRequested
  <1>2. QED
    BY <1>1, Inductive, PTL

\* Trimming the slice while ranging over it never leaves slice and map apart.
THEOREM HistoryAlwaysConsistent == Spec => []HistoryConsistent
  <1>1. IInv => HistoryConsistent
    BY DEF IInv, HistoryInv
  <1>2. QED
    BY <1>1, Inductive, PTL

\* No unfinished task is ever trimmed, for any cap.
THEOREM LiveTasksAlwaysFindable == Spec => []LiveTasksFindable
  <1>1. IInv => LiveTasksFindable
    BY DEF IInv, HistoryInv
  <1>2. QED
    BY <1>1, Inductive, PTL

\* No step changes what was recorded of a finished task.
THEOREM TerminalNeverChanges == Spec => TerminalIsForever
  <1> DEFINE Kept == \A t \in Task : status[t] \in Terminal =>
                       /\ status'[t] = status[t]
                       /\ progress'[t] = progress[t]
                       /\ worker'[t] = worker[t]
  <1>1. IInv /\ [Next]_vars => [Kept]_vars
    <2> SUFFICES ASSUME IInv, Next PROVE Kept
      BY DEF vars
    <2> SUFFICES ASSUME NEW u \in Task, status[u] \in Terminal
                 PROVE  /\ status'[u] = status[u]
                        /\ progress'[u] = progress[u]
                        /\ worker'[u] = worker[u]
      OBVIOUS
    <2>1. worker[u] = "done" /\ u \in 1..seq /\ status[u] \notin {"queued", "running"}
      BY DEF IInv, OutcomeInv, StartedInv, TypeOK, Terminal, Task
    <2>2. CASE StartSteps
      <3>1. CASE StartRegister
        BY <2>1, <3>1 DEF StartRegister, IInv, TypeOK, Task
      <3>2. CASE TrimStep
        BY <3>2 DEF TrimStep
      <3>3. CASE StartSpawn
        <4>1. u # seq
          BY <2>1, <3>3 DEF StartSpawn, IInv, StartedInv
        <4>2. QED
          BY <3>3, <4>1 DEF StartSpawn, IInv, TypeOK
      <3>4. QED
        BY <2>2, <3>1, <3>2, <3>3 DEF StartSteps
    <2>3. ASSUME NEW t \in Task, WorkerSteps(t)
          PROVE  status'[u] = status[u] /\ progress'[u] = progress[u] /\ worker'[u] = worker[u]
      BY <2>1, <2>3 DEF WorkerSteps, RunBegin, OperationReturns, RunFinish, IInv, TypeOK
    <2>4. ASSUME NEW t \in Task, StartReturn(t) \/ Cancel(t)
          PROVE  status'[u] = status[u] /\ progress'[u] = progress[u] /\ worker'[u] = worker[u]
      BY <2>1, <2>4 DEF StartReturn, Cancel, Cancellable, IInv, TypeOK
    <2>5. ASSUME NEW t \in Task, NEW p \in Reports, SetProgress(t, p)
          PROVE  status'[u] = status[u] /\ progress'[u] = progress[u] /\ worker'[u] = worker[u]
      BY <2>1, <2>5 DEF SetProgress, IInv, TypeOK
    <2>6. QED
      BY <2>2, <2>3, <2>4, <2>5 DEF Next
  <1>2. QED
    BY <1>1, Inductive, PTL DEF Spec, TerminalIsForever

-----------------------------------------------------------------------------
(***************************************************************************)
(* Refinement: every step of the job system is a step of the life cycle or *)
(* changes no phase.                                                       *)
(***************************************************************************)
LEMMA StepRefines ==
  ASSUME IInv, IInv', [Next]_vars
  PROVE  [Lifecycle!Next]_phaseOf
  <1> USE DEF IInv, TypeOK, Task, Lifecycle!Task
  <1>1. CASE StartRegister
    <2> DEFINE t == seq + 1
    <2>1. t \in Task /\ status[t] = "none" /\ t \notin cancelled
      BY <1>1 DEF StartRegister, StartedInv
    <2>2. phaseOf[t] = "absent"
      BY <2>1 DEF phaseOf
    <2>3. ASSUME NEW u \in 1..(t - 1) PROVE phaseOf[u] # "absent"
      <3>1. u \in Task /\ u <= seq
        BY <2>1, TaskManagerAssumption
      <3>2. status[u] # "none"
        BY <3>1 DEF StartedInv
      <3>3. QED
        BY <3>1, <3>2 DEF phaseOf, Terminal
    <2>4. phaseOf' = [phaseOf EXCEPT ![t] = "open"]
      BY <1>1, <2>1 DEF phaseOf, StartRegister, Terminal
    <2>5. Lifecycle!Open(t)
      BY <2>2, <2>3, <2>4 DEF Lifecycle!Open, Lifecycle!Move
    <2>6. QED
      BY <2>1, <2>5 DEF Lifecycle!Next
  <1>2. CASE TrimStep \/ StartSpawn
    BY <1>2 DEF TrimStep, StartSpawn, phaseOf
  <1>3. ASSUME NEW t \in Task, RunBegin(t)
        PROVE  [Lifecycle!Next]_phaseOf
    <2>1. status[t] \notin Terminal \cup {"none"} /\ "running" \notin Terminal \cup {"none"}
      BY <1>3 DEF RunBegin, OutcomeInv, StartedInv, Terminal
    <2>2. phaseOf' = phaseOf
      BY <1>3, <2>1 DEF RunBegin, phaseOf
    <2>3. QED
      BY <2>2
  <1>4. ASSUME NEW t \in Task, RunFinish(t)
        PROVE  [Lifecycle!Next]_phaseOf
    <2>1. status[t] \notin Terminal \cup {"none"}
      BY <1>4 DEF RunFinish, OutcomeInv, StartedInv, Terminal
    <2>2. phaseOf[t] = IF t \in cancelled THEN "stopping" ELSE "open"
      BY <2>1 DEF phaseOf
    <2>3. phaseOf' = [phaseOf EXCEPT ![t] = Outcome(t)]
      BY <1>4, <2>1 DEF RunFinish, phaseOf, Outcome, Terminal
    <2>4. Lifecycle!End(t)
      BY <2>2, <2>3 DEF Lifecycle!End, Lifecycle!Move, Outcome
    <2>5. QED
      BY <2>4 DEF Lifecycle!Next
  <1>5. ASSUME NEW t \in Task, Cancel(t)
        PROVE  [Lifecycle!Next]_phaseOf
    <2>1. status[t] \notin Terminal \cup {"none"} /\ t \notin cancelled => phaseOf[t] = "open"
      BY DEF phaseOf
    <2>2. status[t] \notin Terminal \cup {"none"} /\ "cancelling" \notin Terminal \cup {"none"}
      BY <1>5 DEF Cancel, Cancellable, Terminal
    <2>3. CASE t \in cancelled
      <3>1. phaseOf' = phaseOf
        BY <1>5, <2>2, <2>3 DEF Cancel, phaseOf
      <3>2. QED
        BY <3>1
    <2>4. CASE t \notin cancelled
      <3>1. phaseOf' = [phaseOf EXCEPT ![t] = "stopping"]
        BY <1>5, <2>2 DEF Cancel, phaseOf
      <3>2. QED
        BY <2>1, <2>2, <2>4, <3>1 DEF Lifecycle!AskToStop, Lifecycle!Move, Lifecycle!Next
    <2>5. QED
      BY <2>3, <2>4
  <1>6. ASSUME NEW t \in Task,
               \/ StartReturn(t)
               \/ \E p \in Reports : SetProgress(t, p)
               \/ \E r \in {"returnedOk", "returnedErr"} : OperationReturns(t, r)
        PROVE  [Lifecycle!Next]_phaseOf
    BY <1>6 DEF StartReturn, SetProgress, OperationReturns, phaseOf
  <1>7. CASE UNCHANGED vars
    BY <1>7 DEF vars, phaseOf
  <1>8. QED
    BY <1>1, <1>2, <1>3, <1>4, <1>5, <1>6, <1>7 DEF Next, StartSteps, WorkerSteps

\* The job system implements the safety part of the life cycle: a task opens
\* once, in order, ends once, and ends as cancelled only after it was asked to.
THEOREM RefinesLifecycle == Spec => Lifecycle!SafeSpec
  <1>1. Init => Lifecycle!Init
    BY DEF Init, Lifecycle!Init, phaseOf, Task, Lifecycle!Task
  <1>2. QED
    BY <1>1, Inductive, StepRefines, PTL DEF Spec, Lifecycle!SafeSpec

-----------------------------------------------------------------------------
(***************************************************************************)
(* The size of the history                                                 *)
(***************************************************************************)

Within(n) == n <= MaxHistory \/ n <= peak

PeakInv == peak \in Nat /\ Cardinality(Unfinished) <= peak

\* While Start trims, at most its own task is too many, and what the loop has
\* passed is unfinished.
SizeInv ==
  \/ Within(Len(order))
  \/ /\ ~Unlocked
     /\ Within(Len(order) - 1)
     /\ \A i \in 1..Len(order) : i < trimAt => status[order[i]] \notin Terminal

LEMMA UnfinishedCounted ==
  ASSUME TypeOK
  PROVE  IsFiniteSet(Unfinished) /\ Cardinality(Unfinished) \in Nat
  <1>1. IsFiniteSet(1..seq) /\ Unfinished \subseteq 1..seq
    BY FS_Interval DEF TypeOK, Unfinished
  <1>2. QED
    BY <1>1, FS_Subset, FS_CardinalityType

\* A history of unfinished tasks only is no larger than the peak.
LEMMA UnfinishedFit ==
  ASSUME IInv, PeakInv, \A i \in 1..Len(order) : status[order[i]] \notin Terminal
  PROVE  Len(order) <= peak
  <1> DEFINE f == [i \in 1..Len(order) |-> order[i]]
  <1>1. order \in Seq(Task) /\ Len(order) \in Nat
    BY DEF IInv, TypeOK
  <1>2. /\ \A i \in 1..Len(order) : order[i] \in Unfinished
        /\ \A i, j \in 1..Len(order) : order[i] = order[j] => i = j
    <2>1. \A i \in 1..Len(order) : order[i] \in 1..seq
      BY DEF IInv, HistoryInv
    <2>2. \A i \in 1..Len(order) : order[i] \in Int
      BY <1>1, <2>1 DEF Task
    <2>3. \A i, j \in 1..Len(order) : i < j => order[i] < order[j]
      BY DEF IInv, HistoryInv, HistoryConsistent
    <2>4. \A i, j \in 1..Len(order) : order[i] = order[j] => i = j
      BY <1>1, <2>2, <2>3
    <2>5. QED
      BY <2>1, <2>4 DEF Unfinished
  <1>3. f \in Injection(1..Len(order), Unfinished)
    <2>1. f \in [1..Len(order) -> Unfinished] /\ DOMAIN f = 1..Len(order)
      BY <1>2
    <2>2. \A i, j \in 1..Len(order) : f[i] = f[j] => i = j
      BY <1>2
    <2> HIDE DEF f
    <2>3. QED
      BY <2>1, <2>2 DEF Injection, IsInjective
  <1>4. Cardinality(1..Len(order)) = Len(order)
    <2>1. ASSUME NEW n \in Nat PROVE Cardinality(1..n) = n
      BY FS_Interval
    <2>2. QED
      BY <1>1, <2>1
  <1>5. IsFiniteSet(Unfinished) /\ Cardinality(Unfinished) \in Nat
    BY UnfinishedCounted DEF IInv
  <1>6. Cardinality(1..Len(order)) <= Cardinality(Unfinished)
    BY <1>3, <1>5, FS_Injection
  <1>7. QED
    BY <1>1, <1>4, <1>5, <1>6 DEF PeakInv

\* What was within the bound stays so: the peak only grows.
LEMMA PeakGrows ==
  ASSUME PeakInv, TypeOK', MCNext
  PROVE  /\ PeakInv' /\ peak <= peak'
         /\ \A n \in Int : Within(n) => n <= MaxHistory \/ n <= peak'
  <1>1. Cardinality(Unfinished') \in Nat
    <2>1. IsFiniteSet(1..seq') /\ Unfinished' \subseteq 1..seq'
      BY FS_Interval DEF TypeOK, Unfinished
    <2>2. QED
      BY <2>1, FS_Subset, FS_CardinalityType
  <1>2. peak' = IF Cardinality(Unfinished') > peak THEN Cardinality(Unfinished') ELSE peak
    BY DEF MCNext
  <1>3. QED
    BY <1>1, <1>2 DEF PeakInv, Within

\* The bound with the peak a step leaves.
Fits(n) == n <= MaxHistory \/ n <= peak'

LEMMA SizeKept ==
  ASSUME IInv, PeakInv, SizeInv, IInv', MCNext
  PROVE  PeakInv' /\ SizeInv'
  <1>1. PeakInv' /\ peak \in Nat /\ peak' \in Nat /\ peak <= peak' /\ MaxHistory \in Nat
    BY PeakGrows, TaskManagerAssumption DEF IInv, PeakInv
  <1> SUFFICES SizeInv'
    BY <1>1
  <1>2. \A n \in Int : Within(n) => Fits(n)
    BY PeakGrows DEF IInv, Fits
  <1>3. order \in Seq(Task) /\ Len(order) \in Nat /\ trimAt \in Nat
    BY DEF IInv, TypeOK
  <1>4. /\ Fits(Len(order')) => SizeInv'
        /\ /\ trimAt' # 0 /\ Fits(Len(order') - 1)
           /\ \A i \in 1..Len(order') : i < trimAt' => status'[order'[i]] \notin Terminal
           => SizeInv'
    BY DEF SizeInv, Within, Unlocked, Fits
  <1>5. CASE StartRegister
    <2>1. Fits(Len(order)) /\ trimAt' = 1
      BY <1>2, <1>3, <1>5 DEF SizeInv, StartRegister
    <2>2. Len(order') = Len(order) + 1
      <3>1. seq + 1 \in Task /\ order' = Append(order, seq + 1)
        BY <1>5, TaskManagerAssumption DEF StartRegister, IInv, TypeOK, Task
      <3>2. QED
        BY <1>3, <3>1
    <2>3. QED
      BY <1>3, <1>4, <2>1, <2>2
  <1>6. CASE TrimStep
    <2>1. /\ trimAt # 0 /\ Len(order) > MaxHistory /\ trimAt <= Len(order)
          /\ trimAt' = trimAt + 1 /\ status' = status
      BY <1>1, <1>3, <1>6 DEF TrimStep, TrimDone, Unlocked
    <2>2. Within(Len(order) - 1)
      BY <1>1, <1>3 DEF SizeInv, Within
    <2>3. CASE Trimmable(order[trimAt])
      <3>1. order' = Without(order, trimAt)
        BY <1>6, <2>3 DEF TrimStep, DropLocked
      <3>2. Len(order') = Len(order) - 1
        BY <1>3, <2>1, <3>1 DEF Without
      <3>3. QED
        BY <1>2, <1>3, <1>4, <2>2, <3>2
    <2>4. CASE ~Trimmable(order[trimAt])
      <3>1. order' = order
        BY <1>6, <2>4 DEF TrimStep
      <3>2. CASE Within(Len(order))
        BY <1>2, <1>3, <1>4, <3>1, <3>2
      <3>3. CASE ~Within(Len(order))
        <4>1. \A i \in 1..Len(order) : i < trimAt => status[order[i]] \notin Terminal
          BY <3>3 DEF SizeInv
        <4>2. \A i \in 1..Len(order) : i < trimAt' => status'[order'[i]] \notin Terminal
          BY <1>3, <2>1, <2>4, <3>1, <4>1 DEF Trimmable
        <4>3. QED
          BY <1>2, <1>3, <1>4, <2>1, <2>2, <3>1, <4>2
      <3>4. QED
        BY <3>2, <3>3
    <2>5. QED
      BY <2>3, <2>4
  <1>7. CASE StartSpawn
    <2>1. order' = order /\ trimAt # 0 /\ (Len(order) <= MaxHistory \/ trimAt > Len(order))
      BY <1>7 DEF StartSpawn, TrimDone, Unlocked
    <2>2. Within(Len(order))
      <3>1. CASE Len(order) <= MaxHistory
        BY <3>1 DEF Within
      <3>2. CASE trimAt > Len(order) /\ ~Within(Len(order))
        <4>1. \A i \in 1..Len(order) : status[order[i]] \notin Terminal
          BY <1>3, <3>2 DEF SizeInv
        <4>2. QED
          BY <4>1, UnfinishedFit DEF Within
      <3>3. QED
        BY <2>1, <3>1, <3>2
    <2>3. QED
      BY <1>2, <1>3, <1>4, <2>1, <2>2
  <1>8. CASE UNCHANGED <<order, trimAt, status>>
    BY <1>2, <1>3, <1>4, <1>8 DEF SizeInv, Unlocked
  <1>9. CASE UNCHANGED <<order, trimAt>> /\ Unlocked
    BY <1>2, <1>3, <1>4, <1>9 DEF SizeInv
  <1>10. ASSUME NEW t \in Task,
                StartReturn(t) \/ WorkerSteps(t) \/ (\E p \in Reports : SetProgress(t, p)) \/ Cancel(t)
         PROVE  UNCHANGED <<order, trimAt, status>> \/ (UNCHANGED <<order, trimAt>> /\ Unlocked)
    BY <1>10 DEF StartReturn, WorkerSteps, RunBegin, OperationReturns, RunFinish, SetProgress, Cancel
  <1>11. QED
    BY <1>1, <1>5, <1>6, <1>7, <1>8, <1>9, <1>10 DEF MCNext, Next, StartSteps

\* Outside the trimming loop the history is within the cap, or as large as the
\* most tasks that were ever unfinished at once: although a drop makes the loop
\* skip the task behind it, each Start that finds one finished drops one.
THEOREM HistoryStaysBounded == MCSpec => []HistoryBounded
  <1> DEFINE HInv == IInv /\ PeakInv /\ SizeInv
  <1>1. MCInit => HInv
    <2> SUFFICES ASSUME MCInit PROVE HInv
      OBVIOUS
    <2>1. IInv
      BY InitIInv DEF MCInit
    <2>2. Unfinished = {} /\ Len(order) = 0 /\ peak = 0
      BY DEF MCInit, Init, Unfinished
    <2>3. QED
      BY <2>1, <2>2, FS_EmptySet DEF PeakInv, SizeInv, Within
  <1>2. HInv /\ [MCNext]_<<vars, peak>> => HInv'
    <2>1. ASSUME HInv, MCNext PROVE HInv'
      <3>1. IInv'
        BY <2>1, NextKeepsIInv DEF MCNext
      <3>2. QED
        BY <2>1, <3>1, SizeKept
    <2>2. ASSUME HInv, UNCHANGED <<vars, peak>> PROVE HInv'
      <3>1. IInv'
        BY <2>2, NextKeepsIInv
      <3>2. PeakInv' /\ SizeInv'
        BY <2>2 DEF vars, PeakInv, SizeInv, Within, Unlocked, Unfinished
      <3>3. QED
        BY <3>1, <3>2
    <2>3. QED
      BY <2>1, <2>2
  <1>3. HInv => HistoryBounded
    BY DEF SizeInv, Within, HistoryBounded
  <1>4. QED
    BY <1>1, <1>2, <1>3, PTL DEF MCSpec

=============================================================================

----------------------------- MODULE MCScheduler -----------------------------
(***************************************************************************)
(* Model checking of Scheduler, with a record of the moments at which a    *)
(* mark was lost or not seen: one schedule that everything happens to, or  *)
(* two that compete for the one admitted run.                              *)
(***************************************************************************)
EXTENDS Scheduler

CONSTANT FirstName  \* the name of the first schedule

VARIABLE unseen   \* schedules for which a mark was lost or not seen

LastOf(l, id) == IF id \in Ids(l) THEN Get(l, id).last ELSE Never

\* A step of these takes an older lastRun for the current one: it stores one
\* over it, or starts a run from a copy that does not have it.
MarkLost(id)   == LastOf(list', id) < LastOf(list, id)
StaleStart(id) ==
  /\ run.pc = "idle" /\ run'.pc = "running" /\ run'.sch.id = id
  /\ id \notin Ids(list) \/ run'.sch.last # LastOf(list, id)

\* A restart forgets the run in progress and what is not in the file.
CutOff(id) ==
  /\ crashes' # crashes
  /\ \/ run.pc # "idle" /\ run.sch.id = id
     \/ LastOf(list, id) # LastOf(file, id)
     \/ id \in Ids(file) \ Ids(list)

\* Bounds.  Names are interchangeable: the first schedule has the first.  Before
\* the second is made every run resolves its targets; from then on, and after a
\* restart, no save fails and nothing is updated.  The second is made while the
\* first is there and has not run.  On the second day the loop and the runs go
\* on, and schedules are deleted, but no call changes one, and there was no
\* failed save or restart.
Bounded ==
  /\ \A c \in Creates : op'[c].pc = "checked" => (op'[c].sch.name = FirstName <=> op'[c].sch.id = 1)
  /\ made' # made => \A id \in 1..made : id \in Ids(list) /\ \A s \in Slot : taken[id][s] = 0
  /\ outages' # 0 => made' = MaxSchedules
  /\ made' = MaxSchedules => faults' = 0 /\ crashes' = 0 /\ \A u \in Updates : op'[u] = NoOp
  /\ crashes' # 0 => faults' = faults /\ \A u \in Updates : op'[u] = NoOp
  /\ clock' > DayLen => made' = made /\ faults' = 0 /\ crashes' = 0 /\ \A c \in Call : op'[c] = NoOp

Records == unseen' = unseen \cup {id \in Id : MarkLost(id) \/ StaleStart(id) \/ CutOff(id)}

HInit == Init /\ unseen = {}
HNext ==
  /\ Next
  /\ Bounded
  /\ Records
HSpec == HInit /\ [][HNext]_<<vars, unseen>>
HFairSpec == HSpec /\ WF_vars(Tick) /\ WF_vars(Run)

\* An occurrence is backed up twice only if a mark was lost to a concurrent
\* update, a failed save or a restart, or not seen by a tick that had copied the
\* list before it: due and markRun leave no other way.
RefiredOnlyUnseen == \A id \in Id \ unseen : \A s \in Slot : taken[id][s] <= 1

=============================================================================

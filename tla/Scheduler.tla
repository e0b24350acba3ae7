------------------------------ MODULE Scheduler ------------------------------
(***************************************************************************)
(* Recurring backups (internal/scheduler/scheduler.go): the store of       *)
(* schedules in memory and in its file, the calls that change it, the run  *)
(* loop that fires what is due, and the run that backs up and then marks.  *)
(*                                                                         *)
(* Every method of the store is one step under its mutex; what callers do  *)
(* between two of them is not protected by anything.  The clock counts     *)
(* slots, DayLen of them to a day, from 1.  A schedule's targets, type and *)
(* retention are opaque: a run's backups are one step, recorded in taken.  *)
(***************************************************************************)
EXTENDS Naturals, Sequences

CONSTANTS
  MaxSchedules,  \* bound: schedules ever created
  Names,         \* names of schedules
  DayLen,        \* slots of a day
  MaxClock,      \* bound: slots
  MaxCrashes,    \* bound: restarts of the server
  MaxFaults,     \* bound: saves that fail
  MaxOutages,    \* bound: runs that cannot resolve their targets
  Creates, Updates  \* the concurrent calls of each kind

ASSUME SchedulerAssumption ==
  /\ {MaxSchedules, DayLen, MaxClock} \subseteq Nat \ {0}
  /\ {MaxCrashes, MaxFaults, MaxOutages} \subseteq Nat

VARIABLES
  list,     \* Store.list
  file,     \* the schedules in the file
  made,     \* schedules created so far
  gone,     \* schedules whose deletion was acknowledged
  tick,     \* the run loop: the tick being handled
  run,      \* the run that holds runMu
  op,       \* call -> where it is
  taken,    \* schedule -> how often each occurrence was backed up
  clock, crashes, faults, outages

store == <<list, file, made, gone>>
env == <<clock, crashes, faults, outages>>
vars == <<store, tick, run, op, taken, env>>

Id   == 1..MaxSchedules
Time == 1..DayLen
Slot == 1..(MaxClock + DayLen)
Call == Creates \cup Updates

Never == 0

Schedule == [id : Id, name : Names, time : Time, enabled : BOOLEAN,
             last : 0..MaxClock, created : 1..MaxClock]
None == [id |-> 0]

NoTick == [pc |-> "idle", now |-> 1, todo |-> <<>>]
NoRun  == [pc |-> "idle", now |-> 1, sch |-> None, read |-> None]
NoOp   == [pc |-> "idle", sch |-> None]

\* A list of schedules, one per identifier.
WellFormed(l) ==
  /\ l \in Seq(Schedule)
  /\ \A i, j \in DOMAIN l : l[i].id = l[j].id => i = j

TypeOK ==
  /\ WellFormed(list) /\ WellFormed(file)
  /\ made \in 0..MaxSchedules
  /\ gone \subseteq Id
  /\ tick \in [pc : {"idle", "ticking"}, now : 1..MaxClock, todo : Seq(Schedule)]
  /\ run \in [pc : {"idle", "running", "marking", "replacing", "unlocking"},
             now : 1..MaxClock, sch : Schedule \cup {None}, read : Schedule \cup {None}]
  /\ op \in [Call -> [pc : {"idle", "checked", "read"}, sch : Schedule \cup {None}]]
  /\ taken \in [Id -> [Slot -> 0..2]]
  /\ clock \in 1..MaxClock
  /\ crashes \in 0..MaxCrashes /\ faults \in 0..MaxFaults /\ outages \in 0..MaxOutages

Init ==
  /\ list = <<>> /\ file = <<>>
  /\ made = 0 /\ gone = {}
  /\ tick = NoTick /\ run = NoRun
  /\ op = [c \in Call |-> NoOp]
  /\ taken = [i \in Id |-> [s \in Slot |-> 0]]
  /\ clock = 1 /\ crashes = 0 /\ faults = 0 /\ outages = 0

-----------------------------------------------------------------------------
(***************************************************************************)
(* The store                                                               *)
(***************************************************************************)

Ids(l) == {l[i].id : i \in DOMAIN l}

\* The position of an identifier the list has.
Position(l, id) == CHOOSE i \in DOMAIN l : l[i].id = id

\* Get, for an identifier the list has.
Get(l, id) == l[Position(l, id)]

\* Remove: the list without that position.
Removed(l, id) ==
  LET k == Position(l, id)
  IN  [i \in 1..(Len(l) - 1) |-> IF i < k THEN l[i] ELSE l[i + 1]]

\* The list changes and is saved; a save that fails leaves the change in memory.
SaveWorks(l) == list' = l /\ file' = l /\ UNCHANGED faults
SaveFails(l) == list' = l /\ UNCHANGED file /\ faults < MaxFaults /\ faults' = faults + 1

Replaced(l, s) == [i \in DOMAIN l |-> IF l[i].id = s.id THEN s ELSE l[i]]

MutReplace(s) ==
  LET l == IF s.id \in Ids(list) THEN Replaced(list, s) ELSE Append(list, s)
  IN  SaveWorks(l) \/ SaveFails(l)

\* A schedule takes its old one's place; one that is gone is not stored, nor is
\* anything saved.
Replace(s) ==
  IF s.id \in Ids(list)
  THEN SaveWorks(Replaced(list, s)) \/ SaveFails(Replaced(list, s))
  ELSE UNCHANGED <<list, file, faults>>

-----------------------------------------------------------------------------
(***************************************************************************)
(* Create, Update, Delete                                                  *)
(***************************************************************************)

\* The name is looked up in a copy of the list.
CreateCheck(c, name, time) ==
  /\ op[c].pc = "idle"
  /\ made < MaxSchedules
  /\ \A i \in DOMAIN list : list[i].name # name
  /\ made' = made + 1
  /\ op' = [op EXCEPT ![c] =
              [pc |-> "checked",
               sch |-> [id |-> made + 1, name |-> name, time |-> time, enabled |-> TRUE,
                        last |-> Never, created |-> clock]]]
  /\ UNCHANGED <<list, file, gone, tick, run, taken, env>>

CreateAppend(c) ==
  /\ op[c].pc = "checked"
  /\ \/ SaveWorks(Append(list, op[c].sch))
     \/ SaveFails(Append(list, op[c].sch))
  /\ op' = [op EXCEPT ![c] = NoOp]
  /\ UNCHANGED <<made, gone, tick, run, taken, clock, crashes, outages>>

\* The schedule is read and the request applied to the copy.
UpdateRead(c, id) ==
  /\ op[c].pc = "idle"
  /\ id \in Ids(list)
  /\ \E s \in {[Get(list, id) EXCEPT !.enabled = ~@]}
          \cup {[Get(list, id) EXCEPT !.time = t] : t \in Time} :
       op' = [op EXCEPT ![c] = [pc |-> "read", sch |-> s]]
  /\ UNCHANGED <<store, tick, run, taken, env>>

UpdateReplace(c) ==
  /\ op[c].pc = "read"
  /\ Replace(op[c].sch)
  /\ op' = [op EXCEPT ![c] = NoOp]
  /\ UNCHANGED <<made, gone, tick, run, taken, clock, crashes, outages>>

\* A deletion whose save fails is answered as not found.
Delete(id) ==
  /\ id \in Ids(list)
  /\ \/ SaveWorks(Removed(list, id)) /\ gone' = gone \cup {id}
     \/ SaveFails(Removed(list, id)) /\ UNCHANGED gone
  /\ UNCHANGED <<made, tick, run, op, taken, clock, crashes, outages>>

-----------------------------------------------------------------------------
(***************************************************************************)
(* The run loop                                                            *)
(***************************************************************************)

\* Today's occurrence of a schedule.
Today(s, now) == ((now - 1) \div DayLen) * DayLen + s.time

MutDue(s, now) ==
  now >= Today(s, now) /\ (s.last # Never => s.last <= Today(s, now))
    /\ (s.last = Never => s.created <= Today(s, now))

\* due: past today's time, and not run since; a schedule that never ran is due
\* if it existed at that time.
Due(s, now) ==
  /\ now >= Today(s, now)
  /\ IF s.last # Never THEN s.last < Today(s, now) ELSE s.created <= Today(s, now)

\* A tick reads the clock and works on a copy of the list.
TickBegin ==
  /\ tick.pc = "idle"
  /\ list # <<>>
  /\ tick' = [pc |-> "ticking", now |-> clock, todo |-> list]
  /\ UNCHANGED <<store, run, op, taken, env>>

\* A schedule that is due while runMu is held is skipped; otherwise a goroutine
\* runs the copy.
TickStep ==
  /\ tick.pc = "ticking"
  /\ LET s == Head(tick.todo) IN
       run' = IF s.enabled /\ Due(s, tick.now) /\ run.pc = "idle"
              THEN [pc |-> "running", now |-> tick.now, sch |-> s, read |-> None]
              ELSE run
  /\ tick' = IF Len(tick.todo) = 1 THEN NoTick ELSE [tick EXCEPT !.todo = Tail(@)]
  /\ UNCHANGED <<store, op, taken, env>>

MutRunUnresolved ==
  /\ run.pc = "running" /\ outages < MaxOutages
  /\ outages' = outages + 1
  /\ run' = [run EXCEPT !.pc = "stuck"]
  /\ UNCHANGED <<store, tick, op, taken, clock, crashes, faults>>

\* The targets cannot be listed: the run ends without a mark.
RunUnresolved ==
  /\ run.pc = "running" /\ outages < MaxOutages
  /\ outages' = outages + 1
  /\ run' = [run EXCEPT !.pc = "unlocking"]
  /\ UNCHANGED <<store, tick, op, taken, clock, crashes, faults>>

\* Every target is backed up and pruned, or fails and is logged.
RunBackups ==
  /\ run.pc = "running"
  /\ taken' = [taken EXCEPT ![run.sch.id][Today(run.sch, run.now)] = IF @ < 2 THEN @ + 1 ELSE 2]
  /\ run' = [run EXCEPT !.pc = "marking"]
  /\ UNCHANGED <<store, tick, op, env>>

\* markRun reads the schedule, if it still exists ...
MarkGet ==
  /\ run.pc = "marking"
  /\ run' = IF run.sch.id \in Ids(list)
            THEN [run EXCEPT !.pc = "replacing", !.read = Get(list, run.sch.id)]
            ELSE [run EXCEPT !.pc = "unlocking"]
  /\ UNCHANGED <<store, tick, op, taken, env>>

\* ... and stores what it read with the time of the tick.
MarkReplace ==
  /\ run.pc = "replacing"
  /\ Replace([run.read EXCEPT !.last = run.now])
  /\ run' = [run EXCEPT !.pc = "unlocking"]
  /\ UNCHANGED <<made, gone, tick, op, taken, clock, crashes, outages>>

RunUnlock ==
  /\ run.pc = "unlocking"
  /\ run' = NoRun
  /\ UNCHANGED <<store, tick, op, taken, env>>

-----------------------------------------------------------------------------
(***************************************************************************)
(* Time and restarts                                                       *)
(***************************************************************************)

Advance ==
  /\ clock < MaxClock
  /\ clock' = clock + 1
  /\ UNCHANGED <<store, tick, run, op, taken, crashes, faults, outages>>

\* The process dies with its calls and its run, and Open reads the file.
Crash ==
  /\ crashes < MaxCrashes
  /\ crashes' = crashes + 1
  /\ list' = file
  /\ tick' = NoTick /\ run' = NoRun
  /\ op' = [c \in Call |-> NoOp]
  /\ UNCHANGED <<file, made, gone, taken, clock, faults, outages>>

Tick == TickBegin \/ TickStep

Run == RunUnresolved \/ RunBackups \/ MarkGet \/ MarkReplace \/ RunUnlock

Next ==
  \/ \E c \in Creates : CreateAppend(c) \/ \E n \in Names, t \in Time : CreateCheck(c, n, t)
  \/ \E c \in Updates : UpdateReplace(c) \/ \E id \in Id : UpdateRead(c, id)
  \/ \E id \in Id : Delete(id)
  \/ Tick \/ Run \/ Advance \/ Crash

Spec == Init /\ [][Next]_vars

\* The ticker fires every 30 seconds and the loop and the run are goroutines.
FairSpec == Spec /\ WF_vars(Tick) /\ WF_vars(Run)

-----------------------------------------------------------------------------
(***************************************************************************)
(* Properties                                                              *)
(***************************************************************************)

\* A deleted schedule never comes back, neither in memory nor after a restart:
\* an update or a mark that read it before does not store it again (Replace).
DeletedStaysDeleted == gone \cap (Ids(list) \cup Ids(file)) = {}

\* No enabled schedule stays due: its occurrence is run and marked, or it is
\* changed or deleted, or its day ends, although one run at a time is admitted
\* and a run may fail to resolve its targets.  An occurrence that still waits at
\* midnight for another schedule's run is dropped, since due asks for the time of
\* today; the schedule is due again at the time of the next day, and served then.
Pending(id) ==
  id \in Ids(list) /\ Get(list, id).enabled /\ Due(Get(list, id), clock)

DueIsServed == \A id \in Id : Pending(id) ~> ~Pending(id)

\* The package comment: lastRun prevents re-firing the same occurrence.
FiresOncePerOccurrence == \A id \in Id : \A s \in Slot : taken[id][s] <= 1

=============================================================================

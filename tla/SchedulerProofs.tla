--------------------------- MODULE SchedulerProofs ---------------------------
(***************************************************************************)
(* Theorems about the scheduler, for any number of schedules, concurrent   *)
(* calls, failed saves and restarts.                                       *)
(***************************************************************************)
EXTENDS MCScheduler, SequenceTheorems, TLAPS

\* Where a call or the run is tells that it holds a schedule.
HoldInv ==
  /\ tick.pc = "ticking" => tick.todo # <<>>
  /\ run.pc \in {"running", "marking"} => run.sch \in Schedule
  /\ run.pc = "replacing" => run.read \in Schedule
  /\ \A c \in Call : op[c].pc # "idle" => op[c].sch \in Schedule

Seen == Ids(list) \cup Ids(file) \cup gone

\* Identifiers are given once: what is known was made, and what a create is
\* about to append is not known yet and differs from what another one appends.
IdInv ==
  /\ Seen \subseteq 1..made
  /\ \A c \in Creates : op[c].pc = "checked" => op[c].sch.id \in (1..made) \ Seen
  /\ \A c, d \in Creates :
       c # d /\ op[c].pc = "checked" /\ op[d].pc = "checked" => op[c].sch.id # op[d].sch.id
  /\ DeletedStaysDeleted

IInv == TypeOK /\ HoldInv /\ IdInv

-----------------------------------------------------------------------------
(***************************************************************************)
(* The operators on lists                                                  *)
(***************************************************************************)

LEMMA PositionFound ==
  ASSUME NEW l \in Seq(Schedule), NEW id \in Ids(l)
  PROVE  /\ Position(l, id) \in 1..Len(l)
         /\ l[Position(l, id)].id = id
         /\ Get(l, id) \in Schedule
         /\ Get(l, id).id = id
  <1>1. PICK i \in DOMAIN l : l[i].id = id
    BY DEF Ids
  <1>2. Position(l, id) \in DOMAIN l /\ l[Position(l, id)].id = id
    BY <1>1 DEF Position
  <1>3. QED
    BY <1>2 DEF Get

LEMMA ReplacedKeepsIds ==
  ASSUME NEW l, WellFormed(l), NEW s \in Schedule
  PROVE  WellFormed(Replaced(l, s)) /\ Ids(Replaced(l, s)) = Ids(l)
  <1> DEFINE r == Replaced(l, s)
  <1>1. l \in Seq(Schedule)
    BY DEF WellFormed
  <1>2. r \in Seq(Schedule) /\ DOMAIN r = DOMAIN l
    BY <1>1 DEF Replaced
  <1>3. \A i \in DOMAIN l : r[i].id = l[i].id
    BY DEF Replaced
  <1>4. WellFormed(r)
    BY <1>2, <1>3 DEF WellFormed
  <1>5. Ids(r) = Ids(l)
    BY <1>2, <1>3 DEF Ids
  <1>6. QED
    BY <1>4, <1>5

LEMMA RemovedLosesId ==
  ASSUME NEW l, WellFormed(l), NEW id \in Ids(l)
  PROVE  WellFormed(Removed(l, id)) /\ Ids(Removed(l, id)) = Ids(l) \ {id}
  <1> DEFINE k == Position(l, id)
             r == Removed(l, id)
  <1>1. l \in Seq(Schedule) /\ Len(l) \in Nat /\ DOMAIN l = 1..Len(l)
    BY DEF WellFormed
  <1>2. k \in 1..Len(l) /\ l[k].id = id
    BY <1>1, PositionFound
  <1> HIDE DEF k
  <1>3. r = [i \in 1..(Len(l) - 1) |-> IF i < k THEN l[i] ELSE l[i + 1]]
    BY DEF Removed, k
  <1> HIDE DEF r
  <1>4. /\ r \in Seq(Schedule) /\ Len(r) = Len(l) - 1
        /\ DOMAIN r = 1..(Len(l) - 1)
        /\ \A i \in 1..(Len(l) - 1) : r[i] = IF i < k THEN l[i] ELSE l[i + 1]
    BY <1>1, <1>2, <1>3
  <1> DEFINE from(i) == IF i < k THEN i ELSE i + 1
  <1>a. \A i, j \in 1..(Len(l) - 1) :
          from(i) \in (1..Len(l)) \ {k} /\ (from(i) = from(j) => i = j)
    BY <1>1, <1>2
  <1>b. \A i \in 1..(Len(l) - 1) : r[i] = l[from(i)]
    BY <1>4
  <1>c. \A i, j \in 1..Len(l) : l[i].id = l[j].id => i = j
    BY <1>1 DEF WellFormed
  <1> HIDE DEF from
  <1>5. WellFormed(r)
    BY <1>4, <1>a, <1>b, <1>c DEF WellFormed
  <1>6. Ids(r) \subseteq Ids(l) \ {id}
    BY <1>1, <1>2, <1>4, <1>a, <1>b, <1>c DEF Ids
  <1>7. ASSUME NEW x \in Ids(l) \ {id} PROVE x \in Ids(r)
    <2>1. PICK j \in 1..Len(l) : l[j].id = x
      BY <1>1 DEF Ids
    <2>2. j # k
      BY <1>2, <2>1
    <2>3. CASE j < k
      BY <1>1, <1>2, <1>4, <2>1, <2>3 DEF Ids
    <2>4. CASE j > k
      <3>1. j - 1 \in 1..(Len(l) - 1) /\ r[j - 1] = l[j]
        BY <1>1, <1>2, <1>4, <2>4
      <3>2. QED
        BY <1>4, <2>1, <3>1 DEF Ids
    <2>5. QED
      BY <1>1, <1>2, <2>2, <2>3, <2>4
  <1>8. QED
    BY <1>5, <1>6, <1>7 DEF r

LEMMA AppendAddsId ==
  ASSUME NEW l, WellFormed(l), NEW s \in Schedule, s.id \notin Ids(l)
  PROVE  WellFormed(Append(l, s)) /\ Ids(Append(l, s)) = Ids(l) \cup {s.id}
  <1> DEFINE r == Append(l, s)
  <1>1. l \in Seq(Schedule) /\ Len(l) \in Nat /\ DOMAIN l = 1..Len(l)
    BY DEF WellFormed
  <1>2. /\ r \in Seq(Schedule) /\ Len(r) = Len(l) + 1 /\ DOMAIN r = 1..(Len(l) + 1)
        /\ \A i \in 1..Len(l) : r[i] = l[i]
        /\ r[Len(l) + 1] = s
    BY <1>1
  <1> HIDE DEF r
  <1>3. \A i \in 1..Len(l) : l[i].id # s.id
    BY <1>1 DEF Ids
  <1>4. WellFormed(r)
    BY <1>1, <1>2, <1>3 DEF WellFormed
  <1>5. Ids(r) = Ids(l) \cup {s.id}
    BY <1>1, <1>2 DEF Ids
  <1>6. QED
    BY <1>4, <1>5 DEF r

-----------------------------------------------------------------------------
(***************************************************************************)
(* The invariant                                                           *)
(***************************************************************************)

LEMMA InitIInv == Init => IInv
  <1> SUFFICES ASSUME Init PROVE IInv
    OBVIOUS
  <1> USE SchedulerAssumption DEF Init, NoTick, NoRun, NoOp
  <1>1. TypeOK
    BY DEF TypeOK, WellFormed, Call
  <1>2. HoldInv
    BY DEF HoldInv
  <1>3. IdInv
    BY DEF IdInv, Seen, Ids, DeletedStaysDeleted, Call
  <1>4. QED
    BY <1>1, <1>2, <1>3 DEF IInv

\* What a save leaves in memory and in the file.
LEMMA Saved ==
  ASSUME TypeOK, NEW l, WellFormed(l), SaveWorks(l) \/ SaveFails(l)
  PROVE  /\ WellFormed(list') /\ WellFormed(file')
         /\ faults' \in 0..MaxFaults
         /\ Ids(list') = Ids(l)
         /\ Ids(file') \in {Ids(l), Ids(file)}
  <1> USE SchedulerAssumption
  <1>1. CASE SaveWorks(l)
    BY <1>1 DEF SaveWorks, TypeOK
  <1>2. CASE SaveFails(l)
    BY <1>2 DEF SaveFails, TypeOK
  <1>3. QED
    BY <1>1, <1>2

\* Replacing a schedule adds no identifier anywhere.
LEMMA ReplaceAddsNoId ==
  ASSUME TypeOK, NEW s \in Schedule, Replace(s)
  PROVE  /\ WellFormed(list') /\ WellFormed(file')
         /\ faults' \in 0..MaxFaults
         /\ Ids(list') = Ids(list)
         /\ Ids(file') \in {Ids(list), Ids(file)}
  <1>1. CASE s.id \in Ids(list)
    <2>1. WellFormed(Replaced(list, s)) /\ Ids(Replaced(list, s)) = Ids(list)
      BY ReplacedKeepsIds DEF TypeOK
    <2>2. SaveWorks(Replaced(list, s)) \/ SaveFails(Replaced(list, s))
      BY <1>1 DEF Replace
    <2>3. QED
      BY <2>1, <2>2, Saved
  <1>2. CASE s.id \notin Ids(list)
    BY <1>2 DEF Replace, TypeOK
  <1>3. QED
    BY <1>1, <1>2

\* The identifiers stay apart when the lists gain none and no call changes what
\* it appends.
LEMMA IdsUntouched ==
  ASSUME IdInv, UNCHANGED <<made, gone>>,
         Ids(list') \subseteq Ids(list) \cup Ids(file),
         Ids(file') \subseteq Ids(list) \cup Ids(file),
         \A c \in Creates : op'[c].pc = "checked" => op'[c] = op[c]
  PROVE  IdInv'
  <1>1. Seen' \subseteq Seen
    BY DEF Seen
  <1>2. \A c \in Creates : op'[c].pc = "checked" =>
          op[c].pc = "checked" /\ op'[c].sch.id = op[c].sch.id
    OBVIOUS
  <1>3. QED
    BY <1>1, <1>2 DEF IdInv, DeletedStaysDeleted

LEMMA CreateCheckKeepsIInv ==
  ASSUME IInv, NEW c \in Creates, NEW n \in Names, NEW t \in Time, CreateCheck(c, n, t)
  PROVE  IInv'
  <1> USE SchedulerAssumption DEF IInv, CreateCheck, store, env
  <1> DEFINE s == [id |-> made + 1, name |-> n, time |-> t, enabled |-> TRUE,
                   last |-> Never, created |-> clock]
  <1>1. s \in Schedule /\ c \in Call /\ made' = made + 1 /\ made \in Nat /\ s.id = made + 1
    BY DEF TypeOK, Schedule, Id, Never, Call
  <1>2. /\ op' = [op EXCEPT ![c] = [pc |-> "checked", sch |-> s]]
        /\ made < MaxSchedules
        /\ UNCHANGED <<list, file, gone, tick, run, taken, env>>
    OBVIOUS
  <1> HIDE DEF s, CreateCheck
  <1>3. TypeOK'
    <2>1. op' \in [Call -> [pc : {"idle", "checked", "read"}, sch : Schedule \cup {None}]]
      BY <1>1, <1>2 DEF TypeOK
    <2>2. made' \in 0..MaxSchedules
      BY <1>1, <1>2 DEF TypeOK
    <2>3. QED
      BY <1>2, <2>1, <2>2 DEF TypeOK
  <1>4. op'[c] = [pc |-> "checked", sch |-> s] /\ \A d \in Call \ {c} : op'[d] = op[d]
    BY <1>1, <1>2 DEF TypeOK
  <1>5. HoldInv'
    BY <1>1, <1>2, <1>4 DEF HoldInv
  <1>6. Seen' = Seen
    BY <1>2 DEF Seen, Ids
  <1>7. IdInv'
    <2>1. made + 1 \notin Seen /\ Seen \subseteq 1..made'
      BY <1>1 DEF IdInv
    <2>2. \A d \in Creates \ {c} : op'[d].pc = "checked" =>
            op[d].pc = "checked" /\ op'[d].sch.id \in (1..made) \ Seen /\ op'[d] = op[d]
      BY <1>4 DEF IdInv, Call
    <2>3. op'[c].sch.id = made + 1
      BY <1>1, <1>4
    <2>4. \A d \in Creates : op'[d].pc = "checked" => op'[d].sch.id \in (1..made') \ Seen'
      BY <1>1, <1>6, <2>1, <2>2, <2>3
    <2>5. \A d, e \in Creates :
            d # e /\ op'[d].pc = "checked" /\ op'[e].pc = "checked"
              => op'[d].sch.id # op'[e].sch.id
      BY <1>1, <2>2, <2>3 DEF IdInv
    <2>6. QED
      BY <1>2, <1>6, <2>1, <2>4, <2>5 DEF IdInv, DeletedStaysDeleted, Ids
  <1>8. QED
    BY <1>3, <1>5, <1>7

LEMMA CreateAppendKeepsIInv ==
  ASSUME IInv, NEW c \in Creates, CreateAppend(c)
  PROVE  IInv'
  <1> USE SchedulerAssumption DEF IInv, CreateAppend
  <1> DEFINE s == op[c].sch
  <1>1. s \in Schedule /\ c \in Call
    BY DEF HoldInv, Call
  <1>2. s.id \in (1..made) \ Seen
    BY DEF IdInv
  <1>3. WellFormed(Append(list, s)) /\ Ids(Append(list, s)) = Ids(list) \cup {s.id}
    BY <1>1, <1>2, AppendAddsId DEF TypeOK, Seen
  <1>4. /\ WellFormed(list') /\ WellFormed(file') /\ faults' \in 0..MaxFaults
        /\ Ids(list') = Ids(list) \cup {s.id}
        /\ Ids(file') \in {Ids(list) \cup {s.id}, Ids(file)}
    BY <1>3, Saved
  <1>5. op' \in [Call -> [pc : {"idle", "checked", "read"}, sch : Schedule \cup {None}]]
    BY <1>1 DEF TypeOK, NoOp
  <1>6. op'[c].pc = "idle" /\ \A d \in Call \ {c} : op'[d] = op[d]
    BY <1>1 DEF TypeOK, NoOp
  <1>7. TypeOK'
    BY <1>4, <1>5 DEF TypeOK
  <1>8. HoldInv'
    BY <1>6 DEF HoldInv
  <1>9. Seen' \subseteq Seen \cup {s.id} /\ UNCHANGED <<made, gone>>
    BY <1>4 DEF Seen
  <1>10. \A d \in Creates : op'[d].pc = "checked" =>
           d # c /\ op'[d] = op[d] /\ op[d].sch.id # s.id
    BY <1>6 DEF IdInv, Call
  <1>11. s.id \notin gone
    BY <1>2 DEF Seen
  <1>12. IdInv'
    <2>1. Seen' \subseteq 1..made'
      BY <1>2, <1>9 DEF IdInv
    <2>2. \A d \in Creates : op'[d].pc = "checked" => op'[d].sch.id \in (1..made') \ Seen'
      BY <1>9, <1>10 DEF IdInv
    <2>3. DeletedStaysDeleted'
      BY <1>4, <1>9, <1>11 DEF IdInv, DeletedStaysDeleted
    <2>4. QED
      BY <2>1, <2>2, <2>3, <1>10 DEF IdInv
  <1>13. QED
    BY <1>7, <1>8, <1>12

LEMMA UpdateReadKeepsIInv ==
  ASSUME IInv, NEW c \in Updates, NEW id \in Id, UpdateRead(c, id)
  PROVE  IInv'
  <1> USE SchedulerAssumption DEF IInv, env, store
  <1>1. PICK s : /\ s \in {[Get(list, id) EXCEPT !.enabled = ~@]}
                        \cup {[Get(list, id) EXCEPT !.time = t] : t \in Time}
                 /\ op' = [op EXCEPT ![c] = [pc |-> "read", sch |-> s]]
    BY DEF UpdateRead
  <1>2. Get(list, id) \in Schedule /\ c \in Call
    BY PositionFound DEF UpdateRead, TypeOK, WellFormed, Call
  <1>3. s \in Schedule
    BY <1>1, <1>2 DEF Schedule
  <1>4. UNCHANGED <<list, file, made, gone, tick, run, taken, env>>
    BY DEF UpdateRead
  <1>5. op' \in [Call -> [pc : {"idle", "checked", "read"}, sch : Schedule \cup {None}]]
    BY <1>1, <1>2, <1>3 DEF TypeOK
  <1>6. op'[c] = [pc |-> "read", sch |-> s] /\ \A d \in Call \ {c} : op'[d] = op[d]
    BY <1>1, <1>2 DEF TypeOK
  <1>7. TypeOK'
    BY <1>4, <1>5 DEF TypeOK, WellFormed
  <1>8. HoldInv'
    BY <1>3, <1>4, <1>6 DEF HoldInv
  <1>9. IdInv'
    <2>1. \A d \in Creates : op'[d].pc = "checked" => op'[d] = op[d]
      BY <1>6 DEF Call
    <2>2. QED
      BY <1>4, <2>1, IdsUntouched DEF Ids
  <1>10. QED
    BY <1>7, <1>8, <1>9

LEMMA UpdateReplaceKeepsIInv ==
  ASSUME IInv, NEW c \in Updates, UpdateReplace(c)
  PROVE  IInv'
  <1> USE SchedulerAssumption DEF IInv, UpdateReplace
  <1>1. op[c].sch \in Schedule /\ c \in Call
    BY DEF HoldInv, Call
  <1>2. /\ WellFormed(list') /\ WellFormed(file') /\ faults' \in 0..MaxFaults
        /\ Ids(list') = Ids(list) /\ Ids(file') \in {Ids(list), Ids(file)}
    BY <1>1, ReplaceAddsNoId
  <1>3. op' \in [Call -> [pc : {"idle", "checked", "read"}, sch : Schedule \cup {None}]]
    BY <1>1 DEF TypeOK, NoOp
  <1>4. op'[c].pc = "idle" /\ \A d \in Call \ {c} : op'[d] = op[d]
    BY <1>1 DEF TypeOK, NoOp
  <1>5. TypeOK'
    BY <1>2, <1>3 DEF TypeOK
  <1>6. HoldInv'
    BY <1>4 DEF HoldInv
  <1>7. IdInv'
    <2>1. \A d \in Creates : op'[d].pc = "checked" => op'[d] = op[d]
      BY <1>4 DEF Call
    <2>2. QED
      BY <1>2, <2>1, IdsUntouched
  <1>8. QED
    BY <1>5, <1>6, <1>7

LEMMA DeleteKeepsIInv ==
  ASSUME IInv, NEW id \in Id, Delete(id)
  PROVE  IInv'
  <1> USE SchedulerAssumption DEF IInv
  <1> DEFINE l == Removed(list, id)
  <1>1. WellFormed(l) /\ Ids(l) = Ids(list) \ {id}
    BY RemovedLosesId DEF Delete, TypeOK
  <1>2. UNCHANGED <<made, tick, run, op, taken, clock, crashes, outages>>
    BY DEF Delete
  <1>3. id \in Ids(list)
    BY DEF Delete
  <1>4. \/ SaveWorks(l) /\ gone' = gone \cup {id}
        \/ SaveFails(l) /\ gone' = gone
    BY DEF Delete
  <1> HIDE DEF l
  <1>5. WellFormed(list') /\ WellFormed(file') /\ faults' \in 0..MaxFaults /\ Ids(list') = Ids(l)
    BY <1>1, <1>4, Saved
  <1>6. Ids(file') \in {Ids(l), Ids(file)} /\ (gone' # gone => Ids(file') = Ids(l))
    BY <1>1, <1>4, Saved DEF SaveWorks
  <1>7. TypeOK'
    BY <1>2, <1>4, <1>5 DEF TypeOK
  <1>8. HoldInv'
    BY <1>2 DEF HoldInv
  <1>9. Seen' \subseteq Seen
    BY <1>1, <1>3, <1>4, <1>5, <1>6 DEF Seen
  <1>10. DeletedStaysDeleted'
    <2>1. CASE gone' = gone
      BY <1>1, <1>5, <1>6, <2>1 DEF IdInv, DeletedStaysDeleted
    <2>2. CASE gone' # gone
      BY <1>1, <1>4, <1>5, <1>6, <2>2 DEF IdInv, DeletedStaysDeleted
    <2>3. QED
      BY <2>1, <2>2
  <1>11. IdInv'
    BY <1>2, <1>9, <1>10 DEF IdInv
  <1>12. QED
    BY <1>7, <1>8, <1>11

LEMMA TickKeepsIInv ==
  ASSUME IInv, Tick
  PROVE  IInv'
  <1> USE SchedulerAssumption DEF IInv, store, env
  <1>1. UNCHANGED <<list, file, made, gone, op, taken, clock, crashes, faults, outages>>
    BY DEF Tick, TickBegin, TickStep
  <1>2. IdInv'
    BY <1>1, IdsUntouched DEF Ids
  <1>3. CASE TickBegin
    <2>1. tick' = [pc |-> "ticking", now |-> clock, todo |-> list] /\ list # <<>> /\ run' = run
      BY <1>3 DEF TickBegin
    <2>2. TypeOK'
      BY <1>1, <2>1 DEF TypeOK, WellFormed
    <2>3. HoldInv'
      BY <1>1, <2>1 DEF HoldInv
    <2>4. QED
      BY <1>2, <2>2, <2>3
  <1>4. CASE TickStep
    <2> DEFINE s == Head(tick.todo)
    <2>1. tick.todo \in Seq(Schedule) /\ tick.todo # <<>> /\ tick.now \in 1..MaxClock
      BY <1>4 DEF TypeOK, HoldInv, TickStep
    <2>2. /\ s \in Schedule /\ Tail(tick.todo) \in Seq(Schedule)
          /\ Len(tick.todo) # 1 => Tail(tick.todo) # <<>>
      <3>1. \A q \in Seq(Schedule) : q # <<>> =>
              /\ Head(q) \in Schedule /\ Tail(q) \in Seq(Schedule)
              /\ Len(Tail(q)) = Len(q) - 1 /\ Len(q) \in Nat
        BY HeadTailProperties, LenProperties
      <3>2. Len(tick.todo) # 1 => Len(Tail(tick.todo)) # 0
        BY <2>1, <3>1
      <3>3. QED
        BY <2>1, <3>1, <3>2
    <2>3. run' = run \/ run' = [pc |-> "running", now |-> tick.now, sch |-> s, read |-> None]
      BY <1>4 DEF TickStep
    <2>4. \/ tick' = NoTick
          \/ Len(tick.todo) # 1 /\ tick' = [tick EXCEPT !.todo = Tail(tick.todo)]
      BY <1>4 DEF TickStep
    <2> HIDE DEF s
    <2>5. tick' \in [pc : {"idle", "ticking"}, now : 1..MaxClock, todo : Seq(Schedule)]
          /\ (tick'.pc = "ticking" => tick'.todo # <<>>)
      <3>1. CASE tick' = NoTick
        BY <3>1 DEF NoTick
      <3>2. CASE Len(tick.todo) # 1 /\ tick' = [tick EXCEPT !.todo = Tail(tick.todo)]
        BY <2>2, <3>2 DEF TypeOK
      <3>3. QED
        BY <2>4, <3>1, <3>2
    <2>6. run' \in [pc : {"idle", "running", "marking", "replacing", "unlocking"},
                   now : 1..MaxClock, sch : Schedule \cup {None}, read : Schedule \cup {None}]
      <3>1. CASE run' = run
        BY <3>1 DEF TypeOK
      <3>2. CASE run' = [pc |-> "running", now |-> tick.now, sch |-> s, read |-> None]
        BY <2>1, <2>2, <3>2
      <3>3. QED
        BY <2>3, <3>1, <3>2
    <2>7. TypeOK'
      BY <1>1, <2>5, <2>6 DEF TypeOK, WellFormed
    <2>8. HoldInv'
      BY <1>1, <2>2, <2>3, <2>5 DEF HoldInv
    <2>9. QED
      BY <1>2, <2>7, <2>8
  <1>5. QED
    BY <1>3, <1>4 DEF Tick

LEMMA RunKeepsIInv ==
  ASSUME IInv, Run
  PROVE  IInv'
  <1> USE SchedulerAssumption DEF IInv, store, env
  <1>1. UNCHANGED <<made, gone, tick, op, clock, crashes>>
    BY DEF Run, RunUnresolved, RunBackups, MarkGet, MarkReplace, RunUnlock
  <1> DEFINE Runs == [pc : {"idle", "running", "marking", "replacing", "unlocking"},
                      now : 1..MaxClock, sch : Schedule \cup {None}, read : Schedule \cup {None}]
  <1>2. ASSUME UNCHANGED <<list, file, faults>>
        PROVE  IdInv' /\ WellFormed(list') /\ WellFormed(file') /\ faults' \in 0..MaxFaults
    <2>1. Ids(list') = Ids(list) /\ Ids(file') = Ids(file)
      BY <1>2
    <2>2. QED
      BY <1>1, <1>2, <2>1, IdsUntouched DEF TypeOK
  <1>3. ASSUME IdInv', WellFormed(list'), WellFormed(file'), faults' \in 0..MaxFaults,
               run' \in Runs, taken' \in [Id -> [Slot -> 0..2]], outages' \in 0..MaxOutages,
               run'.pc \in {"running", "marking"} => run'.sch \in Schedule,
               run'.pc = "replacing" => run'.read \in Schedule
        PROVE  IInv'
    <2>1. TypeOK'
      BY <1>1, <1>3 DEF TypeOK
    <2>2. HoldInv'
      BY <1>1, <1>3 DEF HoldInv
    <2>3. QED
      BY <1>3, <2>1, <2>2
  <1>4. /\ run \in Runs /\ taken \in [Id -> [Slot -> 0..2]] /\ outages \in 0..MaxOutages
        /\ run.pc \in {"running", "marking"} => run.sch \in Schedule
        /\ run.pc = "replacing" => run.read \in Schedule
    BY DEF TypeOK, HoldInv
  <1>5. CASE RunUnresolved
    <2>1. run' = [run EXCEPT !.pc = "unlocking"] /\ taken' = taken /\ outages' \in 0..MaxOutages
          /\ UNCHANGED <<list, file, faults>>
      BY <1>4, <1>5 DEF RunUnresolved
    <2>2. run' \in Runs /\ run'.pc = "unlocking"
      BY <1>4, <2>1
    <2>3. QED
      BY <1>2, <1>3, <1>4, <2>1, <2>2
  <1>6. CASE RunBackups
    <2>1. run.pc = "running" /\ run' = [run EXCEPT !.pc = "marking"]
          /\ UNCHANGED <<list, file, faults, outages>>
      BY <1>6 DEF RunBackups
    <2>2. run' \in Runs /\ run'.pc = "marking" /\ run'.sch \in Schedule
      BY <1>4, <2>1
    <2>3. taken' \in [Id -> [Slot -> 0..2]]
      <3> DEFINE i == run.sch.id
                 o == Today(run.sch, run.now)
                 n == IF taken[i][o] < 2 THEN taken[i][o] + 1 ELSE 2
                 f == [taken[i] EXCEPT ![o] = n]
      <3>1. taken' = [taken EXCEPT ![i] = f]
        BY <1>6 DEF RunBackups
      <3>2. CASE i \in Id /\ o \in Slot
        <4>1. taken[i][o] \in 0..2 /\ n \in 0..2
          BY <1>4, <3>2
        <4> HIDE DEF n
        <4>2. f \in [Slot -> 0..2]
          BY <1>4, <3>2, <4>1
        <4> HIDE DEF f
        <4>3. QED
          BY <1>4, <3>1, <3>2, <4>2
      <3>3. CASE i \in Id /\ o \notin Slot
        <4>1. taken[i] \in [Slot -> 0..2]
          BY <1>4, <3>3
        <4>2. f = taken[i]
          BY <3>3, <4>1
        <4> HIDE DEF f
        <4>3. QED
          BY <1>4, <3>1, <3>3, <4>1, <4>2
      <3>4. i \in Id
        BY <1>4, <2>1 DEF Schedule
      <3>5. QED
        BY <3>2, <3>3, <3>4
    <2>4. QED
      BY <1>2, <1>3, <1>4, <2>1, <2>2, <2>3
  <1>7. CASE MarkGet
    <2>1. UNCHANGED <<list, file, faults, taken, outages>>
      BY <1>7 DEF MarkGet
    <2>2. CASE run.sch.id \in Ids(list)
      <3>1. run' = [run EXCEPT !.pc = "replacing", !.read = Get(list, run.sch.id)]
        BY <1>7, <2>2 DEF MarkGet
      <3>2. Get(list, run.sch.id) \in Schedule
        BY <2>2, PositionFound DEF TypeOK, WellFormed
      <3>3. run' \in Runs /\ run'.pc = "replacing" /\ run'.read \in Schedule
        BY <1>4, <3>1, <3>2
      <3>4. QED
        BY <1>2, <1>3, <1>4, <2>1, <3>3
    <2>3. CASE run.sch.id \notin Ids(list)
      <3>1. run' = [run EXCEPT !.pc = "unlocking"]
        BY <1>7, <2>3 DEF MarkGet
      <3>2. run' \in Runs /\ run'.pc = "unlocking"
        BY <1>4, <3>1
      <3>3. QED
        BY <1>2, <1>3, <1>4, <2>1, <3>2
    <2>4. QED
      BY <2>2, <2>3
  <1>8. CASE MarkReplace
    <2> DEFINE s == [run.read EXCEPT !.last = run.now]
    <2>1. run.pc = "replacing" /\ Replace(s) /\ run' = [run EXCEPT !.pc = "unlocking"]
          /\ UNCHANGED <<taken, outages>>
      BY <1>8 DEF MarkReplace
    <2>2. s \in Schedule
      <3>1. run.read \in Schedule /\ run.now \in 0..MaxClock
        BY <1>4, <2>1
      <3>2. QED
        BY <3>1 DEF Schedule
    <2> HIDE DEF s
    <2>3. /\ WellFormed(list') /\ WellFormed(file') /\ faults' \in 0..MaxFaults
          /\ Ids(list') = Ids(list) /\ Ids(file') \in {Ids(list), Ids(file)}
      BY <2>1, <2>2, ReplaceAddsNoId
    <2>4. IdInv'
      BY <1>1, <2>3, IdsUntouched
    <2>5. run' \in Runs /\ run'.pc = "unlocking"
      BY <1>4, <2>1
    <2>6. QED
      BY <1>3, <1>4, <2>1, <2>3, <2>4, <2>5
  <1>9. CASE RunUnlock
    <2>1. run' = NoRun /\ UNCHANGED <<list, file, faults, taken, outages>>
      BY <1>9 DEF RunUnlock
    <2>2. run' \in Runs /\ run'.pc = "idle"
      BY <2>1 DEF NoRun
    <2>3. QED
      BY <1>2, <1>3, <1>4, <2>1, <2>2
  <1>10. QED
    BY <1>5, <1>6, <1>7, <1>8, <1>9 DEF Run

LEMMA AdvanceKeepsIInv ==
  ASSUME IInv, Advance
  PROVE  IInv'
  <1> USE SchedulerAssumption DEF IInv, store, Advance
  <1>1. TypeOK'
    BY DEF TypeOK, WellFormed
  <1>2. HoldInv'
    BY DEF HoldInv
  <1>3. IdInv'
    BY IdsUntouched DEF Ids
  <1>4. QED
    BY <1>1, <1>2, <1>3

LEMMA CrashKeepsIInv ==
  ASSUME IInv, Crash
  PROVE  IInv'
  <1> USE SchedulerAssumption DEF IInv
  <1>1. /\ UNCHANGED <<file, made, gone, taken, clock, faults, outages>>
        /\ list' = file /\ tick' = NoTick /\ run' = NoRun
        /\ op' = [c \in Call |-> NoOp]
        /\ crashes' \in 0..MaxCrashes
    BY DEF Crash, TypeOK
  <1>2. TypeOK'
    BY <1>1 DEF TypeOK, WellFormed, NoTick, NoRun, NoOp
  <1>3. HoldInv'
    BY <1>1 DEF HoldInv, NoTick, NoRun, NoOp
  <1>4. IdInv'
    <2>1. Ids(list') = Ids(file) /\ Ids(file') = Ids(file)
      BY <1>1
    <2>2. \A c \in Creates : op'[c].pc # "checked"
      BY <1>1 DEF NoOp, Call
    <2>3. QED
      BY <1>1, <2>1, <2>2, IdsUntouched
  <1>5. QED
    BY <1>2, <1>3, <1>4

LEMMA NextKeepsIInv == IInv /\ [Next]_vars => IInv'
  <1> SUFFICES ASSUME IInv, [Next]_vars PROVE IInv'
    OBVIOUS
  <1>1. CASE \E c \in Creates : CreateAppend(c)
    BY <1>1, CreateAppendKeepsIInv
  <1>2. CASE \E c \in Creates, n \in Names, t \in Time : CreateCheck(c, n, t)
    BY <1>2, CreateCheckKeepsIInv
  <1>3. CASE \E c \in Updates : UpdateReplace(c)
    BY <1>3, UpdateReplaceKeepsIInv
  <1>4. CASE \E c \in Updates, id \in Id : UpdateRead(c, id)
    BY <1>4, UpdateReadKeepsIInv
  <1>5. CASE \E id \in Id : Delete(id)
    BY <1>5, DeleteKeepsIInv
  <1>6. CASE Tick
    BY <1>6, TickKeepsIInv
  <1>7. CASE Run
    BY <1>7, RunKeepsIInv
  <1>8. CASE Advance
    BY <1>8, AdvanceKeepsIInv
  <1>9. CASE Crash
    BY <1>9, CrashKeepsIInv
  <1>10. CASE UNCHANGED vars
    <2>1. TypeOK'
      BY <1>10 DEF IInv, TypeOK, WellFormed, vars, store, env
    <2>2. HoldInv'
      BY <1>10 DEF IInv, HoldInv, vars
    <2>3. IdInv'
      BY <1>10, IdsUntouched DEF IInv, Ids, vars, store
    <2>4. QED
      BY <2>1, <2>2, <2>3 DEF IInv
  <1>11. QED
    BY <1>1, <1>2, <1>3, <1>4, <1>5, <1>6, <1>7, <1>8, <1>9, <1>10 DEF Next

-----------------------------------------------------------------------------
(***************************************************************************)
(* The theorems                                                            *)
(***************************************************************************)

\* The strengthened invariant holds in every state of the scheduler.
THEOREM Inductive == Spec => []IInv
  BY InitIInv, NextKeepsIInv, PTL DEF Spec

\* Every variable keeps its type; in particular neither the memory nor the file
\* ever holds two schedules with one identifier (Store.Create, Replace, Remove).
THEOREM TypeCorrect == Spec => []TypeOK
  <1>1. IInv => TypeOK
    BY DEF IInv
  <1>2. QED
    BY <1>1, Inductive, PTL

\* A schedule whose deletion was acknowledged is never again in memory or in the
\* file, whatever update or run read it before (Store.Remove, Store.Replace).
THEOREM DeletedNeverReturns == Spec => []DeletedStaysDeleted
  <1>1. IInv => DeletedStaysDeleted
    BY DEF IInv, IdInv
  <1>2. QED
    BY <1>1, Inductive, PTL


-----------------------------------------------------------------------------
(***************************************************************************)
(* An occurrence is backed up once, unless its mark was lost or not seen   *)
(***************************************************************************)

\* What was ever handed to a tick or a run, or backed up.
Used ==
  Ids(tick.todo) \cup {id \in Id : \E s \in Slot : taken[id][s] # 0}
    \cup (IF run.pc = "idle" THEN {} ELSE {run.sch.id})

\* A schedule that is still to be appended was never run, and a run marks its
\* own schedule.
UsedInv ==
  /\ Used \subseteq 1..made
  /\ \A c \in Creates : op[c].pc = "checked" => op[c].sch.id \notin Used
  /\ run.pc = "replacing" => run.read.id = run.sch.id

\* Its run has backed it up and has not marked it yet.
Unmarked(id) == run.pc \in {"marking", "replacing"} /\ run.sch.id = id

\* Nothing later than t was backed up.
UpTo(id, t) == \A s \in Slot : taken[id][s] # 0 => s <= t

\* The mark is past every occurrence that was backed up, but for those of a run
\* that is about to mark; a run starts for a later one.
Marked(id) ==
  /\ \A s \in Slot : taken[id][s] <= 1
  /\ id \in Ids(list) /\ ~Unmarked(id) => UpTo(id, LastOf(list, id))
  /\ Unmarked(id) => UpTo(id, run.now)
  /\ run.pc = "running" /\ run.sch.id = id =>
       /\ \A s \in Slot : taken[id][s] # 0 => s < Today(run.sch, run.now)
       /\ Today(run.sch, run.now) <= run.now

MarkInv == \A id \in Id \ unseen : Marked(id)

LEMMA TodayIsNat ==
  ASSUME NEW s \in Schedule, NEW now \in 1..MaxClock
  PROVE  Today(s, now) \in Nat
  <1> DEFINE d == (now - 1) \div DayLen
  <1>1. d \in Nat
    BY SchedulerAssumption
  <1>2. s.time \in Nat
    BY SchedulerAssumption DEF Schedule, Time
  <1> HIDE DEF d
  <1>3. d * DayLen \in Nat
    BY <1>1, SchedulerAssumption
  <1>4. QED
    BY <1>2, <1>3 DEF Today, d

LEMMA GetIs ==
  ASSUME NEW l, WellFormed(l), NEW i \in DOMAIN l
  PROVE  Get(l, l[i].id) = l[i]
  <1>1. Position(l, l[i].id) \in DOMAIN l /\ l[Position(l, l[i].id)].id = l[i].id
    BY DEF Position
  <1>2. Position(l, l[i].id) = i
    BY <1>1 DEF WellFormed
  <1>3. QED
    BY <1>2 DEF Get

LEMMA LastIsNat ==
  ASSUME NEW l, WellFormed(l), NEW id
  PROVE  LastOf(l, id) \in Nat
  <1>1. CASE id \in Ids(l)
    <2>1. Get(l, id) \in Schedule
      BY <1>1, PositionFound DEF WellFormed
    <2>2. Get(l, id).last \in Nat
      BY <2>1, SchedulerAssumption DEF Schedule
    <2>3. QED
      BY <1>1, <2>2 DEF LastOf
  <1>2. CASE id \notin Ids(l)
    BY <1>2 DEF LastOf, Never
  <1>3. QED
    BY <1>1, <1>2

LEMMA LastOfReplaced ==
  ASSUME NEW l, WellFormed(l), NEW s \in Schedule, s.id \in Ids(l)
  PROVE  LastOf(Replaced(l, s), s.id) = s.last
  <1> DEFINE r == Replaced(l, s)
  <1>1. WellFormed(r) /\ Ids(r) = Ids(l)
    BY ReplacedKeepsIds
  <1>2. PICK i \in DOMAIN l : l[i].id = s.id
    BY DEF Ids
  <1>3. i \in DOMAIN r /\ r[i] = s
    BY <1>2 DEF Replaced
  <1> HIDE DEF r
  <1>4. Get(r, s.id) = s
    BY <1>1, <1>3, GetIs
  <1>5. QED
    BY <1>1, <1>4 DEF LastOf, r

\* A list, a tick or a run hands on what it has.
LEMMA HeadAndTail ==
  ASSUME NEW q \in Seq(Schedule), q # <<>>
  PROVE  Head(q).id \in Ids(q) /\ Ids(Tail(q)) \subseteq Ids(q)
  <1>1. /\ Len(q) \in Nat \ {0} /\ DOMAIN q = 1..Len(q) /\ Head(q) = q[1]
        /\ Tail(q) \in Seq(Schedule) /\ Len(Tail(q)) = Len(q) - 1
        /\ \A i \in 1..Len(Tail(q)) : Tail(q)[i] = q[i + 1]
    BY HeadTailProperties, LenProperties
  <1>2. Head(q).id \in Ids(q)
    BY <1>1 DEF Ids
  <1>3. DOMAIN Tail(q) = 1..Len(Tail(q))
    BY <1>1, LenProperties
  <1>4. ASSUME NEW i \in DOMAIN Tail(q) PROVE Tail(q)[i].id \in Ids(q)
    <2>1. i + 1 \in DOMAIN q /\ Tail(q)[i] = q[i + 1]
      BY <1>1, <1>3
    <2>2. QED
      BY <2>1 DEF Ids
  <1>5. QED
    BY <1>2, <1>4 DEF Ids

\* What a step uses was used or is in the list, and what a call appends does not
\* change on the way.
LEMMA StepUses ==
  ASSUME IInv, [Next]_vars
  PROVE  /\ Used' \subseteq Used \cup Ids(list)
         /\ UsedInv => (run'.pc = "replacing" => run'.read.id = run'.sch.id)
  <1> USE DEF store, env
  <1> DEFINE Kept == UNCHANGED <<tick, run, taken>>
  <1>1. CASE Kept
    BY <1>1 DEF Used, UsedInv, Ids
  <1>2. CASE TickBegin
    <2>1. tick'.todo = list /\ run' = run /\ taken' = taken
      BY <1>2 DEF TickBegin
    <2>2. QED
      BY <2>1 DEF Used, UsedInv, Ids
  <1>3. CASE TickStep
    <2>1. tick.todo \in Seq(Schedule) /\ tick.todo # <<>>
      BY <1>3 DEF IInv, TypeOK, HoldInv, TickStep
    <2>2. taken' = taken /\ (run' = run \/ (run'.sch = Head(tick.todo) /\ run'.pc = "running"))
      <3> DEFINE h == Head(tick.todo)
      <3>1. \/ run' = run
            \/ run' = [pc |-> "running", now |-> tick.now, sch |-> h, read |-> None]
        BY <1>3 DEF TickStep
      <3>2. taken' = taken
        BY <1>3 DEF TickStep
      <3> HIDE DEF h
      <3>3. run' = run \/ (run'.sch = h /\ run'.pc = "running")
        BY <3>1
      <3>4. QED
        BY <3>2, <3>3 DEF h
    <2>3. tick'.todo = <<>> \/ tick'.todo = Tail(tick.todo)
      BY <1>3 DEF TickStep, NoTick, IInv, TypeOK
    <2>4. Ids(tick'.todo) \subseteq Ids(tick.todo)
      <3>1. CASE tick'.todo = <<>>
        BY <3>1 DEF Ids
      <3>2. CASE tick'.todo = Tail(tick.todo)
        BY <2>1, <3>2, HeadAndTail
      <3>3. QED
        BY <2>3, <3>1, <3>2
    <2>5. Head(tick.todo).id \in Ids(tick.todo)
      BY <2>1, HeadAndTail
    <2>6. QED
      BY <2>2, <2>4, <2>5 DEF Used, UsedInv
  <1>4. CASE RunBackups
    <2>1. run.pc = "running" /\ run'.pc = "marking" /\ run'.sch = run.sch /\ tick' = tick
      BY <1>4 DEF RunBackups, IInv, TypeOK
    <2>2. \A id \in Id : id # run.sch.id => taken'[id] = taken[id]
      BY <1>4 DEF RunBackups, IInv, TypeOK
    <2>3. Ids(tick'.todo) = Ids(tick.todo)
      BY <2>1
    <2>4. QED
      BY <2>1, <2>2, <2>3 DEF Used
  <1>5. CASE MarkGet
    <2>1. run.pc = "marking" /\ run'.sch = run.sch /\ tick' = tick /\ taken' = taken
      BY <1>5 DEF MarkGet, IInv, TypeOK
    <2>2. run'.pc = "replacing" => run.sch.id \in Ids(list) /\ run'.read = Get(list, run.sch.id)
      BY <1>5 DEF MarkGet, IInv, TypeOK
    <2>3. run'.pc = "replacing" => run'.read.id = run'.sch.id
      BY <2>1, <2>2, PositionFound DEF IInv, TypeOK, WellFormed
    <2>4. Ids(tick'.todo) = Ids(tick.todo)
      BY <2>1
    <2>5. QED
      BY <2>1, <2>3, <2>4 DEF Used
  <1>6. CASE RunUnresolved \/ MarkReplace
    <2>1. run.pc # "idle" /\ run' = [run EXCEPT !.pc = "unlocking"] /\ UNCHANGED <<tick, taken>>
      BY <1>6 DEF RunUnresolved, MarkReplace
    <2>2. run'.pc = "unlocking" /\ run'.sch = run.sch /\ Ids(tick'.todo) = Ids(tick.todo)
      BY <2>1 DEF IInv, TypeOK
    <2>3. QED
      BY <2>1, <2>2 DEF Used
  <1>7. CASE RunUnlock
    <2>1. run'.pc = "idle" /\ UNCHANGED <<tick, taken>> /\ Ids(tick'.todo) = Ids(tick.todo)
      BY <1>7 DEF RunUnlock, NoRun
    <2>2. QED
      BY <2>1 DEF Used
  <1>8. CASE Crash
    <2>1. run'.pc = "idle" /\ tick'.todo = <<>> /\ taken' = taken
      BY <1>8 DEF Crash, NoRun, NoTick
    <2>2. QED
      BY <2>1 DEF Used, Ids
  <1>9. CASE \/ \E c \in Creates : CreateAppend(c) \/ \E n \in Names, t \in Time : CreateCheck(c, n, t)
             \/ \E c \in Updates : UpdateReplace(c) \/ \E id \in Id : UpdateRead(c, id)
             \/ \E id \in Id : Delete(id)
             \/ Advance \/ UNCHANGED vars
    <2>1. Kept
      BY <1>9 DEF CreateAppend, CreateCheck, UpdateReplace, UpdateRead, Delete, Advance, vars
    <2>2. QED
      BY <1>1, <2>1
  <1>10. QED
    BY <1>2, <1>3, <1>4, <1>5, <1>6, <1>7, <1>8, <1>9 DEF Next, Tick, Run

\* What a create is about to append is what it was, or was made by this step.
LEMMA StepAppends ==
  ASSUME IInv, [Next]_vars
  PROVE  /\ made' \in Nat /\ made \in Nat /\ made <= made'
         /\ \A c \in Creates : op'[c].pc = "checked" =>
              op'[c] = op[c] \/ op'[c].sch.id \notin 1..made
  <1> USE DEF store, env
  <1>1. made \in Nat /\ DOMAIN op = Call
    BY SchedulerAssumption DEF IInv, TypeOK
  <1>2. CASE \E c \in Creates, n \in Names, t \in Time : CreateCheck(c, n, t)
    <2>1. PICK c \in Creates, n \in Names, t \in Time : CreateCheck(c, n, t)
      BY <1>2
    <2>2. op'[c].sch.id = made + 1 /\ \A d \in Creates \ {c} : op'[d] = op[d]
      BY <1>1, <2>1 DEF CreateCheck, Call
    <2>3. made' = made + 1
      BY <2>1 DEF CreateCheck
    <2>4. QED
      BY <1>1, <2>2, <2>3
  <1>3. CASE \E c \in Creates : CreateAppend(c)
    <2>1. PICK c \in Creates : CreateAppend(c)
      BY <1>3
    <2>2. made' = made /\ op' = [op EXCEPT ![c] = NoOp]
      BY <2>1 DEF CreateAppend
    <2>3. op'[c].pc = "idle" /\ \A d \in Creates \ {c} : op'[d] = op[d]
      BY <1>1, <2>2 DEF NoOp, Call
    <2>4. QED
      BY <1>1, <2>2, <2>3
  <1>4. CASE \E c \in Updates : UpdateReplace(c) \/ \E id \in Id : UpdateRead(c, id)
    <2>1. PICK c \in Updates : UpdateReplace(c) \/ \E id \in Id : UpdateRead(c, id)
      BY <1>4
    <2>2. made' = made /\ c \in Call
      BY <2>1 DEF UpdateReplace, UpdateRead, Call
    <2>3. op'[c].pc # "checked" /\ \A d \in Creates \ {c} : op'[d] = op[d]
      <3>1. CASE UpdateReplace(c)
        BY <1>1, <2>2, <3>1 DEF UpdateReplace, NoOp, Call
      <3>2. CASE \E id \in Id : UpdateRead(c, id)
        BY <1>1, <2>2, <3>2 DEF UpdateRead, Call
      <3>3. QED
        BY <2>1, <3>1, <3>2
    <2>4. QED
      BY <1>1, <2>2, <2>3
  <1>5. CASE Crash
    BY <1>1, <1>5 DEF Crash, NoOp, Call
  <1>6. CASE (\E id \in Id : Delete(id)) \/ Tick \/ Run \/ Advance \/ UNCHANGED vars
    <2>1. UNCHANGED <<made, op>>
      BY <1>6 DEF Delete, Tick, TickBegin, TickStep, Run, RunUnresolved, RunBackups, MarkGet,
                  MarkReplace, RunUnlock, Advance, vars
    <2>2. QED
      BY <1>1, <2>1
  <1>7. QED
    BY <1>2, <1>3, <1>4, <1>5, <1>6 DEF Next

LEMMA StepKeepsUsedInv ==
  ASSUME IInv, UsedInv, [Next]_vars
  PROVE  UsedInv'
  <1>1. Ids(list) \subseteq 1..made
    BY DEF IInv, IdInv, Seen
  <1>2. Used \cup Ids(list) \subseteq 1..made
    BY <1>1 DEF UsedInv
  <1>3. Used' \subseteq 1..made'
    BY <1>2, StepUses, StepAppends
  <1>4. ASSUME NEW c \in Creates, op'[c].pc = "checked"
        PROVE  op'[c].sch.id \notin Used'
    <2>1. CASE op'[c] = op[c]
      <3>1. op[c].sch.id \notin Used /\ op[c].sch.id \notin Ids(list)
        BY <1>4, <2>1 DEF UsedInv, IInv, IdInv, Seen
      <3>2. QED
        BY <2>1, <3>1, StepUses
    <2>2. CASE op'[c].sch.id \notin 1..made
      BY <1>2, <2>2, StepUses
    <2>3. QED
      BY <1>4, <2>1, <2>2, StepAppends
  <1>5. QED
    BY <1>3, <1>4, StepUses DEF UsedInv

\* The list may change as long as the mark does not fall: what comes to it was
\* never backed up.
LEMMA ListMayChange ==
  ASSUME NEW id, Marked(id), WellFormed(list), WellFormed(list'), ~MarkLost(id),
         UNCHANGED <<run, taken>>,
         id \in Ids(list') => id \in Ids(list) \/ \A s \in Slot : taken[id][s] = 0
  PROVE  Marked(id)'
  <1>1. ASSUME id \in Ids(list'), ~Unmarked(id)
        PROVE  \A s \in Slot : taken[id][s] # 0 => s <= LastOf(list', id)
    <2>1. CASE id \in Ids(list)
      <3>1. LastOf(list, id) \in Nat /\ LastOf(list', id) \in Nat
        BY LastIsNat
      <3>2. LastOf(list, id) <= LastOf(list', id)
        BY <3>1 DEF MarkLost
      <3>3. \A s \in Slot : taken[id][s] # 0 => s <= LastOf(list, id)
        BY <1>1, <2>1 DEF Marked, UpTo
      <3>4. Slot \subseteq Nat
        BY DEF Slot
      <3>5. QED
        BY <3>1, <3>2, <3>3, <3>4
    <2>2. CASE \A s \in Slot : taken[id][s] = 0
      BY <2>2
    <2>3. QED
      BY <1>1, <2>1, <2>2
  <1>2. QED
    BY <1>1 DEF Marked, Unmarked, UpTo

\* A step other than those of the loop, of a run and of a restart.
LEMMA CallKeepsMark ==
  ASSUME IInv, IInv', UsedInv, NEW id \in Id, Marked(id), ~MarkLost(id),
         \/ \E c \in Creates : CreateAppend(c) \/ \E n \in Names, t \in Time : CreateCheck(c, n, t)
         \/ \E c \in Updates : UpdateReplace(c) \/ \E i \in Id : UpdateRead(c, i)
         \/ \E i \in Id : Delete(i)
         \/ TickBegin \/ Advance \/ UNCHANGED vars
  PROVE  Marked(id)'
  <1> USE DEF store, env
  <1>1. WellFormed(list) /\ WellFormed(list') /\ TypeOK
    BY DEF IInv, TypeOK
  <1>2. UNCHANGED <<run, taken>>
    BY DEF CreateAppend, CreateCheck, UpdateReplace, UpdateRead, Delete, TickBegin, Advance, vars
  <1>3. id \in Ids(list') => id \in Ids(list) \/ \A s \in Slot : taken[id][s] = 0
    <2>1. CASE \E c \in Creates : CreateAppend(c)
      <3>1. PICK c \in Creates : CreateAppend(c)
        BY <2>1
      <3>2. op[c].sch \in Schedule /\ op[c].sch.id \notin Ids(list) /\ op[c].sch.id \notin Used
        BY <3>1 DEF CreateAppend, IInv, HoldInv, IdInv, Seen, UsedInv, Call
      <3>3. /\ WellFormed(Append(list, op[c].sch))
            /\ Ids(Append(list, op[c].sch)) = Ids(list) \cup {op[c].sch.id}
        BY <1>1, <3>2, AppendAddsId
      <3>4. list' = Append(list, op[c].sch)
        BY <3>1 DEF CreateAppend, SaveWorks, SaveFails
      <3>5. QED
        BY <3>2, <3>3, <3>4 DEF Used
    <2>2. CASE \E c \in Updates : UpdateReplace(c)
      <3>1. PICK c \in Updates : UpdateReplace(c)
        BY <2>2
      <3>2. op[c].sch \in Schedule /\ Replace(op[c].sch)
        BY <3>1 DEF UpdateReplace, IInv, HoldInv, Call
      <3>3. QED
        BY <1>1, <3>2, ReplaceAddsNoId
    <2>3. CASE \E i \in Id : Delete(i)
      <3>1. PICK i \in Id : Delete(i)
        BY <2>3
      <3>2. i \in Ids(list) /\ list' = Removed(list, i)
        BY <3>1 DEF Delete, SaveWorks, SaveFails
      <3>3. Ids(list') = Ids(list) \ {i}
        BY <1>1, <3>2, RemovedLosesId
      <3>4. QED
        BY <3>3
    <2>4. CASE \/ \E c \in Creates, n \in Names, t \in Time : CreateCheck(c, n, t)
               \/ \E c \in Updates, i \in Id : UpdateRead(c, i)
               \/ TickBegin \/ Advance \/ UNCHANGED vars
      <3>1. list' = list
        BY <2>4 DEF CreateCheck, UpdateRead, TickBegin, Advance, vars
      <3>2. QED
        BY <3>1
    <2>5. QED
      BY <2>1, <2>2, <2>3, <2>4
  <1>4. QED
    BY <1>1, <1>2, <1>3, ListMayChange

\* A run that starts from the current mark starts for a later occurrence.
LEMMA TickKeepsMark ==
  ASSUME IInv, IInv', NEW id \in Id, Marked(id), ~MarkLost(id), ~StaleStart(id), TickStep
  PROVE  Marked(id)'
  <1> DEFINE s == Head(tick.todo)
  <1>1. UNCHANGED <<list, taken>>
    BY DEF TickStep, store
  <1>2. \/ run' = run
        \/ /\ run.pc = "idle" /\ Due(s, tick.now)
           /\ run' = [pc |-> "running", now |-> tick.now, sch |-> s, read |-> None]
    BY DEF TickStep
  <1>3. CASE run' = run
    BY <1>1, <1>3, ListMayChange DEF IInv, TypeOK
  <1>4. CASE /\ run.pc = "idle" /\ Due(s, tick.now)
             /\ run' = [pc |-> "running", now |-> tick.now, sch |-> s, read |-> None]
    <2>1. run'.pc = "running" /\ run'.sch = s /\ run'.now = tick.now
      BY <1>4
    <2>2. s \in Schedule /\ tick.now \in 1..MaxClock
      BY <2>1 DEF IInv, HoldInv, TypeOK
    <2>3. Today(s, tick.now) \in Nat /\ Slot \subseteq Nat \ {0}
      BY <2>2, TodayIsNat DEF Slot
    <2>4. s.last \in Nat
      BY <2>2, SchedulerAssumption DEF Schedule
    <2> HIDE DEF s
    <2>5. \A t \in Slot : taken'[id][t] <= 1
      BY <1>1 DEF Marked
    <2>6. id \in Ids(list) => \A t \in Slot : taken[id][t] # 0 => t <= LastOf(list, id)
      BY <1>4 DEF Marked, Unmarked, UpTo
    <2>7. ASSUME s.id = id
          PROVE  /\ \A t \in Slot : taken[id][t] # 0 => t < Today(s, tick.now)
                 /\ Today(s, tick.now) <= tick.now
      <3>1. id \in Ids(list) /\ s.last = LastOf(list, id)
        BY <1>4, <2>1, <2>7 DEF StaleStart
      <3>2. \A t \in Slot : taken[id][t] # 0 => t <= s.last
        BY <2>6, <3>1
      <3>3. Today(s, tick.now) <= tick.now /\ (s.last # 0 => s.last < Today(s, tick.now))
        BY <1>4, <2>2, <2>3 DEF Due, Never
      <3>4. ASSUME NEW t \in Slot, taken[id][t] # 0 PROVE t < Today(s, tick.now)
        <4>1. t \in Nat \ {0} /\ t <= s.last
          BY <2>3, <3>2, <3>4
        <4>2. QED
          BY <2>3, <2>4, <3>3, <4>1
      <3>5. QED
        BY <3>3, <3>4
    <2>8. QED
      BY <1>1, <2>1, <2>5, <2>6, <2>7 DEF Marked, Unmarked, UpTo
  <1>5. QED
    BY <1>2, <1>3, <1>4

\* The run backs up one occurrence, later than every one before, and marks it.
LEMMA RunKeepsMark ==
  ASSUME IInv, IInv', UsedInv, NEW id \in Id, Marked(id), ~MarkLost(id), Run
  PROVE  Marked(id)'
  <1> USE DEF store, env
  <1>1. /\ run.pc \in {"running", "marking"} => run.sch \in Schedule
        /\ run.pc = "replacing" => run.read \in Schedule /\ run.read.id = run.sch.id
        /\ run.now \in 1..MaxClock
    BY DEF IInv, HoldInv, TypeOK, UsedInv
  <1>2. \A x : [run EXCEPT !.pc = x].pc = x
    <2>1. run \in [pc : {"idle", "running", "marking", "replacing", "unlocking"},
                  now : 1..MaxClock, sch : Schedule \cup {None}, read : Schedule \cup {None}]
      BY DEF IInv, TypeOK
    <2>2. QED
      BY <2>1
  <1>3. CASE RunUnresolved \/ RunUnlock
    <2>1. UNCHANGED <<list, taken>> /\ run.pc \in {"running", "unlocking"} /\ run'.pc \in {"idle", "unlocking"}
      <3>1. CASE RunUnresolved
        BY <1>2, <3>1 DEF RunUnresolved
      <3>2. CASE RunUnlock
        BY <3>2 DEF RunUnlock, NoRun
      <3>3. QED
        BY <1>3, <3>1, <3>2
    <2>2. QED
      BY <2>1 DEF Marked, Unmarked, UpTo
  <1>4. CASE RunBackups
    <2> DEFINE o == Today(run.sch, run.now)
               i == run.sch.id
    <2>1. /\ run.pc = "running" /\ run'.pc = "marking" /\ run'.sch = run.sch /\ run'.now = run.now
          /\ list' = list
      BY <1>4 DEF RunBackups, IInv, TypeOK
    <2>2. taken' = [taken EXCEPT ![i][o] = IF @ < 2 THEN @ + 1 ELSE 2]
      BY <1>4 DEF RunBackups
    <2>3. taken \in [Id -> [Slot -> 0..2]] /\ o \in Nat /\ Slot \subseteq Nat
      <3>1. taken \in [Id -> [Slot -> 0..2]]
        BY DEF IInv, TypeOK
      <3>2. o \in Nat
        BY <1>1, <2>1, TodayIsNat
      <3>3. QED
        BY <3>1, <3>2 DEF Slot
    <2> HIDE DEF o
    <2>4. CASE id = i
      <3>1. (\A t \in Slot : taken[id][t] # 0 => t < o) /\ o <= run.now
        BY <2>1, <2>4 DEF Marked, o
      <3>2. \A t \in Slot : taken[id][t] <= 1
        BY DEF Marked
      <3>3. ASSUME NEW t \in Slot
            PROVE  taken'[id][t] <= 1 /\ (taken'[id][t] # 0 => t <= run.now)
        <4>1. CASE t = o
          <5>1. taken[id][t] = 0
            BY <2>3, <3>1, <4>1
          <5>2. taken'[id][t] = 1
            BY <2>2, <2>3, <2>4, <4>1, <5>1
          <5>3. QED
            BY <3>1, <4>1, <5>2
        <4>2. CASE t # o
          <5>1. taken'[id][t] = taken[id][t]
            BY <2>2, <2>3, <2>4, <4>2
          <5>2. QED
            BY <1>1, <2>3, <3>1, <3>2, <5>1
        <4>3. QED
          BY <4>1, <4>2
      <3>4. QED
        BY <2>1, <2>4, <3>3 DEF Marked, Unmarked, UpTo
    <2>5. CASE id # i
      <3>1. taken'[id] = taken[id]
        BY <2>2, <2>3, <2>5
      <3>2. QED
        BY <2>1, <2>5, <3>1 DEF Marked, Unmarked, UpTo
    <2>6. QED
      BY <2>4, <2>5
  <1>5. CASE MarkGet
    <2>1. UNCHANGED <<list, taken>> /\ run.pc = "marking"
      BY <1>5 DEF MarkGet
    <2>2. CASE run.sch.id \in Ids(list)
      <3>1. run'.pc = "replacing" /\ run'.sch = run.sch /\ run'.now = run.now
        BY <1>5, <2>2 DEF MarkGet, IInv, TypeOK
      <3>2. QED
        BY <2>1, <3>1 DEF Marked, Unmarked, UpTo
    <2>3. CASE run.sch.id \notin Ids(list)
      <3>1. run'.pc = "unlocking"
        BY <1>2, <1>5, <2>3 DEF MarkGet
      <3>2. QED
        BY <2>1, <2>3, <3>1 DEF Marked, Unmarked, UpTo
    <2>4. QED
      BY <2>2, <2>3
  <1>6. CASE MarkReplace
    <2> DEFINE s == [run.read EXCEPT !.last = run.now]
    <2>1. run.pc = "replacing" /\ Replace(s) /\ run'.pc = "unlocking" /\ taken' = taken
      BY <1>2, <1>6 DEF MarkReplace
    <2>2. s \in Schedule /\ s.last = run.now /\ s.id = run.sch.id
      <3>1. run.read \in Schedule /\ run.now \in 0..MaxClock
        BY <1>1, <2>1
      <3>2. QED
        BY <1>1, <2>1, <3>1 DEF Schedule
    <2> HIDE DEF s
    <2>3. TypeOK /\ WellFormed(list) /\ WellFormed(list')
      BY DEF IInv, TypeOK
    <2>4. Ids(list') = Ids(list)
      BY <2>1, <2>2, <2>3, ReplaceAddsNoId
    <2>5. \A t \in Slot : taken'[id][t] <= 1
      BY <2>1 DEF Marked
    <2>6. ASSUME id \in Ids(list') PROVE \A t \in Slot : taken[id][t] # 0 => t <= LastOf(list', id)
      <3>1. CASE id = run.sch.id
        <4>1. list' = Replaced(list, s)
          BY <2>1, <2>2, <2>4, <2>6, <3>1 DEF Replace, SaveWorks, SaveFails
        <4>2. LastOf(list', id) = run.now
          BY <2>2, <2>3, <2>4, <2>6, <3>1, <4>1, LastOfReplaced
        <4>3. QED
          BY <2>1, <3>1, <4>2 DEF Marked, Unmarked, UpTo
      <3>2. CASE id # run.sch.id
        <4>1. \A t \in Slot : taken[id][t] # 0 => t <= LastOf(list, id)
          BY <2>4, <2>6, <3>2 DEF Marked, Unmarked, UpTo
        <4>2. LastOf(list, id) \in Nat /\ LastOf(list', id) \in Nat /\ Slot \subseteq Nat
          BY <2>3, LastIsNat DEF Slot
        <4>3. LastOf(list, id) <= LastOf(list', id)
          BY <4>2 DEF MarkLost
        <4>4. ASSUME NEW t \in Slot, taken[id][t] # 0 PROVE t <= LastOf(list', id)
          <5>1. t \in Nat /\ t <= LastOf(list, id)
            BY <4>1, <4>2, <4>4
          <5>2. QED
            BY <4>2, <4>3, <5>1
        <4>5. QED
          BY <4>4
      <3>3. QED
        BY <3>1, <3>2
    <2>7. QED
      BY <2>1, <2>5, <2>6 DEF Marked, Unmarked, UpTo
  <1>7. QED
    BY <1>3, <1>4, <1>5, <1>6 DEF Run

\* A restart that forgets nothing of a schedule leaves its mark.
LEMMA CrashKeepsMark ==
  ASSUME IInv, NEW id \in Id, Marked(id), ~CutOff(id), Crash
  PROVE  Marked(id)'
  <1>1. list' = file /\ run'.pc = "idle" /\ taken' = taken
    BY DEF Crash, NoRun
  <1>2. crashes' # crashes
    BY SchedulerAssumption DEF Crash, IInv, TypeOK
  <1>3. /\ LastOf(list, id) = LastOf(file, id) /\ ~Unmarked(id)
        /\ id \in Ids(file) => id \in Ids(list)
    BY <1>2 DEF CutOff, Unmarked
  <1>4. QED
    BY <1>1, <1>3 DEF Marked, Unmarked, UpTo

LEMMA StepKeepsMarkInv ==
  ASSUME IInv, IInv', UsedInv, MarkInv, [Next /\ Records]_<<vars, unseen>>
  PROVE  MarkInv'
  <1>1. CASE Next /\ Records
    <2> SUFFICES ASSUME NEW id \in Id \ unseen' PROVE Marked(id)'
      BY DEF MarkInv
    <2>1. id \in Id /\ Marked(id) /\ ~MarkLost(id) /\ ~StaleStart(id) /\ ~CutOff(id)
      BY <1>1 DEF Records, MarkInv
    <2>2. CASE TickStep
      BY <2>1, <2>2, TickKeepsMark
    <2>3. CASE Run
      BY <2>1, <2>3, RunKeepsMark
    <2>4. CASE Crash
      BY <2>1, <2>4, CrashKeepsMark
    <2>5. CASE \/ \E c \in Creates : CreateAppend(c) \/ \E n \in Names, t \in Time : CreateCheck(c, n, t)
               \/ \E c \in Updates : UpdateReplace(c) \/ \E i \in Id : UpdateRead(c, i)
               \/ \E i \in Id : Delete(i)
               \/ TickBegin \/ Advance
      BY <2>1, <2>5, CallKeepsMark
    <2>6. QED
      BY <1>1, <2>2, <2>3, <2>4, <2>5 DEF Next, Tick
  <1>2. CASE UNCHANGED <<vars, unseen>>
    BY <1>2 DEF MarkInv, Marked, Unmarked, UpTo, vars, store
  <1>3. QED
    BY <1>1, <1>2

\* The scheduler with the record of the run, and none of the run's bounds.
RecordedSpec == HInit /\ [][Next /\ Records]_<<vars, unseen>>

\* An occurrence is backed up twice only if a mark was lost to a concurrent
\* update, a failed save or a restart, or not seen by a tick that had copied the
\* list before it: due, run and markRun leave no other way.
THEOREM RefiredOnlyIfUnseen == RecordedSpec => []RefiredOnlyUnseen
  <1>1. HInit => UsedInv /\ MarkInv
    <2> SUFFICES ASSUME HInit PROVE UsedInv /\ MarkInv
      OBVIOUS
    <2>1. taken = [i \in Id |-> [s \in Slot |-> 0]] /\ tick.todo = <<>> /\ run.pc = "idle" /\ list = <<>>
      BY DEF HInit, Init, NoTick, NoRun
    <2>2. \A c \in Creates : op[c].pc # "checked"
      BY DEF HInit, Init, NoOp, Call
    <2>3. Used = {} /\ Ids(list) = {}
      BY <2>1 DEF Used, Ids
    <2>4. UsedInv
      BY <2>1, <2>2, <2>3 DEF UsedInv
    <2>5. MarkInv
      BY <2>1, <2>3 DEF MarkInv, Marked, Unmarked
    <2>6. QED
      BY <2>4, <2>5
  <1>2. HInit => IInv
    BY InitIInv DEF HInit
  <1>3. ASSUME IInv, UsedInv, MarkInv, [Next /\ Records]_<<vars, unseen>>
        PROVE  IInv' /\ UsedInv' /\ MarkInv'
    <2>1. [Next]_vars
      BY <1>3
    <2>2. IInv'
      BY <1>3, <2>1, NextKeepsIInv
    <2>3. QED
      BY <1>3, <2>1, <2>2, StepKeepsUsedInv, StepKeepsMarkInv
  <1>4. MarkInv => RefiredOnlyUnseen
    BY DEF MarkInv, Marked, RefiredOnlyUnseen
  <1>5. QED
    BY <1>1, <1>2, <1>3, <1>4, PTL DEF RecordedSpec

=============================================================================

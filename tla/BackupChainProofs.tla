------------------------- MODULE BackupChainProofs -------------------------
(***************************************************************************)
(* Theorems about the backups of one machine, for any number of points,    *)
(* disks, calls, crashes, power changes and failed removals, unless a      *)
(* theorem says otherwise.                                                 *)
(***************************************************************************)
EXTENDS MCBackupChain, FiniteSetTheorems, WellFoundedInduction, TLAPS

PublishedPhase == {"complete", "removing", "deleted"}

Published(p) == phase[p] \in PublishedPhase

Deciding == {c \in Backups : op[c].pc = "decided"}

\* What a call holds is what its place in the code says.
Holds(c, n) ==
  /\ c.pc \in {"picking", "removing", "emptying", "dropping"} => c.todo \subseteq Point
  /\ c.pc \in {"removing", "emptying", "dropping", "restoring", "redefining"} => c.point \in Point
  /\ c.pc = "restoring" => c.todo \subseteq Disk
  /\ c.pc \in {"created", "polling", "verifying", "copying"} => c.point \in 1..n

HoldInv == \A o \in Call : Holds(op[o], made)

\* A point is still free for every backup that has decided.
ReservedInv == made + Cardinality(Deciding) <= MaxPoints

\* Points are made once: each call writes its own, a point being removed was
\* published, and none beyond the last one made is there.
PointInv ==
  /\ \A o \in Call : Writing(o) => phase[op[o].point] = "writing"
  /\ \A o \in Call : op[o].pc = "emptying" => Published(op[o].point)
  /\ \A a, b \in Call : Writing(a) /\ Writing(b) /\ op[a].point = op[b].point => a = b
  /\ \A p \in Point : p > made => phase[p] = "none"

\* A running job makes a point that is not complete, and whose call still polls.
JobInv ==
  job # 0 =>
    /\ phase[job] \in {"writing", "aborted", "leaked"}
    /\ \A o \in Call : Writing(o) /\ op[o].point = job => op[o].pc = "polling"

\* A point continues from an older one that has been published, as does the one
\* a backup has decided on.
ParentInv ==
  /\ \A p \in Point : parent[p] # 0 => parent[p] < p /\ Published(parent[p])
  /\ \A o \in Call : op[o].pc = "decided" /\ op[o].parent # 0 => Published(op[o].parent)

\* Unless a restore has replaced some disk just now, every checkpoint but those
\* left behind has its bitmap on every disk.
BitmapInv ==
  (\A r \in Restores : op[r].pc = "restoring" => op[r].todo = Disk) =>
    \A d \in Disk : checkpoints \ stale \subseteq bitmaps[d]

TypeInv == TypeOK /\ HoldInv /\ ReservedInv

LibInv == PointInv /\ JobInv /\ ParentInv /\ ListedImagesMade

IInv == TypeInv /\ LibInv /\ BitmapInv

-----------------------------------------------------------------------------
(***************************************************************************)
(* Numbers, least and greatest elements                                    *)
(***************************************************************************)

LEMMA Numbers ==
  /\ MaxPoints \in Nat \ {0} /\ NumDisks \in Nat \ {0} /\ KeepLast \in Nat \ {0}
  /\ MaxPower \in Nat /\ MaxCrashes \in Nat /\ MaxFaults \in Nat
  BY BackupChainAssumption

LEMMA LeastExists ==
  ASSUME NEW T \in SUBSET Nat, T # {}
  PROVE  \E x \in T : \A y \in T : x <= y
  <1> DEFINE R == OpToRel(<, Nat)
  <1>1. \A x, y \in Nat : y < x => <<y, x>> \in R
    BY DEF OpToRel
  <1>2. IsWellFoundedOn(R, Nat)
    BY NatLessThanWellFounded
  <1> HIDE DEF R
  <1>3. PICK x \in T : \A y \in T : ~(<<y, x>> \in R)
    BY <1>2, WFMin
  <1>4. ASSUME NEW y \in T PROVE x <= y
    <2>1. x \in Nat /\ y \in Nat
      OBVIOUS
    <2>2. ~(y < x)
      BY <2>1, <1>1, <1>3
    <2>3. QED
      BY <2>1, <2>2
  <1>5. QED
    BY <1>4

LEMMA MinIsLeast ==
  ASSUME NEW T \in SUBSET Nat, T # {}
  PROVE  Min(T) \in T /\ \A y \in T : Min(T) <= y
  <1>1. \E x \in T : \A y \in T : x <= y
    BY LeastExists
  <1>2. QED
    BY <1>1 DEF Min

LEMMA GreatestExists ==
  ASSUME NEW N \in Nat, NEW T \in SUBSET (0..N), T # {}
  PROVE  \E x \in T : \A y \in T : y <= x
  <1> DEFINE U == {n \in 0..N : N - n \in T}
  <1>1. U \in SUBSET Nat /\ U # {}
    <2>1. PICK t \in T : TRUE
      OBVIOUS
    <2>2. N - t \in 0..N /\ N - (N - t) = t
      OBVIOUS
    <2>3. QED
      BY <2>1, <2>2
  <1>2. PICK m \in U : \A y \in U : m <= y
    <2> HIDE DEF U
    <2> QED BY <1>1, LeastExists
  <1>3. N - m \in T
    OBVIOUS
  <1>4. \A y \in T : y <= N - m
    <2> SUFFICES ASSUME NEW y \in T PROVE y <= N - m
      OBVIOUS
    <2>1. N - y \in U
      <3>1. N - y \in 0..N /\ N - (N - y) = y
        OBVIOUS
      <3> QED BY <3>1
    <2>2. QED
      BY <2>1, <1>2
  <1>5. QED
    BY <1>3, <1>4

LEMMA MaxIsGreatest ==
  ASSUME NEW T \in SUBSET Point, T # {}
  PROVE  Max(T) \in T /\ \A y \in T : y <= Max(T)
  <1>1. T \in SUBSET (0..MaxPoints) /\ MaxPoints \in Nat
    BY Numbers DEF Point
  <1>2. PICK x \in T : \A y \in T : y <= x
    BY <1>1, GreatestExists
  <1>3. \A y \in T : x >= y
    BY <1>1, <1>2
  <1>4. Max(T) \in T /\ \A y \in T : Max(T) >= y
    BY <1>3 DEF Max
  <1>5. QED
    BY <1>1, <1>4

LEMMA NewestTyped ==
  /\ Listed \subseteq Point
  /\ Newest \in 0..MaxPoints
  /\ Newest # 0 => Newest \in Listed
  /\ \A p \in Listed : p <= Newest
  <1>1. Listed \in SUBSET Point
    BY DEF Listed
  <1>2. CASE Listed = {}
    BY <1>2, Numbers DEF Newest
  <1>3. CASE Listed # {}
    <2>1. Max(Listed) \in Listed /\ \A p \in Listed : p <= Max(Listed)
      BY <1>1, <1>3, MaxIsGreatest
    <2>2. Newest = Max(Listed)
      BY <1>3 DEF Newest
    <2>3. Newest \in Listed /\ \A p \in Listed : p <= Newest
      BY <2>1, <2>2
    <2>4. Newest \in Point
      BY <1>1, <2>3
    <2>5. Newest \in 0..MaxPoints
      BY <2>4, Numbers DEF Point
    <2>6. QED
      BY <1>1, <2>3, <2>5
  <1>4. QED
    BY <1>1, <1>2, <1>3

LEMMA AnchorTyped ==
  /\ Anchor \in 0..MaxPoints
  /\ Anchor # 0 => Anchor = Newest /\ Anchor \in Listed
  BY NewestTyped, Numbers DEF Anchor

\* What retention drops are listed points.
LEMMA ExpiredTyped == Expired(Listed) \subseteq Listed
  BY DEF Expired

LEMMA NextDroppedTyped ==
  ASSUME NEW T \in SUBSET Point, T # {}
  PROVE  /\ NextDropped(T) \in T
         /\ \A y \in T : y <= NextDropped(T)
  BY MaxIsGreatest DEF NextDropped

\* The calls that have decided are finitely many.
LEMMA DecidingFinite == IsFiniteSet(Deciding) /\ Cardinality(Deciding) \in Nat
  <1>1. IsFiniteSet(Deciding)
    BY BackupChainAssumption, FS_Subset DEF Deciding
  <1>2. QED
    BY <1>1, FS_CardinalityType

-----------------------------------------------------------------------------
(***************************************************************************)
(* Types                                                                   *)
(***************************************************************************)

Places ==
  {"idle", "decided", "created", "polling", "verifying", "copying", "done",
   "picking", "removing", "emptying", "dropping", "restoring", "redefining"}

LEMMA IdleTyped == Idle \in OpState
  BY Numbers DEF Idle, OpState

LEMMA StepTyped ==
  ASSUME op \in [Call -> OpState], NEW o \in Call, NEW pc \in Places, Step(o, pc)
  PROVE  /\ op' \in [Call -> OpState]
         /\ \A x \in Call \ {o} : op'[x] = op[x]
         /\ /\ op'[o].pc = pc /\ op'[o].point = op[o].point /\ op'[o].parent = op[o].parent
            /\ op'[o].todo = op[o].todo
  BY DEF Step, OpState, Places

LEMMA ReturnTyped ==
  ASSUME op \in [Call -> OpState], NEW o \in Call, Return(o)
  PROVE  /\ op' \in [Call -> OpState]
         /\ \A x \in Call \ {o} : op'[x] = op[x]
         /\ op'[o] = Idle
  BY IdleTyped DEF Return

LEMMA InitTypeInv == Init => TypeInv
  <1> SUFFICES ASSUME Init PROVE TypeInv
    OBVIOUS
  <1>1. TypeOK
    <2>1. op \in [Call -> OpState] /\ stale \subseteq Point
      BY IdleTyped DEF Init
    <2>2. LibTypeOK
      BY Numbers DEF Init, LibTypeOK, Phase
    <2>3. DomTypeOK
      BY Numbers DEF Init, DomTypeOK
    <2>4. EnvTypeOK
      BY Numbers DEF Init, EnvTypeOK
    <2>5. QED
      BY <2>1, <2>2, <2>3, <2>4 DEF TypeOK
  <1>2. \A o \in Call : op[o] = Idle
    BY DEF Init
  <1>3. Deciding = {}
    BY <1>2 DEF Deciding, Call, Idle
  <1>4. HoldInv
    BY <1>2 DEF HoldInv, Holds, Idle
  <1>5. ReservedInv
    BY <1>3, FS_EmptySet, Numbers DEF Init, ReservedInv
  <1>6. QED
    BY <1>1, <1>4, <1>5 DEF TypeInv

\* No point is taken by a call that does not decide.
LEMMA ReservedKept ==
  ASSUME TypeOK, ReservedInv, made' = made,
         \A c \in Backups : op'[c].pc = "decided" => op[c].pc = "decided"
  PROVE  ReservedInv'
  <1>1. Deciding' \in SUBSET Deciding
    BY DEF Deciding
  <1>2. Cardinality(Deciding') <= Cardinality(Deciding) /\ Cardinality(Deciding') \in Nat
    BY <1>1, DecidingFinite, FS_Subset, FS_CardinalityType
  <1>3. made \in Nat
    BY DEF TypeOK, LibTypeOK
  <1>4. QED
    BY <1>2, <1>3, DecidingFinite, Numbers DEF ReservedInv

LEMMA HoldKept ==
  ASSUME HoldInv, made' = made, NEW o \in Call,
         \A x \in Call \ {o} : op'[x] = op[x], Holds(op'[o], made)
  PROVE  HoldInv'
  BY DEF HoldInv

\* A step that only moves or ends a call, or changes what it has to do.
LEMMA CallTyped ==
  ASSUME TypeInv, LibTypeOK', DomTypeOK', stale' \subseteq Point, EnvTypeOK', made' = made,
         NEW o \in Call,
         op' \in [Call -> OpState],
         \A x \in Call \ {o} : op'[x] = op[x],
         Holds(op'[o], made), op'[o].pc # "decided"
  PROVE  TypeInv'
  <1>1. TypeOK'
    BY DEF TypeOK
  <1>2. HoldInv'
    BY HoldKept DEF TypeInv
  <1>3. ReservedInv'
    BY ReservedKept DEF TypeInv, Call
  <1>4. QED
    BY <1>1, <1>2, <1>3 DEF TypeInv

LEMMA LibSame == LibTypeOK /\ UNCHANGED lib => LibTypeOK'
  BY DEF lib, LibTypeOK

LEMMA DomSame == DomTypeOK /\ UNCHANGED dom => DomTypeOK'
  BY DEF dom, DomTypeOK

LEMMA EnvSame == EnvTypeOK /\ UNCHANGED env => EnvTypeOK'
  BY DEF env, EnvTypeOK

LEMMA BackupDecideTyped ==
  ASSUME TypeInv, NEW b \in Backups, NEW q \in Requests, BackupDecide(b, q)
  PROVE  TypeInv'
  <1>1. b \in Call /\ op[b] \in OpState
    BY DEF Call, TypeInv, TypeOK
  <1> DEFINE a == IF q = "full" THEN 0 ELSE Anchor
  <1>2. op' = [op EXCEPT ![b].pc = "decided", ![b].parent = a] /\ a \in 0..MaxPoints
    BY AnchorTyped, Numbers DEF BackupDecide
  <1> HIDE DEF a
  <1>3. op' \in [Call -> OpState] /\ (\A x \in Call \ {b} : op'[x] = op[x]) /\ op'[b].pc = "decided"
    BY <1>1, <1>2 DEF OpState, TypeInv, TypeOK
  <1>4. TypeOK'
    BY <1>3, LibSame, DomSame, EnvSame DEF BackupDecide, TypeInv, TypeOK
  <1>5. HoldInv'
    <2>1. Holds(op'[b], made)
      BY <1>3 DEF Holds
    <2>2. QED
      BY <1>1, <1>3, <2>1, HoldKept DEF BackupDecide, TypeInv, lib
  <1>6. ReservedInv'
    <2>1. Deciding' = Deciding \cup {b} /\ b \notin Deciding
      BY <1>3 DEF BackupDecide, Deciding, Call
    <2>2. Cardinality(Deciding') = Cardinality(Deciding) + 1
      BY <2>1, DecidingFinite, FS_AddElement
    <2>3. made + Cardinality(Deciding) < MaxPoints /\ made' = made /\ made \in Nat
      BY DEF BackupDecide, Deciding, lib, TypeInv, TypeOK, LibTypeOK
    <2>4. QED
      BY <2>2, <2>3, DecidingFinite, Numbers DEF ReservedInv
  <1>7. QED
    BY <1>4, <1>5, <1>6 DEF TypeInv

LEMMA BackupCreateTyped ==
  ASSUME TypeInv, NEW b \in Backups, BackupCreate(b)
  PROVE  TypeInv'
  <1>1. b \in Call /\ op[b] \in OpState
    BY DEF Call, TypeInv, TypeOK
  <1>2. made \in 0..MaxPoints /\ made' = made + 1
    BY DEF BackupCreate, TypeInv, TypeOK, LibTypeOK
  <1>3. b \in Deciding
    BY DEF BackupCreate, Deciding
  <1>4. Cardinality(Deciding \ {b}) = Cardinality(Deciding) - 1 /\ Cardinality(Deciding \ {b}) \in Nat
    BY <1>3, DecidingFinite, FS_RemoveElement, FS_CardinalityType
  <1>5. made' \in Point /\ made' + Cardinality(Deciding \ {b}) <= MaxPoints
    BY <1>2, <1>4, DecidingFinite, Numbers DEF TypeInv, ReservedInv, Point
  <1> DEFINE pc == IF vm = "stopped" THEN "copying" ELSE "created"
             a == IF vm = "stopped" THEN 0 ELSE op[b].parent
  <1>6. op' = [op EXCEPT ![b].pc = pc, ![b].point = made'] /\ pc \in {"copying", "created"}
        /\ phase' = [phase EXCEPT ![made'] = "writing"]
        /\ parent' = [parent EXCEPT ![made'] = a]
    BY <1>2 DEF BackupCreate
  <1> HIDE DEF pc
  <1>7. op' \in [Call -> OpState] /\ (\A x \in Call \ {b} : op'[x] = op[x])
        /\ op'[b].pc \in {"copying", "created"} /\ op'[b].point = made'
    <2>1. made' \in 0..MaxPoints
      BY <1>5, Numbers DEF Point
    <2>2. QED
      BY <1>1, <1>6, <2>1 DEF OpState, TypeInv, TypeOK
  <1>8. LibTypeOK'
    <2>1. a \in 0..MaxPoints
      BY <1>1, Numbers DEF OpState
    <2> HIDE DEF a
    <2>3. anchored' \subseteq anchored \cup {made'} /\ image' = image
      BY <1>2 DEF BackupCreate
    <2>4. QED
      BY <1>5, <1>6, <2>1, <2>3, Numbers DEF LibTypeOK, TypeInv, TypeOK, Phase, Point
  <1>9. TypeOK'
    BY <1>7, <1>8, DomSame, EnvSame DEF BackupCreate, TypeInv, TypeOK
  <1>10. HoldInv'
    BY <1>2, <1>5, <1>7, Numbers DEF HoldInv, Holds, TypeInv, Point
  <1>11. ReservedInv'
    <2>1. Deciding' = Deciding \ {b}
      BY <1>1, <1>7 DEF Deciding, Call
    <2>2. QED
      BY <1>5, <2>1 DEF ReservedInv
  <1>12. QED
    BY <1>9, <1>10, <1>11 DEF TypeInv

LEMMA MoveTyped ==
  ASSUME TypeInv, LibTypeOK', DomTypeOK', stale' \subseteq Point, EnvTypeOK', made' = made,
         NEW o \in Call, NEW pc \in Places \ {"decided"}, Step(o, pc),
         Holds([pc |-> pc, point |-> op[o].point, todo |-> op[o].todo], made)
  PROVE  TypeInv'
  <1>1. op' \in [Call -> OpState] /\ (\A x \in Call \ {o} : op'[x] = op[x])
        /\ op'[o].pc = pc /\ op'[o].point = op[o].point /\ op'[o].todo = op[o].todo
    BY StepTyped DEF TypeInv, TypeOK
  <1>2. Holds(op'[o], made)
    BY <1>1 DEF Holds
  <1>3. QED
    BY <1>1, <1>2, CallTyped

LEMMA ReturnKeepsType ==
  ASSUME TypeInv, LibTypeOK', DomTypeOK', stale' \subseteq Point, EnvTypeOK', made' = made,
         NEW o \in Call, Return(o)
  PROVE  TypeInv'
  <1>1. op' \in [Call -> OpState] /\ (\A x \in Call \ {o} : op'[x] = op[x]) /\ op'[o] = Idle
    BY ReturnTyped DEF TypeInv, TypeOK
  <1>2. Holds(Idle, made) /\ Idle.pc # "decided"
    BY DEF Holds, Idle
  <1>3. QED
    BY <1>1, <1>2, CallTyped

\* A step that touches no call.
LEMMA OpSameTyped ==
  ASSUME TypeInv, LibTypeOK', DomTypeOK', stale' \subseteq Point, EnvTypeOK', made' = made, op' = op
  PROVE  TypeInv'
  BY DEF TypeInv, TypeOK, HoldInv, ReservedInv, Deciding

LEMMA JobStopsTyped ==
  ASSUME TypeOK, NEW result \in {"whole", "partial", "none"}, JobStops(result)
  PROVE  /\ job' \in 0..MaxPoints
         /\ image' \in [Point -> {"none", "partial", "whole", "removed"}]
  BY Numbers DEF JobStops, TypeOK, LibTypeOK, DomTypeOK, Point

LEMMA BackupStepsTyped ==
  ASSUME TypeInv, NEW b \in Backups, BackupSteps(b)
  PROVE  TypeInv'
  <1>1. b \in Call /\ op[b] \in OpState
    BY DEF Call, TypeInv, TypeOK
  <1>2. TypeOK /\ LibTypeOK /\ DomTypeOK /\ EnvTypeOK /\ stale \subseteq Point /\ Holds(op[b], made)
    BY <1>1 DEF TypeInv, TypeOK, HoldInv
  <1>3. op[b].pc \in {"created", "polling", "verifying", "copying"} => op[b].point \in Point
    BY <1>2, Numbers DEF Holds, LibTypeOK, Point
  <1>4. CASE BackupCreate(b)
    BY <1>4, BackupCreateTyped
  <1>5. CASE JobBegin(b)
    <2>1. DomTypeOK'
      <3>1. op[b].point \in Point /\ op[b].point \in 0..MaxPoints
        BY <1>1, <1>3, <1>5 DEF JobBegin, OpState
      <3>2. QED
        BY <1>2, <1>5, <3>1 DEF JobBegin, DomTypeOK
    <2>2. Holds([pc |-> "polling", point |-> op[b].point, todo |-> op[b].todo], made)
      BY <1>2, <1>5 DEF JobBegin, Holds
    <2>3. stale' \subseteq Point
      BY <1>2, <1>3, <1>5 DEF JobBegin
    <2>4. QED
      BY <1>1, <1>2, <1>5, <2>1, <2>2, <2>3, MoveTyped, LibSame, EnvSame DEF JobBegin, Places, lib
  <1>6. CASE BackupPoll(b)
    <2>1. Holds([pc |-> "verifying", point |-> op[b].point, todo |-> op[b].todo], made)
      BY <1>2, <1>6 DEF BackupPoll, Holds
    <2>2. QED
      BY <1>1, <1>2, <1>6, <2>1, MoveTyped, LibSame, DomSame, EnvSame DEF BackupPoll, Places, lib
  <1>7. CASE BackupCancel(b)
    <2>1. LibTypeOK'
      BY <1>2, <1>3, <1>7, JobStopsTyped DEF BackupCancel, Abort, LibTypeOK, Phase
    <2>2. DomTypeOK'
      BY <1>2, <1>7, JobStopsTyped DEF BackupCancel, DomTypeOK
    <2>3. QED
      BY <1>1, <1>2, <1>7, <2>1, <2>2, ReturnKeepsType, EnvSame DEF BackupCancel
  <1>8. CASE BackupFails(b)
    <2>1. LibTypeOK'
      BY <1>2, <1>3, <1>8 DEF BackupFails, Abort, LibTypeOK, Phase
    <2>2. QED
      BY <1>1, <1>2, <1>8, <2>1, ReturnKeepsType, DomSame, EnvSame DEF BackupFails
  <1>9. CASE BackupFinish(b)
    <2>1. LibTypeOK'
      BY <1>2, <1>3, <1>9 DEF BackupFinish, Complete, LibTypeOK, Phase
    <2>2. QED
      BY <1>1, <1>2, <1>9, <2>1, MoveTyped, DomSame, EnvSame DEF BackupFinish, Complete, Places, Holds
  <1>10. CASE OfflineFinish(b)
    <2>1. LibTypeOK'
      BY <1>2, <1>3, <1>10 DEF OfflineFinish, Complete, LibTypeOK, Phase
    <2>2. QED
      BY <1>1, <1>2, <1>10, <2>1, MoveTyped, DomSame, EnvSame DEF OfflineFinish, Complete, Places, Holds
  <1>11. CASE BackupReturn(b)
    BY <1>1, <1>2, <1>11, ReturnKeepsType, LibSame, DomSame, EnvSame DEF BackupReturn, lib
  <1>12. QED
    BY <1>4, <1>5, <1>6, <1>7, <1>8, <1>9, <1>10, <1>11 DEF BackupSteps

LEMMA DeleteBeginTyped ==
  ASSUME TypeInv, NEW c \in Deletes, NEW p \in Listed, DeleteBegin(c, p)
  PROVE  TypeInv'
  <1>1. c \in Call /\ op[c] \in OpState /\ p \in Point
    BY NewestTyped DEF Call, TypeInv, TypeOK
  <1>2. op' \in [Call -> OpState] /\ (\A x \in Call \ {c} : op'[x] = op[x])
        /\ op'[c].pc = "picking" /\ op'[c].todo = {p}
    BY <1>1 DEF DeleteBegin, OpState, TypeInv, TypeOK
  <1>3. Holds(op'[c], made)
    BY <1>1, <1>2 DEF Holds
  <1>4. QED
    BY <1>1, <1>2, <1>3, CallTyped, LibSame, DomSame, EnvSame DEF DeleteBegin, TypeInv, TypeOK, lib

LEMMA PruneBeginTyped ==
  ASSUME TypeInv, NEW c \in Prunes, PruneBegin(c)
  PROVE  TypeInv'
  <1>1. c \in Call /\ op[c] \in OpState /\ Expired(Listed) \subseteq Point
    BY NewestTyped, ExpiredTyped DEF Call, TypeInv, TypeOK
  <1>2. op' \in [Call -> OpState] /\ (\A x \in Call \ {c} : op'[x] = op[x])
        /\ op'[c].pc = "picking" /\ op'[c].todo = Expired(Listed)
    BY <1>1 DEF PruneBegin, OpState, TypeInv, TypeOK
  <1>3. Holds(op'[c], made)
    BY <1>1, <1>2 DEF Holds
  <1>4. QED
    BY <1>1, <1>2, <1>3, CallTyped, LibSame, DomSame, EnvSame DEF PruneBegin, TypeInv, TypeOK, lib

LEMMA DeletePickTyped ==
  ASSUME TypeInv, NEW c \in Call, DeletePick(c)
  PROVE  TypeInv'
  <1>1. op[c] \in OpState /\ op[c].todo \subseteq Point
    BY DEF TypeInv, TypeOK, HoldInv, Holds, DeletePick
  <1>2. CASE op[c].todo = {}
    BY <1>2, ReturnKeepsType, LibSame, DomSame, EnvSame DEF DeletePick, TypeInv, TypeOK, lib
  <1>3. CASE op[c].todo # {}
    <2> DEFINE p == NextDropped(op[c].todo)
               pc == IF p \in Listed THEN "removing" ELSE "picking"
    <2>1. p \in Point /\ pc \in {"removing", "picking"}
      BY <1>1, <1>3, NextDroppedTyped
    <2>2. op' = [op EXCEPT ![c].todo = @ \ {p}, ![c].point = p, ![c].pc = pc]
      BY <1>3 DEF DeletePick
    <2> HIDE DEF p, pc
    <2>3. op' \in [Call -> OpState] /\ (\A x \in Call \ {c} : op'[x] = op[x])
          /\ op'[c].pc = pc /\ op'[c].point = p /\ op'[c].todo = op[c].todo \ {p}
      <3>1. p \in 0..MaxPoints
        BY <2>1, Numbers DEF Point
      <3>2. QED
        BY <1>1, <2>1, <2>2, <3>1 DEF OpState, TypeInv, TypeOK
    <2>4. Holds(op'[c], made)
      BY <1>1, <2>1, <2>3 DEF Holds
    <2>5. QED
      BY <2>1, <2>3, <2>4, CallTyped, LibSame, DomSame, EnvSame DEF DeletePick, TypeInv, TypeOK, lib
  <1>4. QED
    BY <1>2, <1>3

LEMMA DeleteStepsTyped ==
  ASSUME TypeInv, NEW c \in Deletes \cup Prunes, DeleteSteps(c)
  PROVE  TypeInv'
  <1>1. c \in Call /\ op[c] \in OpState
    BY DEF Call, TypeInv, TypeOK
  <1>2. TypeOK /\ LibTypeOK /\ DomTypeOK /\ EnvTypeOK /\ stale \subseteq Point /\ Holds(op[c], made)
    BY <1>1 DEF TypeInv, TypeOK, HoldInv
  <1>3. op[c].pc \in {"removing", "emptying", "dropping"} =>
          /\ op[c].point \in Point
          /\ \A pc \in {"picking", "emptying", "dropping"} :
               Holds([pc |-> pc, point |-> op[c].point, todo |-> op[c].todo], made)
    BY <1>2 DEF Holds
  <1>4. CASE DeletePick(c)
    BY <1>1, <1>4, DeletePickTyped
  <1>5. CASE DeleteEmpty(c)
    <2>1. LibTypeOK'
      BY <1>2, <1>3, <1>5 DEF DeleteEmpty, LibTypeOK, Phase
    <2>2. PICK pc \in {"picking", "emptying"} : Step(c, pc)
      BY <1>5 DEF DeleteEmpty
    <2>3. QED
      BY <1>1, <1>2, <1>3, <1>5, <2>1, <2>2, MoveTyped, DomSame, EnvSame DEF DeleteEmpty, Places
  <1>6. CASE DeleteDone(c)
    <2>1. LibTypeOK'
      BY <1>2, <1>3, <1>6 DEF DeleteDone, LibTypeOK, Phase
    <2> DEFINE pc == IF op[c].point \in anchored THEN "dropping" ELSE "picking"
    <2>2. Step(c, pc) /\ pc \in {"picking", "dropping"}
      BY <1>6 DEF DeleteDone
    <2> HIDE DEF pc
    <2>3. QED
      BY <1>1, <1>2, <1>3, <1>6, <2>1, <2>2, MoveTyped, DomSame, EnvSame DEF DeleteDone, Places
  <1>7. CASE DeleteFails(c)
    <2>1. EnvTypeOK'
      BY <1>2, <1>7, Numbers DEF DeleteFails, EnvTypeOK
    <2>2. QED
      BY <1>1, <1>2, <1>3, <1>7, <2>1, MoveTyped, LibSame, DomSame DEF DeleteFails, Places, lib
  <1>8. CASE DropCheckpoint(c)
    <2>1. DomTypeOK'
      BY <1>2, <1>3, <1>8 DEF DropCheckpoint, DomTypeOK
    <2>2. QED
      BY <1>1, <1>2, <1>3, <1>8, <2>1, MoveTyped, LibSame, EnvSame DEF DropCheckpoint, Places, lib
  <1>9. QED
    BY <1>4, <1>5, <1>6, <1>7, <1>8 DEF DeleteSteps

LEMMA RestoreBeginTyped ==
  ASSUME TypeInv, NEW r \in Restores, NEW p \in Point, RestoreBegin(r, p)
  PROVE  TypeInv'
  <1>1. r \in Call /\ op[r] \in OpState
    BY DEF Call, TypeInv, TypeOK
  <1>2. op' \in [Call -> OpState] /\ (\A x \in Call \ {r} : op'[x] = op[x])
        /\ op'[r].pc = "restoring" /\ op'[r].point = p /\ op'[r].todo = Disk
    <2>1. p \in 0..MaxPoints
      BY Numbers DEF Point
    <2>2. QED
      BY <1>1, <2>1 DEF RestoreBegin, OpState, TypeInv, TypeOK
  <1>3. Holds(op'[r], made)
    BY <1>1, <1>2 DEF Holds
  <1>4. QED
    BY <1>1, <1>2, <1>3, CallTyped, LibSame, DomSame, EnvSame DEF RestoreBegin, TypeInv, TypeOK, lib

LEMMA DisturbedTyped ==
  ASSUME TypeOK, CopiesDisturbed
  PROVE  image' \in [Point -> {"none", "partial", "whole", "removed"}]
  BY DEF TypeOK, LibTypeOK, CopiesDisturbed

LEMMA RestoreStepsTyped ==
  ASSUME TypeInv, NEW r \in Restores, RestoreSteps(r)
  PROVE  TypeInv'
  <1>1. r \in Call /\ op[r] \in OpState
    BY DEF Call, TypeInv, TypeOK
  <1>2. TypeOK /\ LibTypeOK /\ DomTypeOK /\ EnvTypeOK /\ stale \subseteq Point /\ Holds(op[r], made)
    BY <1>1 DEF TypeInv, TypeOK, HoldInv
  <1>3. CASE RestoreDisk(r)
    <2> DEFINE d == Min(op[r].todo)
    <2>1. d \in Disk /\ op[r].point \in Point
      <3>1. op[r].todo \in SUBSET Disk /\ op[r].todo # {} /\ op[r].point \in Point
        BY <1>2, <1>3 DEF RestoreDisk, Holds
      <3>2. op[r].todo \in SUBSET Nat
        BY <3>1, Numbers DEF Disk
      <3>3. QED
        BY <3>1, <3>2, MinIsLeast
    <2>2. /\ content' = [content EXCEPT ![d] = op[r].point]
          /\ bitmaps' = [bitmaps EXCEPT ![d] = {}]
          /\ detached' = IF vm = "running" THEN detached \cup {d} ELSE detached
          /\ op' = [op EXCEPT ![r].todo = @ \ {d}]
          /\ stale' = stale
      BY <1>3 DEF RestoreDisk
    <2> HIDE DEF d
    <2>3. DomTypeOK'
      <3>1. op[r].point \in 0..MaxPoints
        BY <1>1 DEF OpState
      <3>2. QED
        BY <1>2, <1>3, <2>1, <2>2, <3>1 DEF RestoreDisk, DomTypeOK
    <2>4. LibTypeOK'
      BY <1>2, <1>3, DisturbedTyped DEF RestoreDisk, LibTypeOK
    <2>5. op' \in [Call -> OpState] /\ (\A x \in Call \ {r} : op'[x] = op[x])
          /\ op'[r].pc = op[r].pc /\ op'[r].point = op[r].point /\ op'[r].todo = op[r].todo \ {d}
      BY <1>1, <1>2, <2>2 DEF OpState, TypeOK
    <2>6. Holds(op'[r], made) /\ op'[r].pc # "decided"
      BY <1>2, <1>3, <2>5 DEF RestoreDisk, Holds
    <2>7. stale' \subseteq Point
      BY <1>2, <2>2
    <2>8. QED
      BY <1>1, <1>2, <1>3, <2>3, <2>4, <2>5, <2>6, <2>7, CallTyped, EnvSame DEF RestoreDisk
  <1>4. CASE RestoreFails(r)
    <2>1. stale' \subseteq Point
      BY <1>2, <1>4 DEF RestoreFails, DomTypeOK
    <2>2. QED
      BY <1>1, <1>2, <1>4, <2>1, ReturnKeepsType, LibSame, DomSame, EnvSame DEF RestoreFails, lib
  <1>5. CASE RestoreDrop(r)
    <2>1. DomTypeOK'
      BY <1>2, <1>5 DEF RestoreDrop, DropCheckpoints, DomTypeOK
    <2>2. Holds([pc |-> "redefining", point |-> op[r].point, todo |-> op[r].todo], made)
      BY <1>2, <1>5 DEF RestoreDrop, Holds
    <2>3. stale' \subseteq Point
      BY <1>2, <1>5 DEF RestoreDrop, DropCheckpoints, DomTypeOK
    <2>4. QED
      BY <1>1, <1>2, <1>5, <2>1, <2>2, <2>3, MoveTyped, LibSame, EnvSame DEF RestoreDrop, Places, lib
  <1>6. CASE RestoreRedefine(r)
    <2>1. DomTypeOK'
      BY <1>2, <1>6 DEF RestoreRedefine, DomTypeOK
    <2>2. QED
      BY <1>1, <1>2, <1>6, <2>1, ReturnKeepsType, LibSame, EnvSame DEF RestoreRedefine, lib
  <1>7. QED
    BY <1>3, <1>4, <1>5, <1>6 DEF RestoreSteps

LEMMA JobEndsTyped ==
  ASSUME TypeInv, NEW result \in {"whole", "partial", "none"}, JobEnds(result)
  PROVE  TypeInv'
  <1>1. LibTypeOK'
    BY JobStopsTyped DEF JobEnds, TypeInv, TypeOK, LibTypeOK
  <1>2. DomTypeOK'
    BY JobStopsTyped DEF JobEnds, TypeInv, TypeOK, DomTypeOK
  <1>3. QED
    BY <1>1, <1>2, OpSameTyped, EnvSame DEF JobEnds, TypeInv, TypeOK

LEMMA PowerTyped ==
  ASSUME TypeInv, PowerOn \/ PowerOff
  PROVE  TypeInv'
  <1>1. LibTypeOK'
    BY JobStopsTyped, DisturbedTyped DEF PowerOn, PowerOff, TypeInv, TypeOK, LibTypeOK
  <1>2. DomTypeOK'
    BY JobStopsTyped DEF PowerOn, PowerOff, TypeInv, TypeOK, DomTypeOK
  <1>3. EnvTypeOK'
    BY Numbers DEF PowerOn, PowerOff, TypeInv, TypeOK, EnvTypeOK
  <1>4. QED
    BY <1>1, <1>2, <1>3, OpSameTyped DEF PowerOn, PowerOff, TypeInv, TypeOK

LEMMA CrashTyped ==
  ASSUME TypeInv, Crash
  PROVE  TypeInv'
  <1>1. LibTypeOK'
    BY DEF Crash, TypeInv, TypeOK, LibTypeOK, Phase
  <1>2. EnvTypeOK'
    BY Numbers DEF Crash, TypeInv, TypeOK, EnvTypeOK
  <1>3. op' \in [Call -> OpState] /\ \A o \in Call : op'[o] = Idle
    BY IdleTyped DEF Crash
  <1>4. stale' \subseteq Point
    BY DEF Crash, TypeInv, TypeOK, DomTypeOK
  <1>5. TypeOK'
    BY <1>1, <1>2, <1>3, <1>4, DomSame DEF Crash, TypeInv, TypeOK
  <1>6. HoldInv'
    BY <1>3 DEF HoldInv, Holds, Idle
  <1>7. ReservedInv'
    BY <1>3, ReservedKept DEF Crash, TypeInv, Call, Idle
  <1>8. QED
    BY <1>5, <1>6, <1>7 DEF TypeInv

\* Every step keeps the types.
LEMMA NextTyped == TypeInv /\ [Next]_vars => TypeInv'
  <1> SUFFICES ASSUME TypeInv, [Next]_vars
               PROVE  TypeInv'
    OBVIOUS
  <1>1. ASSUME NEW b \in Backups, BackupSteps(b) PROVE TypeInv'
    BY <1>1, BackupStepsTyped
  <1>2. ASSUME NEW b \in Backups, NEW q \in Requests, BackupDecide(b, q) PROVE TypeInv'
    BY <1>2, BackupDecideTyped
  <1>3. ASSUME NEW c \in Deletes, NEW p \in Listed, DeleteBegin(c, p) PROVE TypeInv'
    BY <1>3, DeleteBeginTyped
  <1>4. ASSUME NEW c \in Prunes, PruneBegin(c) PROVE TypeInv'
    BY <1>4, PruneBeginTyped
  <1>5. ASSUME NEW c \in Deletes \cup Prunes, DeleteSteps(c) PROVE TypeInv'
    BY <1>5, DeleteStepsTyped
  <1>6. ASSUME NEW r \in Restores, RestoreSteps(r) PROVE TypeInv'
    BY <1>6, RestoreStepsTyped
  <1>7. ASSUME NEW r \in Restores, NEW p \in Point, RestoreBegin(r, p) PROVE TypeInv'
    BY <1>7, RestoreBeginTyped
  <1>8. ASSUME NEW result \in {"whole", "partial", "none"}, JobEnds(result) PROVE TypeInv'
    BY <1>8, JobEndsTyped
  <1>9. CASE PowerOn \/ PowerOff
    BY <1>9, PowerTyped
  <1>10. CASE Crash
    BY <1>10, CrashTyped
  <1>11. CASE UNCHANGED vars
    <2>1. UNCHANGED <<lib, dom, env>> /\ op' = op /\ stale' = stale /\ made' = made
      BY <1>11 DEF vars, lib
    <2>2. QED
      BY <2>1, LibSame, DomSame, EnvSame, OpSameTyped DEF TypeInv, TypeOK
  <1>12. QED
    BY <1>1, <1>2, <1>3, <1>4, <1>5, <1>6, <1>7, <1>8, <1>9, <1>10, <1>11 DEF Next

-----------------------------------------------------------------------------
(***************************************************************************)
(* The library                                                             *)
(***************************************************************************)

Seldom == {"idle", "done", "picking", "removing", "dropping", "restoring", "redefining"}

WritingPlaces == {"created", "polling", "verifying", "copying"}

\* A call takes a step that the library does not depend on.
Quiet(o) ==
  \/ op'[o] = op[o]
  \/ op'[o].pc \in Seldom
  \/ op'[o].pc = "decided" /\ (op'[o].parent = 0 \/ Published(op'[o].parent))
  \/ op'[o].pc = "emptying" /\ phase'[op'[o].point] \in PublishedPhase
  \/ /\ op[o].pc \in WritingPlaces /\ op'[o].pc \in WritingPlaces
     /\ op'[o].point = op[o].point
     /\ op'[o].pc # "polling" => job # op[o].point

LEMMA QuietKeepsLib ==
  ASSUME TypeInv, LibInv, made' = made, phase' = phase, parent' = parent, job' \in {0, job},
         \A p \in Listed : image'[p] # "none",
         \A o \in Call : Quiet(o)
  PROVE  LibInv'
  <1>1. PointInv'
    BY DEF LibInv, PointInv, Quiet, Writing, Published, PublishedPhase, Seldom, WritingPlaces
  <1>2. JobInv'
    BY DEF LibInv, JobInv, Quiet, Writing, Seldom, WritingPlaces
  <1>3. ParentInv'
    BY DEF LibInv, ParentInv, Quiet, Published, PublishedPhase, Seldom, WritingPlaces
  <1>4. ListedImagesMade'
    BY DEF ListedImagesMade, Listed
  <1>5. QED
    BY <1>1, <1>2, <1>3, <1>4 DEF LibInv

\* A backup that is making its point ends: the point is complete, with images
\* that no job writes any more, or aborted.
LEMMA WriterLeaves ==
  ASSUME TypeInv, LibInv, NEW b \in Call, Writing(b), NEW v \in {"complete", "aborted"},
         phase' = [phase EXCEPT ![op[b].point] = v],
         made' = made, parent' = parent, job' \in {0, job},
         \A x \in Call \ {b} : op'[x] = op[x], op'[b].pc \in {"idle", "done"},
         \A p \in Listed : image'[p] # "none",
         v = "complete" => image'[op[b].point] # "none" /\ op[b].pc # "polling"
  PROVE  LibInv'
  <1> DEFINE p == op[b].point
  <1>1. /\ p \in Point /\ phase[p] = "writing" /\ phase \in [Point -> Phase] /\ p <= made
        /\ made \in 0..MaxPoints
    BY Numbers DEF TypeInv, TypeOK, LibTypeOK, HoldInv, Holds, Writing, LibInv, PointInv, Point
  <1>2. \A x \in Call \ {b} : Writing(x) => op[x].point # p /\ op[x].point \in Point
    BY Numbers DEF LibInv, PointInv, TypeInv, TypeOK, LibTypeOK, HoldInv, Holds, Writing, Point
  <1>3. \A q \in Point : q # p => phase'[q] = phase[q]
    BY <1>1
  <1>4. phase'[p] = v
    BY <1>1
  <1>5. \A q \in Point : Published(q) => phase'[q] \in PublishedPhase
    BY <1>1, <1>3 DEF Published, PublishedPhase
  <1>6. PointInv'
    <2>1. \A o \in Call : Writing(o)' => o # b /\ Writing(o) /\ op'[o].point = op[o].point
      BY DEF Writing
    <2>2. \A o \in Call : Writing(o)' => phase'[op'[o].point] = "writing"
      BY <1>2, <1>3, <2>1 DEF LibInv, PointInv
    <2>3. \A o \in Call : op'[o].pc = "emptying" => phase'[op'[o].point] \in PublishedPhase
      BY <1>5 DEF LibInv, PointInv, TypeInv, HoldInv, Holds
    <2>4. \A x, y \in Call : Writing(x)' /\ Writing(y)' /\ op'[x].point = op'[y].point => x = y
      BY <2>1 DEF LibInv, PointInv
    <2>5. \A q \in Point : q > made' => phase'[q] = "none"
      BY <1>1, <1>3 DEF LibInv, PointInv, Point
    <2>6. QED
      BY <2>2, <2>3, <2>4, <2>5 DEF PointInv, Published
  <1>7. JobInv'
    <2>1. CASE job' = 0
      BY <2>1 DEF JobInv
    <2>2. CASE job' = job /\ job # 0
      <3>1. job \in Point
        BY <2>2, Numbers DEF TypeInv, TypeOK, DomTypeOK, Point
      <3>2. v = "complete" => job # p
        BY <2>2 DEF LibInv, JobInv
      <3>3. phase'[job] \in {"writing", "aborted", "leaked"}
        BY <1>3, <1>4, <2>2, <3>1, <3>2 DEF LibInv, JobInv
      <3>4. \A o \in Call : Writing(o)' /\ op'[o].point = job => op'[o].pc = "polling"
        BY <2>2 DEF LibInv, JobInv, Writing
      <3>5. QED
        BY <2>2, <3>3, <3>4 DEF JobInv
    <2>3. QED
      BY <2>1, <2>2
  <1>8. ParentInv'
    <2>1. \A q \in Point : parent[q] # 0 => parent[q] \in Point
      BY Numbers DEF TypeInv, TypeOK, LibTypeOK, Point
    <2>2. \A q \in Point : parent'[q] # 0 => parent'[q] < q /\ phase'[parent'[q]] \in PublishedPhase
      BY <1>5, <2>1 DEF LibInv, ParentInv
    <2>3. \A o \in Call : op'[o].pc = "decided" => op'[o] = op[o] /\ op[o].parent \in 0..MaxPoints
      BY DEF TypeInv, TypeOK, OpState
    <2>4. \A o \in Call : op'[o].pc = "decided" /\ op'[o].parent # 0 => phase'[op'[o].parent] \in PublishedPhase
      BY <1>5, <2>3, Numbers DEF LibInv, ParentInv, Point
    <2>5. QED
      BY <2>2, <2>4 DEF ParentInv, Published
  <1>9. ListedImagesMade'
    BY <1>3, <1>4 DEF ListedImagesMade, Listed
  <1>10. QED
    BY <1>6, <1>7, <1>8, <1>9 DEF LibInv

\* A deletion changes the phase of a published point, or its images.
LEMMA RemovalKeepsLib ==
  ASSUME TypeInv, LibInv, NEW c \in Call, NEW p \in Point, Published(p),
         phase' = phase \/ phase' = [phase EXCEPT ![p] = "removing"]
                        \/ phase' = [phase EXCEPT ![p] = "deleted"],
         made' = made, parent' = parent, job' = job,
         \A x \in Call \ {c} : op'[x] = op[x], op'[c].pc \in {"emptying", "dropping", "picking"},
         op'[c].point = p,
         image' = image \/ image' = [image EXCEPT ![p] = "removed"]
  PROVE  LibInv'
  <1>1. phase \in [Point -> Phase] /\ image \in [Point -> {"none", "partial", "whole", "removed"}]
        /\ made \in 0..MaxPoints
    BY DEF TypeInv, TypeOK, LibTypeOK
  <1>2. \A q \in Point : q # p => phase'[q] = phase[q]
    BY <1>1
  <1>3. phase'[p] \in PublishedPhase
    BY <1>1 DEF Published, PublishedPhase
  <1>4. \A q \in Point : Published(q) => phase'[q] \in PublishedPhase
    BY <1>2, <1>3 DEF Published, PublishedPhase
  <1>5. \A o \in Call : Writing(o)' => Writing(o) /\ op'[o] = op[o] /\ op[o].point # p /\ op[o].point \in Point
    BY Numbers DEF Writing, Published, PublishedPhase, LibInv, PointInv, TypeInv, HoldInv, Holds, TypeOK, LibTypeOK, Point
  <1>6. PointInv'
    <2>1. \A o \in Call : op'[o].pc = "emptying" => phase'[op'[o].point] \in PublishedPhase
      BY <1>3, <1>4 DEF LibInv, PointInv, TypeInv, HoldInv, Holds
    <2>2. \A q \in Point : q > made' => phase'[q] = "none"
      BY <1>2 DEF LibInv, PointInv, Published, PublishedPhase
    <2>3. QED
      BY <1>2, <1>5, <2>1, <2>2 DEF LibInv, PointInv, Published
  <1>7. JobInv'
    <2>1. job # 0 => job \in Point /\ job # p
      BY Numbers DEF TypeInv, TypeOK, DomTypeOK, Point, LibInv, JobInv, Published, PublishedPhase
    <2>2. QED
      BY <1>2, <1>5, <2>1 DEF LibInv, JobInv
  <1>8. ParentInv'
    <2>1. \A q \in Point : parent[q] # 0 => parent[q] \in Point
      BY Numbers DEF TypeInv, TypeOK, LibTypeOK, Point
    <2>2. \A q \in Point : parent'[q] # 0 => parent'[q] < q /\ phase'[parent'[q]] \in PublishedPhase
      BY <1>4, <2>1 DEF LibInv, ParentInv
    <2>3. \A o \in Call : op'[o].pc = "decided" => op'[o] = op[o] /\ op[o].parent \in 0..MaxPoints
      BY DEF TypeInv, TypeOK, OpState
    <2>4. \A o \in Call : op'[o].pc = "decided" /\ op'[o].parent # 0 => phase'[op'[o].parent] \in PublishedPhase
      BY <1>4, <2>3, Numbers DEF LibInv, ParentInv, Point
    <2>5. QED
      BY <2>2, <2>4 DEF ParentInv, Published
  <1>9. ListedImagesMade'
    BY <1>1, <1>2 DEF LibInv, ListedImagesMade, Listed
  <1>10. QED
    BY <1>6, <1>7, <1>8, <1>9 DEF LibInv

\* The images of a listed point are not what a job or a disturbed copy changes.
LEMMA ListedKeepImages ==
  ASSUME TypeInv, LibInv,
         \/ \E result \in {"whole", "partial", "none"} : JobStops(result)
         \/ CopiesDisturbed
         \/ image' = image
  PROVE  \A p \in Listed : image'[p] # "none"
  <1>1. image \in [Point -> {"none", "partial", "whole", "removed"}] /\ \A p \in Listed : image[p] # "none"
    BY DEF TypeInv, TypeOK, LibTypeOK, LibInv, ListedImagesMade
  <1>2. CASE \E result \in {"whole", "partial", "none"} : JobStops(result)
    <2>1. job # 0 => job \notin Listed
      BY DEF LibInv, JobInv, Listed
    <2>2. QED
      BY <1>1, <1>2, <2>1 DEF JobStops, Listed
  <1>3. CASE CopiesDisturbed
    BY <1>1, <1>3 DEF CopiesDisturbed, Listed
  <1>4. CASE image' = image
    BY <1>1, <1>4
  <1>5. QED
    BY <1>2, <1>3, <1>4

LEMMA BackupDecideKeepsLib ==
  ASSUME TypeInv, LibInv, NEW b \in Backups, NEW q \in Requests, BackupDecide(b, q)
  PROVE  LibInv'
  <1>1. b \in Call /\ op \in [Call -> OpState]
    BY DEF Call, TypeInv, TypeOK
  <1> DEFINE a == IF q = "full" THEN 0 ELSE Anchor
  <1>2. op' = [op EXCEPT ![b].pc = "decided", ![b].parent = a] /\ (a = 0 \/ Published(a))
    BY AnchorTyped DEF BackupDecide, Listed, Published, PublishedPhase
  <1> HIDE DEF a
  <1>3. \A o \in Call : Quiet(o)
    <2>1. \A x \in Call \ {b} : op'[x] = op[x]
      BY <1>1, <1>2
    <2>2. op'[b].pc = "decided" /\ op'[b].parent = a
      BY <1>1, <1>2 DEF OpState
    <2>3. QED
      BY <1>2, <2>1, <2>2 DEF Quiet
  <1>4. made' = made /\ phase' = phase /\ parent' = parent /\ image' = image /\ job' = job
    BY DEF BackupDecide, lib, dom
  <1>5. \A p \in Listed : image'[p] # "none"
    BY <1>4, ListedKeepImages
  <1>6. QED
    BY <1>3, <1>4, <1>5, QuietKeepsLib

LEMMA BackupCreateKeepsLib ==
  ASSUME TypeInv, LibInv, NEW b \in Backups, BackupCreate(b), TypeInv'
  PROVE  LibInv'
  <1> DEFINE p == made'
  <1>1. b \in Call /\ op \in [Call -> OpState] /\ made \in 0..MaxPoints /\ p = made + 1 /\ p \in Point
        /\ phase \in [Point -> Phase] /\ parent \in [Point -> 0..MaxPoints]
        /\ op[b].pc = "decided" /\ op[b].parent \in 0..MaxPoints
    BY Numbers DEF Call, TypeInv, TypeOK, LibTypeOK, BackupCreate, Point, OpState
  <1>2. phase[p] = "none"
    BY <1>1 DEF LibInv, PointInv
  <1> DEFINE pc == IF vm = "stopped" THEN "copying" ELSE "created"
             a == IF vm = "stopped" THEN 0 ELSE op[b].parent
  <1>3. op' = [op EXCEPT ![b].pc = pc, ![b].point = p] /\ pc \in {"copying", "created"}
        /\ phase' = [phase EXCEPT ![p] = "writing"]
        /\ parent' = [parent EXCEPT ![p] = a]
        /\ image' = image /\ job' = job
    BY <1>1 DEF BackupCreate, dom
  <1>4. a # 0 => a \in Point /\ Published(a) /\ a < p
    <2>1. a # 0 => a \in Point /\ Published(a)
      BY <1>1, Numbers DEF LibInv, ParentInv, Point
    <2>2. \A q \in Point : Published(q) => q <= made
      BY <1>1 DEF LibInv, PointInv, Published, PublishedPhase, Point
    <2>3. a # 0 => a <= made
      BY <2>1, <2>2
    <2>4. QED
      BY <1>1, <2>1, <2>3 DEF Point
  <1> HIDE DEF pc, a
  <1>5. (\A x \in Call \ {b} : op'[x] = op[x]) /\ op'[b].pc = pc /\ op'[b].point = p
    BY <1>1, <1>3 DEF OpState
  <1>6. (\A q \in Point \ {p} : phase'[q] = phase[q]) /\ phase'[p] = "writing"
    BY <1>1, <1>3
  <1>7. \A q \in Point : Published(q) => q # p /\ phase'[q] \in PublishedPhase
    BY <1>2, <1>6 DEF Published, PublishedPhase
  <1>8. \A x \in Call \ {b} : Writing(x) => op[x].point \in Point \ {p}
    BY <1>1, Numbers DEF TypeInv, HoldInv, Holds, Writing, Point
  <1>9. PointInv'
    <2>1. \A o \in Call : Writing(o)' => phase'[op'[o].point] = "writing"
      BY <1>5, <1>6, <1>8 DEF LibInv, PointInv, Writing
    <2>2. \A o \in Call : op'[o].pc = "emptying" => phase'[op'[o].point] \in PublishedPhase
      BY <1>3, <1>5, <1>7 DEF LibInv, PointInv, TypeInv, HoldInv, Holds
    <2>3. \A x, y \in Call : Writing(x)' /\ Writing(y)' /\ op'[x].point = op'[y].point => x = y
      BY <1>5, <1>8 DEF LibInv, PointInv, Writing
    <2>4. \A q \in Point : q > made' => phase'[q] = "none"
      BY <1>1, <1>6 DEF LibInv, PointInv, Point
    <2>5. QED
      BY <2>1, <2>2, <2>3, <2>4 DEF PointInv, Published
  <1>10. JobInv'
    <2>1. job # 0 => job \in Point \ {p}
      BY <1>2, Numbers DEF TypeInv, TypeOK, DomTypeOK, Point, LibInv, JobInv
    <2>2. QED
      BY <1>3, <1>5, <1>6, <2>1 DEF LibInv, JobInv, Writing
  <1>11. ParentInv'
    <2>1. \A q \in Point : parent'[q] # 0 => parent'[q] < q /\ phase'[parent'[q]] \in PublishedPhase
      <3>1. parent'[p] = a /\ \A q \in Point \ {p} : parent'[q] = parent[q]
        BY <1>1, <1>3
      <3>2. \A q \in Point : parent[q] # 0 => parent[q] \in Point /\ parent[q] < q /\ Published(parent[q])
        BY <1>1, Numbers DEF LibInv, ParentInv, Point
      <3>3. QED
        BY <1>4, <1>7, <3>1, <3>2
    <2>2. \A o \in Call : op'[o].pc = "decided" /\ op'[o].parent # 0 => phase'[op'[o].parent] \in PublishedPhase
      <3>1. \A o \in Call : op'[o].pc = "decided" => op'[o] = op[o] /\ op[o].parent \in 0..MaxPoints
        BY <1>1, <1>3, <1>5 DEF OpState
      <3>2. QED
        BY <1>7, <3>1, Numbers DEF LibInv, ParentInv, Point
    <2>3. QED
      BY <2>1, <2>2 DEF ParentInv, Published
  <1>12. ListedImagesMade'
    BY <1>3, <1>6 DEF LibInv, ListedImagesMade, Listed
  <1>13. QED
    BY <1>9, <1>10, <1>11, <1>12 DEF LibInv

LEMMA JobBeginKeepsLib ==
  ASSUME TypeInv, LibInv, NEW b \in Backups, JobBegin(b)
  PROVE  LibInv'
  <1>1. b \in Call /\ op \in [Call -> OpState]
    BY DEF Call, TypeInv, TypeOK
  <1>2. Step(b, "polling") /\ op[b].pc = "created" /\ job' = op[b].point /\ Writing(b)
        /\ phase' = phase /\ made' = made /\ parent' = parent /\ image' = image
    BY DEF JobBegin, lib, Writing
  <1>3. (\A x \in Call \ {b} : op'[x] = op[x]) /\ op'[b].pc = "polling" /\ op'[b].point = op[b].point
    BY <1>1, <1>2, StepTyped DEF Places
  <1>4. \A o \in Call : Writing(o)' => Writing(o) /\ op'[o].point = op[o].point
    BY <1>2, <1>3 DEF Writing
  <1>5. PointInv'
    BY <1>2, <1>3, <1>4 DEF LibInv, PointInv, Published
  <1>6. JobInv'
    BY <1>1, <1>2, <1>3, <1>4 DEF LibInv, PointInv, JobInv
  <1>7. ParentInv' /\ ListedImagesMade'
    BY <1>2, <1>3 DEF LibInv, ParentInv, Published, ListedImagesMade, Listed
  <1>8. QED
    BY <1>5, <1>6, <1>7 DEF LibInv

\* A call steps or returns and the library's directories stay as they are.
LEMMA MoveKeepsLib ==
  ASSUME TypeInv, LibInv, NEW o \in Call,
         made' = made, phase' = phase, parent' = parent, job' \in {0, job},
         \A p \in Listed : image'[p] # "none",
         \A x \in Call \ {o} : op'[x] = op[x], Quiet(o)
  PROVE  LibInv'
  <1>1. \A x \in Call : Quiet(x)
    BY DEF Quiet
  <1>2. QED
    BY <1>1, QuietKeepsLib

LEMMA BackupStepsKeepLib ==
  ASSUME TypeInv, LibInv, TypeInv', NEW b \in Backups, BackupSteps(b)
  PROVE  LibInv'
  <1>1. b \in Call /\ op \in [Call -> OpState]
    BY DEF Call, TypeInv, TypeOK
  <1>2. Writing(b) => op[b].point \in Point
    BY <1>1, Numbers DEF TypeInv, HoldInv, Holds, Writing, TypeOK, LibTypeOK, Point
  <1>3. \A p \in Listed : image[p] # "none"
    BY DEF LibInv, ListedImagesMade
  <1>4. CASE BackupCreate(b)
    BY <1>4, BackupCreateKeepsLib
  <1>5. CASE JobBegin(b)
    BY <1>5, JobBeginKeepsLib
  <1>6. CASE BackupPoll(b)
    <2>1. Step(b, "verifying") /\ op[b].pc = "polling" /\ job = 0 /\ Writing(b)
          /\ UNCHANGED <<made, phase, parent, image, job>>
      BY <1>6 DEF BackupPoll, lib, dom, Writing
    <2>2. (\A x \in Call \ {b} : op'[x] = op[x]) /\ op'[b].pc = "verifying" /\ op'[b].point = op[b].point
      BY <1>1, <2>1, StepTyped DEF Places
    <2>3. Quiet(b)
      BY <1>2, <2>1, <2>2, Numbers DEF Quiet, WritingPlaces, Point
    <2>4. QED
      BY <1>1, <1>3, <2>1, <2>2, <2>3, MoveKeepsLib
  <1>7. CASE BackupCancel(b) \/ BackupFails(b)
    <2>1. Return(b) /\ Writing(b) /\ phase' = [phase EXCEPT ![op[b].point] = "aborted"]
          /\ made' = made /\ parent' = parent
      BY <1>7 DEF BackupCancel, BackupFails, Abort, Writing
    <2>2. (\A x \in Call \ {b} : op'[x] = op[x]) /\ op'[b].pc = "idle"
      BY <1>1, <2>1, ReturnTyped DEF Idle
    <2>3. job' \in {0, job} /\ \A p \in Listed : image'[p] # "none"
      BY <1>7, ListedKeepImages DEF BackupCancel, BackupFails, JobStops, dom
    <2>4. QED
      BY <1>1, <2>1, <2>2, <2>3, WriterLeaves
  <1>8. CASE BackupFinish(b) \/ OfflineFinish(b)
    <2>1. Step(b, "done") /\ Writing(b) /\ phase' = [phase EXCEPT ![op[b].point] = "complete"]
          /\ op[b].pc # "polling" /\ made' = made /\ parent' = parent /\ job' = job
      BY <1>8 DEF BackupFinish, OfflineFinish, Complete, Writing, dom
    <2>2. (\A x \in Call \ {b} : op'[x] = op[x]) /\ op'[b].pc = "done"
      BY <1>1, <2>1, StepTyped DEF Places
    <2>3. image'[op[b].point] # "none" /\ \A p \in Listed : image'[p] # "none"
      <3>1. image \in [Point -> {"none", "partial", "whole", "removed"}] /\ op[b].point \in Point
        BY <1>2, <2>1 DEF TypeInv, TypeOK, LibTypeOK
      <3>2. CASE BackupFinish(b)
        BY <1>3, <3>2 DEF BackupFinish, ImagesThere
      <3>3. CASE OfflineFinish(b)
        <4> DEFINE v == IF image[op[b].point] = "partial" THEN "partial" ELSE "whole"
        <4>1. image' = [image EXCEPT ![op[b].point] = v] /\ v # "none"
          BY <3>3 DEF OfflineFinish
        <4> HIDE DEF v
        <4>2. QED
          BY <1>3, <3>1, <4>1 DEF Listed
      <3>4. QED
        BY <1>8, <3>2, <3>3
    <2>4. QED
      BY <1>1, <2>1, <2>2, <2>3, WriterLeaves
  <1>9. CASE BackupReturn(b)
    <2>1. Return(b) /\ UNCHANGED <<made, phase, parent, image, job>>
      BY <1>9 DEF BackupReturn, lib, dom
    <2>2. (\A x \in Call \ {b} : op'[x] = op[x]) /\ op'[b].pc = "idle"
      BY <1>1, <2>1, ReturnTyped DEF Idle
    <2>3. Quiet(b)
      BY <2>2 DEF Quiet, Seldom
    <2>4. QED
      BY <1>1, <1>3, <2>1, <2>2, <2>3, MoveKeepsLib
  <1>10. QED
    BY <1>4, <1>5, <1>6, <1>7, <1>8, <1>9 DEF BackupSteps

LEMMA DeleteStepsKeepLib ==
  ASSUME TypeInv, LibInv, NEW c \in Deletes \cup Prunes, DeleteSteps(c)
  PROVE  LibInv'
  <1>1. c \in Call /\ op \in [Call -> OpState]
    BY DEF Call, TypeInv, TypeOK
  <1>2. op[c].pc \in {"removing", "emptying", "dropping"} => op[c].point \in Point
    BY <1>1 DEF TypeInv, HoldInv, Holds
  <1>3. \A p \in Listed : image[p] # "none"
    BY DEF LibInv, ListedImagesMade
  <1>4. CASE DeletePick(c)
    <2>1. UNCHANGED <<made, phase, parent, image, job>>
      BY <1>4 DEF DeletePick, lib, dom
    <2>2. (\A x \in Call \ {c} : op'[x] = op[x]) /\ op'[c].pc \in Seldom
      <3>1. CASE op[c].todo = {}
        BY <1>1, <1>4, <3>1, ReturnTyped DEF DeletePick, Idle, Seldom
      <3>2. CASE op[c].todo # {}
        <4> DEFINE p == NextDropped(op[c].todo)
                   pc == IF p \in Listed THEN "removing" ELSE "picking"
        <4>1. op' = [op EXCEPT ![c].todo = @ \ {p}, ![c].point = p, ![c].pc = pc]
              /\ pc \in {"removing", "picking"}
          BY <1>4, <3>2 DEF DeletePick
        <4> HIDE DEF p, pc
        <4>2. QED
          BY <1>1, <4>1 DEF OpState, Seldom
      <3>3. QED
        BY <3>1, <3>2
    <2>3. Quiet(c)
      BY <2>2 DEF Quiet
    <2>4. QED
      BY <1>1, <1>3, <2>1, <2>2, <2>3, MoveKeepsLib
  <1>5. CASE DeleteFails(c) \/ DropCheckpoint(c)
    <2>1. UNCHANGED <<made, phase, parent, image, job>> /\ Step(c, "picking")
      BY <1>5 DEF DeleteFails, DropCheckpoint, lib, dom
    <2>2. (\A x \in Call \ {c} : op'[x] = op[x]) /\ op'[c].pc = "picking"
      BY <1>1, <2>1, StepTyped DEF Places
    <2>3. Quiet(c)
      BY <2>2 DEF Quiet, Seldom
    <2>4. QED
      BY <1>1, <1>3, <2>1, <2>2, <2>3, MoveKeepsLib
  <1>6. CASE DeleteEmpty(c)
    <2> DEFINE p == op[c].point
    <2>1. p \in Point /\ made' = made /\ parent' = parent /\ job' = job
      BY <1>2, <1>6 DEF DeleteEmpty, dom
    <2>2. CASE phase[p] # "complete"
      <3>1. Step(c, "picking") /\ phase' = phase /\ image' = image
        BY <1>6, <2>2 DEF DeleteEmpty
      <3>2. (\A x \in Call \ {c} : op'[x] = op[x]) /\ op'[c].pc = "picking"
        BY <1>1, <3>1, StepTyped DEF Places
      <3>3. Quiet(c)
        BY <3>2 DEF Quiet, Seldom
      <3>4. QED
        BY <1>1, <1>3, <2>1, <3>1, <3>2, <3>3, MoveKeepsLib
    <2>3. CASE phase[p] = "complete"
      <3>1. Step(c, "emptying") /\ Published(p)
            /\ (phase' = phase \/ phase' = [phase EXCEPT ![p] = "removing"])
            /\ (image' = image \/ image' = [image EXCEPT ![p] = "removed"])
        BY <1>6, <2>3 DEF DeleteEmpty, Published, PublishedPhase
      <3>2. (\A x \in Call \ {c} : op'[x] = op[x]) /\ op'[c].pc = "emptying" /\ op'[c].point = p
        BY <1>1, <3>1, StepTyped DEF Places
      <3>3. QED
        BY <1>1, <2>1, <3>1, <3>2, RemovalKeepsLib
    <2>4. QED
      BY <2>2, <2>3
  <1>7. CASE DeleteDone(c)
    <2> DEFINE p == op[c].point
               pc == IF p \in anchored THEN "dropping" ELSE "picking"
    <2>1. /\ p \in Point /\ made' = made /\ parent' = parent /\ job' = job
          /\ Step(c, pc) /\ pc \in {"dropping", "picking"}
          /\ phase' = [phase EXCEPT ![p] = "deleted"]
          /\ image' = [image EXCEPT ![p] = "removed"]
      BY <1>2, <1>7 DEF DeleteDone, dom
    <2> HIDE DEF pc
    <2>2. (\A x \in Call \ {c} : op'[x] = op[x]) /\ op'[c].pc = pc /\ op'[c].point = p
      BY <1>1, <2>1, StepTyped DEF Places
    <2>3. Published(p)
      BY <1>1, <1>7 DEF DeleteDone, LibInv, PointInv
    <2>4. QED
      BY <1>1, <2>1, <2>2, <2>3, RemovalKeepsLib
  <1>8. QED
    BY <1>4, <1>5, <1>6, <1>7 DEF DeleteSteps

\* A call begins, or takes a step that leaves the library alone or disturbs an
\* offline copy.
LEMMA CallBeginsKeepsLib ==
  ASSUME TypeInv, LibInv, NEW o \in Call, UNCHANGED <<lib, job>>,
         \A x \in Call \ {o} : op'[x] = op[x], op'[o].pc \in Seldom
  PROVE  LibInv'
  <1>1. UNCHANGED <<made, phase, parent, image>> /\ \A p \in Listed : image'[p] # "none"
    BY DEF lib, LibInv, ListedImagesMade
  <1>2. Quiet(o)
    BY DEF Quiet
  <1>3. QED
    BY <1>1, <1>2, MoveKeepsLib

LEMMA BeginningsKeepLib ==
  ASSUME TypeInv, LibInv,
         \/ \E c \in Deletes : \E p \in Listed : DeleteBegin(c, p)
         \/ \E c \in Prunes : PruneBegin(c)
         \/ \E r \in Restores, p \in Point : RestoreBegin(r, p)
  PROVE  LibInv'
  <1>1. op \in [Call -> OpState]
    BY DEF TypeInv, TypeOK
  <1>2. ASSUME NEW c \in Deletes, NEW p \in Listed, DeleteBegin(c, p) PROVE LibInv'
    <2>1. c \in Call /\ (\A x \in Call \ {c} : op'[x] = op[x]) /\ op'[c].pc = "picking"
      BY <1>1, <1>2 DEF DeleteBegin, OpState, Call
    <2>2. QED
      BY <1>2, <2>1, CallBeginsKeepsLib DEF DeleteBegin, dom, Seldom
  <1>3. ASSUME NEW c \in Prunes, PruneBegin(c) PROVE LibInv'
    <2>1. c \in Call /\ (\A x \in Call \ {c} : op'[x] = op[x]) /\ op'[c].pc = "picking"
      BY <1>1, <1>3 DEF PruneBegin, OpState, Call
    <2>2. QED
      BY <1>3, <2>1, CallBeginsKeepsLib DEF PruneBegin, dom, Seldom
  <1>4. ASSUME NEW r \in Restores, NEW p \in Point, RestoreBegin(r, p) PROVE LibInv'
    <2>1. r \in Call /\ (\A x \in Call \ {r} : op'[x] = op[x]) /\ op'[r].pc = "restoring"
      BY <1>1, <1>4, ZenonT(30) DEF RestoreBegin, OpState, Call
    <2>2. QED
      BY <1>4, <2>1, CallBeginsKeepsLib DEF RestoreBegin, dom, Seldom
  <1>5. QED
    BY <1>2, <1>3, <1>4

LEMMA RestoreStepsKeepLib ==
  ASSUME TypeInv, LibInv, NEW r \in Restores, RestoreSteps(r)
  PROVE  LibInv'
  <1>1. r \in Call /\ op \in [Call -> OpState]
    BY DEF Call, TypeInv, TypeOK
  <1>2. CASE RestoreDisk(r)
    <2>1. UNCHANGED <<made, phase, parent, job>> /\ CopiesDisturbed /\ op[r].pc = "restoring"
      BY <1>2 DEF RestoreDisk
    <2>2. (\A x \in Call \ {r} : op'[x] = op[x]) /\ op'[r].pc = "restoring"
      <3> DEFINE d == Min(op[r].todo)
      <3>1. op' = [op EXCEPT ![r].todo = @ \ {d}]
        BY <1>2 DEF RestoreDisk
      <3> HIDE DEF d
      <3>2. QED
        BY <1>1, <2>1, <3>1 DEF OpState
    <2>3. Quiet(r) /\ \A p \in Listed : image'[p] # "none"
      BY <2>1, <2>2, ListedKeepImages DEF Quiet, Seldom
    <2>4. QED
      BY <1>1, <2>1, <2>2, <2>3, MoveKeepsLib
  <1>3. CASE RestoreFails(r) \/ RestoreRedefine(r)
    <2>1. UNCHANGED <<lib, job>> /\ Return(r)
      BY <1>3 DEF RestoreFails, RestoreRedefine, dom
    <2>2. (\A x \in Call \ {r} : op'[x] = op[x]) /\ op'[r].pc = "idle"
      BY <1>1, <2>1, ReturnTyped DEF Idle
    <2>3. QED
      BY <1>1, <2>1, <2>2, CallBeginsKeepsLib DEF Seldom
  <1>4. CASE RestoreDrop(r)
    <2>1. UNCHANGED <<lib, job>> /\ Step(r, "redefining")
      BY <1>4 DEF RestoreDrop
    <2>2. (\A x \in Call \ {r} : op'[x] = op[x]) /\ op'[r].pc = "redefining"
      BY <1>1, <2>1, StepTyped DEF Places
    <2>3. QED
      BY <1>1, <2>1, <2>2, CallBeginsKeepsLib DEF Seldom
  <1>5. QED
    BY <1>2, <1>3, <1>4 DEF RestoreSteps

\* The job ends, or the machine is switched.
LEMMA MachineKeepsLib ==
  ASSUME TypeInv, LibInv,
         (\E result \in {"whole", "partial", "none"} : JobEnds(result)) \/ PowerOn \/ PowerOff
  PROVE  LibInv'
  <1>1. UNCHANGED <<made, phase, parent, op>> /\ job' \in {0, job}
    BY DEF JobEnds, JobStops, PowerOn, PowerOff
  <1>2. \A p \in Listed : image'[p] # "none"
    BY ListedKeepImages DEF JobEnds, PowerOn, PowerOff
  <1>3. \A o \in Call : Quiet(o)
    BY <1>1 DEF Quiet
  <1>4. QED
    BY <1>1, <1>2, <1>3, QuietKeepsLib

LEMMA CrashKeepsLib ==
  ASSUME TypeInv, LibInv, Crash
  PROVE  LibInv'
  <1>1. phase \in [Point -> Phase] /\ parent \in [Point -> 0..MaxPoints] /\ job \in 0..MaxPoints
    BY DEF TypeInv, TypeOK, LibTypeOK, DomTypeOK
  <1>2. /\ \A o \in Call : op'[o].pc = "idle"
        /\ \A p \in Point : phase'[p] = IF phase[p] = "writing" THEN "leaked" ELSE phase[p]
        /\ UNCHANGED <<made, parent, image, job>>
    BY DEF Crash, Idle, dom
  <1>3. PointInv'
    BY <1>2 DEF PointInv, Writing, LibInv
  <1>4. JobInv'
    BY <1>1, <1>2, Numbers DEF JobInv, Writing, LibInv, Point
  <1>5. ParentInv'
    <2>1. \A q \in Point : parent[q] # 0 => parent[q] \in Point
      BY <1>1, Numbers DEF Point
    <2>2. QED
      BY <1>2, <2>1 DEF ParentInv, LibInv, Published, PublishedPhase
  <1>6. ListedImagesMade'
    BY <1>2 DEF LibInv, ListedImagesMade, Listed
  <1>7. QED
    BY <1>3, <1>4, <1>5, <1>6 DEF LibInv

LEMMA InitLibInv == Init => LibInv
  <1> SUFFICES ASSUME Init PROVE LibInv
    OBVIOUS
  <1>1. (\A o \in Call : op[o].pc = "idle") /\ (\A p \in Point : phase[p] = "none" /\ parent[p] = 0) /\ job = 0
    BY DEF Init, Idle
  <1>2. QED
    BY <1>1 DEF LibInv, PointInv, JobInv, ParentInv, ListedImagesMade, Listed, Writing

\* Every step keeps the library in order.
LEMMA NextKeepsLib == TypeInv /\ LibInv /\ [Next]_vars => LibInv'
  <1> SUFFICES ASSUME TypeInv, LibInv, [Next]_vars
               PROVE  LibInv'
    OBVIOUS
  <1>1. TypeInv'
    BY NextTyped
  <1>2. ASSUME NEW b \in Backups, BackupSteps(b) PROVE LibInv'
    BY <1>1, <1>2, BackupStepsKeepLib
  <1>3. ASSUME NEW b \in Backups, NEW q \in Requests, BackupDecide(b, q) PROVE LibInv'
    BY <1>3, BackupDecideKeepsLib
  <1>4. ASSUME NEW c \in Deletes \cup Prunes, DeleteSteps(c) PROVE LibInv'
    BY <1>4, DeleteStepsKeepLib
  <1>5. ASSUME NEW r \in Restores, RestoreSteps(r) PROVE LibInv'
    BY <1>5, RestoreStepsKeepLib
  <1>6. CASE \/ \E c \in Deletes : \E p \in Listed : DeleteBegin(c, p)
             \/ \E c \in Prunes : PruneBegin(c)
             \/ \E r \in Restores, p \in Point : RestoreBegin(r, p)
    BY <1>6, BeginningsKeepLib
  <1>7. CASE (\E result \in {"whole", "partial", "none"} : JobEnds(result)) \/ PowerOn \/ PowerOff
    BY <1>7, MachineKeepsLib
  <1>8. CASE Crash
    BY <1>8, CrashKeepsLib
  <1>9. CASE UNCHANGED vars
    <2>1. UNCHANGED <<made, phase, parent, image, job, op>>
      BY <1>9 DEF vars, lib, dom
    <2>2. QED
      BY <2>1, QuietKeepsLib DEF Quiet, LibInv, ListedImagesMade
  <1>10. QED
    BY <1>2, <1>3, <1>4, <1>5, <1>6, <1>7, <1>8, <1>9 DEF Next

-----------------------------------------------------------------------------
(***************************************************************************)
(* Checkpoints and bitmaps                                                 *)
(***************************************************************************)

\* No restore has replaced some of its disks just now.
NoneHalfway == \A r \in Restores : op[r].pc = "restoring" => op[r].todo = Disk

AllBitmaps == \A d \in Disk : checkpoints \ stale \subseteq bitmaps[d]

\* A step of a call that is not replacing disks, and that keeps the bitmaps.
LEMMA OthersKeepBitmaps ==
  ASSUME TypeInv, BitmapInv, NEW o \in Call, op[o].pc # "restoring",
         \A x \in Call \ {o} : op'[x] = op[x], AllBitmaps => AllBitmaps'
  PROVE  BitmapInv'
  <1>1. NoneHalfway' => NoneHalfway
    BY DEF NoneHalfway, Call
  <1>2. NoneHalfway => AllBitmaps
    BY DEF BitmapInv, NoneHalfway, AllBitmaps
  <1>3. NoneHalfway' => AllBitmaps'
    BY <1>1, <1>2
  <1>4. QED
    BY <1>3 DEF BitmapInv, NoneHalfway, AllBitmaps

LEMMA BackupStepsKeepBitmaps ==
  ASSUME TypeInv, BitmapInv, NEW b \in Backups,
         BackupSteps(b) \/ \E q \in Requests : BackupDecide(b, q)
  PROVE  BitmapInv'
  <1>1. b \in Call /\ op \in [Call -> OpState]
    BY DEF Call, TypeInv, TypeOK
  <1>2. \A x \in Call \ {b} : op'[x] = op[x]
    <2>1. CASE BackupCreate(b)
      BY <1>1, <2>1 DEF BackupCreate
    <2>2. CASE \E q \in Requests : BackupDecide(b, q)
      BY <1>1, <2>2 DEF BackupDecide
    <2>3. CASE JobBegin(b) \/ BackupPoll(b) \/ BackupCancel(b) \/ BackupFails(b)
               \/ BackupFinish(b) \/ OfflineFinish(b) \/ BackupReturn(b)
      BY <1>1, <2>3 DEF JobBegin, BackupPoll, BackupCancel, BackupFails, BackupFinish,
         OfflineFinish, BackupReturn, Complete, Step, Return
    <2>4. QED
      BY <2>1, <2>2, <2>3 DEF BackupSteps
  <1>3. op[b].pc # "restoring"
    BY DEF BackupSteps, BackupDecide, BackupCreate, JobBegin, BackupPoll, BackupCancel,
       BackupFails, BackupFinish, OfflineFinish, BackupReturn
  <1>4. AllBitmaps => AllBitmaps'
    <2>1. CASE JobBegin(b)
      BY <1>1, <2>1 DEF JobBegin, AllBitmaps, TypeInv, TypeOK, DomTypeOK
    <2>2. CASE ~JobBegin(b)
      <3>1. UNCHANGED <<checkpoints, bitmaps, stale>>
        BY <2>2 DEF BackupSteps, BackupDecide, BackupCreate, BackupPoll, BackupCancel,
           BackupFails, BackupFinish, OfflineFinish, BackupReturn, dom
      <3>2. QED
        BY <3>1 DEF AllBitmaps
    <2>3. QED
      BY <2>1, <2>2
  <1>5. QED
    BY <1>1, <1>2, <1>3, <1>4, OthersKeepBitmaps

LEMMA DeleteStepsKeepBitmaps ==
  ASSUME TypeInv, BitmapInv, NEW c \in Deletes \cup Prunes,
         DeleteSteps(c) \/ PruneBegin(c) \/ \E p \in Listed : DeleteBegin(c, p)
  PROVE  BitmapInv'
  <1>1. c \in Call /\ op \in [Call -> OpState] /\ bitmaps \in [Disk -> SUBSET Point]
    BY DEF Call, TypeInv, TypeOK, DomTypeOK
  <1>2. \A x \in Call \ {c} : op'[x] = op[x]
    <2>1. CASE DeletePick(c)
      BY <1>1, <2>1 DEF DeletePick, Return
    <2>2. CASE PruneBegin(c) \/ \E p \in Listed : DeleteBegin(c, p)
      BY <1>1, <2>2 DEF PruneBegin, DeleteBegin
    <2>3. CASE DeleteEmpty(c) \/ DeleteDone(c) \/ DeleteFails(c) \/ DropCheckpoint(c)
      BY <1>1, <2>3 DEF DeleteEmpty, DeleteDone, DeleteFails, DropCheckpoint, Step
    <2>4. QED
      BY <2>1, <2>2, <2>3 DEF DeleteSteps
  <1>3. op[c].pc # "restoring"
    BY DEF DeleteSteps, DeletePick, DeleteEmpty, DeleteDone, DeleteFails, DropCheckpoint,
       PruneBegin, DeleteBegin
  <1>4. AllBitmaps => AllBitmaps'
    <2>1. CASE DropCheckpoint(c)
      BY <1>1, <2>1 DEF DropCheckpoint, AllBitmaps
    <2>2. CASE ~DropCheckpoint(c)
      <3>1. UNCHANGED <<checkpoints, bitmaps, stale>>
        BY <2>2 DEF DeleteSteps, DeletePick, DeleteEmpty, DeleteDone, DeleteFails,
           PruneBegin, DeleteBegin, dom
      <3>2. QED
        BY <3>1 DEF AllBitmaps
    <2>3. QED
      BY <2>1, <2>2
  <1>5. QED
    BY <1>1, <1>2, <1>3, <1>4, OthersKeepBitmaps

LEMMA RestoreStepsKeepBitmaps ==
  ASSUME TypeInv, BitmapInv, NEW r \in Restores,
         RestoreSteps(r) \/ \E p \in Point : RestoreBegin(r, p)
  PROVE  BitmapInv'
  <1>1. r \in Call /\ op \in [Call -> OpState] /\ Holds(op[r], made)
    BY DEF Call, TypeInv, TypeOK, HoldInv
  <1>2. CASE RestoreDisk(r)
    <2> DEFINE d == Min(op[r].todo)
    <2>1. op[r].todo \in SUBSET Disk /\ d \in Disk /\ op[r].pc = "restoring"
      <3>1. op[r].todo \in SUBSET Disk /\ op[r].todo # {} /\ op[r].pc = "restoring"
        BY <1>1, <1>2 DEF RestoreDisk, Holds
      <3>2. op[r].todo \in SUBSET Nat
        BY <3>1, Numbers DEF Disk
      <3>3. QED
        BY <3>1, <3>2, MinIsLeast
    <2>2. op' = [op EXCEPT ![r].todo = @ \ {d}]
      BY <1>2 DEF RestoreDisk
    <2> HIDE DEF d
    <2>3. op'[r].pc = "restoring" /\ op'[r].todo # Disk
      BY <1>1, <2>1, <2>2 DEF OpState
    <2>4. ~NoneHalfway'
      BY <2>3 DEF NoneHalfway
    <2>5. QED
      BY <2>4 DEF BitmapInv, NoneHalfway
  <1>3. CASE RestoreFails(r)
    <2>1. /\ \A x \in Call \ {r} : op'[x] = op[x]
          /\ stale' = (IF op[r].todo = Disk THEN stale ELSE stale \cup checkpoints)
          /\ UNCHANGED <<checkpoints, bitmaps>>
      BY <1>1, <1>3, ReturnTyped DEF RestoreFails, dom
    <2>2. CASE op[r].todo = Disk
      <3>1. stale' = stale /\ (NoneHalfway' => NoneHalfway)
        BY <2>1, <2>2 DEF NoneHalfway, Call
      <3>2. QED
        BY <2>1, <3>1 DEF BitmapInv, NoneHalfway
    <2>3. CASE op[r].todo # Disk
      BY <2>1, <2>3 DEF BitmapInv
    <2>4. QED
      BY <2>2, <2>3
  <1>4. CASE RestoreDrop(r)
    <2>1. checkpoints' \ stale' = {}
      BY <1>4 DEF RestoreDrop, DropCheckpoints
    <2>2. QED
      BY <2>1 DEF BitmapInv
  <1>5. CASE RestoreRedefine(r)
    <2>1. (\A x \in Call \ {r} : op'[x] = op[x]) /\ op[r].pc # "restoring"
          /\ UNCHANGED <<stale, checkpoints, bitmaps>>
      BY <1>1, <1>5, ReturnTyped DEF RestoreRedefine
    <2>2. QED
      BY <1>1, <2>1, OthersKeepBitmaps DEF AllBitmaps
  <1>6. CASE \E p \in Point : RestoreBegin(r, p)
    <2>1. (\A x \in Call \ {r} : op'[x] = op[x]) /\ op[r].pc # "restoring"
          /\ UNCHANGED <<stale, checkpoints, bitmaps>>
      BY <1>1, <1>6 DEF RestoreBegin, dom
    <2>2. QED
      BY <1>1, <2>1, OthersKeepBitmaps DEF AllBitmaps
  <1>7. QED
    BY <1>2, <1>3, <1>4, <1>5, <1>6 DEF RestoreSteps

\* Every step keeps the bitmaps of the checkpoints.
LEMMA NextKeepsBitmaps == TypeInv /\ BitmapInv /\ [Next]_vars => BitmapInv'
  <1> SUFFICES ASSUME TypeInv, BitmapInv, [Next]_vars
               PROVE  BitmapInv'
    OBVIOUS
  <1>1. ASSUME NEW b \in Backups, BackupSteps(b) \/ \E q \in Requests : BackupDecide(b, q)
        PROVE  BitmapInv'
    BY <1>1, BackupStepsKeepBitmaps
  <1>2. ASSUME NEW c \in Deletes \cup Prunes,
               DeleteSteps(c) \/ PruneBegin(c) \/ \E p \in Listed : DeleteBegin(c, p)
        PROVE  BitmapInv'
    BY <1>2, DeleteStepsKeepBitmaps
  <1>3. ASSUME NEW r \in Restores, RestoreSteps(r) \/ \E p \in Point : RestoreBegin(r, p)
        PROVE  BitmapInv'
    BY <1>3, RestoreStepsKeepBitmaps
  <1>4. CASE (\E result \in {"whole", "partial", "none"} : JobEnds(result)) \/ PowerOn \/ PowerOff
             \/ UNCHANGED vars
    <2>1. UNCHANGED <<stale, op, checkpoints, bitmaps>>
      BY <1>4 DEF JobEnds, PowerOn, PowerOff, vars, dom
    <2>2. QED
      BY <2>1 DEF BitmapInv
  <1>5. CASE Crash
    <2>1. UNCHANGED <<checkpoints, bitmaps>>
          /\ stale' = (IF \E r \in Restores : op[r].pc = "restoring" /\ op[r].todo # Disk
                       THEN stale \cup checkpoints ELSE stale)
      BY <1>5 DEF Crash, dom
    <2>2. CASE NoneHalfway
      BY <2>1, <2>2 DEF BitmapInv, NoneHalfway
    <2>3. CASE ~NoneHalfway
      BY <2>1, <2>3 DEF BitmapInv, NoneHalfway
    <2>4. QED
      BY <2>2, <2>3
  <1>6. QED
    BY <1>1, <1>2, <1>3, <1>4, <1>5 DEF Next

-----------------------------------------------------------------------------
(***************************************************************************)
(* The theorems                                                            *)
(***************************************************************************)

LEMMA InitIInv == Init => IInv
  <1> SUFFICES ASSUME Init PROVE IInv
    OBVIOUS
  <1>1. BitmapInv
    BY DEF Init, BitmapInv
  <1>2. QED
    BY <1>1, InitTypeInv, InitLibInv DEF IInv

LEMMA Inductive == Spec => []IInv
  <1>1. IInv /\ [Next]_vars => IInv'
    BY NextTyped, NextKeepsLib, NextKeepsBitmaps DEF IInv
  <1>2. QED
    BY InitIInv, <1>1, PTL DEF Spec

\* The calls, the library and the domain stay within their types.
THEOREM TypeCorrect == Spec => []TypeOK
  <1>1. IInv => TypeOK
    BY DEF IInv, TypeInv
  <1>2. QED
    BY <1>1, Inductive, PTL

\* A listed point has images: neither a job that failed at once nor one that was
\* aborted, by whatever call, nor a crash leaves a listed point without.
THEOREM ImagesMade == Spec => []ListedImagesMade
  <1>1. IInv => ListedImagesMade
    BY DEF IInv, LibInv
  <1>2. QED
    BY <1>1, Inductive, PTL

\* The point the next automatic backup would continue from has its bitmap on
\* every disk, whatever backups, deletions and restores ran into each other,
\* unless it is one a restore left behind (stale).
THEOREM AnchorsUsable == Spec => []AnchorUsable
  <1>1. IInv => AnchorUsable
    BY DEF IInv, BitmapInv, AnchorUsable, Anchor
  <1>2. QED
    BY <1>1, Inductive, PTL

-----------------------------------------------------------------------------
(***************************************************************************)
(* The library implements the catalogue                                    *)
(***************************************************************************)

\* No point changes for a reader of the catalogue.
NoneChanges ==
  \A p \in Point : /\ PointState'[p] = PointState[p]
                   /\ PointState[p] # "absent" => parent'[p] = parent[p]

\* One point becomes visible.
PublishesOne ==
  \E p \in Point : /\ phase[p] = "writing" /\ parent' = parent
                   /\ phase' = [phase EXCEPT ![p] = "complete"]

\* One point is withdrawn.
WithdrawsOne ==
  \E p \in Point, v \in {"removing", "deleted"} :
    phase[p] = "complete" /\ phase' = [phase EXCEPT ![p] = v] /\ parent' = parent

LEMMA NoneChangesWhen ==
  ASSUME TypeInv, NEW p \in Point,
         \A q \in Point \ {p} : phase'[q] = phase[q] /\ parent'[q] = parent[q],
         \/ phase[p] \notin PublishedPhase /\ phase'[p] \notin PublishedPhase
         \/ phase[p] # "complete" /\ phase[p] \in PublishedPhase
            /\ phase'[p] \in {"removing", "deleted"} /\ parent'[p] = parent[p]
  PROVE  NoneChanges
  BY DEF NoneChanges, PointState, Listed, PublishedPhase

LEMMA SamePhases ==
  ASSUME phase' = phase, parent' = parent
  PROVE  NoneChanges
  BY DEF NoneChanges, PointState, Listed

LEMMA BackupStepsAreSeen ==
  ASSUME TypeInv, LibInv, NEW b \in Backups, BackupSteps(b)
  PROVE  NoneChanges \/ PublishesOne
  <1>1. /\ phase \in [Point -> Phase] /\ parent \in [Point -> 0..MaxPoints] /\ made \in 0..MaxPoints
        /\ b \in Call
    BY DEF Call, TypeInv, TypeOK, LibTypeOK
  <1>2. Writing(b) => op[b].point \in Point /\ phase[op[b].point] = "writing"
    BY <1>1, Numbers DEF TypeInv, HoldInv, Holds, Writing, Point, LibInv, PointInv
  <1>3. CASE BackupCreate(b)
    <2> DEFINE p == made'
    <2>1. p \in Point /\ phase[p] = "none" /\ phase' = [phase EXCEPT ![p] = "writing"]
          /\ \A q \in Point \ {p} : parent'[q] = parent[q]
      <3>1. p = made + 1 /\ b \in Deciding
        BY <1>3 DEF BackupCreate, Deciding
      <3>2. made + 1 <= MaxPoints
        <4>1. Cardinality(Deciding \ {b}) = Cardinality(Deciding) - 1 /\ Cardinality(Deciding \ {b}) \in Nat
          BY <3>1, DecidingFinite, FS_RemoveElement, FS_CardinalityType
        <4>2. QED
          BY <1>1, <4>1, DecidingFinite, Numbers DEF TypeInv, ReservedInv
      <3>3. p \in Point
        BY <1>1, <3>1, <3>2, Numbers DEF Point
      <3>4. phase[p] = "none"
        BY <1>1, <3>1, <3>3 DEF LibInv, PointInv
      <3>5. QED
        BY <1>1, <1>3, <3>1, <3>3, <3>4 DEF BackupCreate
    <2>2. phase'[p] = "writing" /\ \A q \in Point \ {p} : phase'[q] = phase[q]
      BY <1>1, <2>1
    <2>3. QED
      BY <2>1, <2>2, NoneChangesWhen DEF PublishedPhase
  <1>4. CASE BackupCancel(b) \/ BackupFails(b)
    <2> DEFINE p == op[b].point
    <2>1. Writing(b) /\ phase' = [phase EXCEPT ![p] = "aborted"] /\ parent' = parent
      BY <1>4 DEF BackupCancel, BackupFails, Abort, Writing
    <2>2. phase'[p] = "aborted" /\ \A q \in Point \ {p} : phase'[q] = phase[q]
      BY <1>1, <1>2, <2>1
    <2>3. QED
      BY <1>2, <2>1, <2>2, NoneChangesWhen DEF PublishedPhase
  <1>5. CASE BackupFinish(b) \/ OfflineFinish(b)
    BY <1>2, <1>5 DEF BackupFinish, OfflineFinish, Complete, Writing, PublishesOne
  <1>6. CASE JobBegin(b) \/ BackupPoll(b) \/ BackupReturn(b)
    BY <1>6, SamePhases DEF JobBegin, BackupPoll, BackupReturn, lib
  <1>7. QED
    BY <1>3, <1>4, <1>5, <1>6 DEF BackupSteps

LEMMA DeleteStepsAreSeen ==
  ASSUME TypeInv, LibInv, NEW c \in Deletes \cup Prunes, DeleteSteps(c)
  PROVE  NoneChanges \/ WithdrawsOne
  <1> DEFINE p == op[c].point
  <1>1. phase \in [Point -> Phase] /\ c \in Call
    BY DEF Call, TypeInv, TypeOK, LibTypeOK
  <1>2. op[c].pc \in {"removing", "emptying"} => p \in Point
    BY <1>1 DEF TypeInv, HoldInv, Holds
  <1>3. CASE DeleteEmpty(c)
    <2>1. CASE phase' = phase
      BY <1>3, <2>1, SamePhases DEF DeleteEmpty
    <2>2. CASE phase' # phase
      BY <1>2, <1>3, <2>2 DEF DeleteEmpty, WithdrawsOne
    <2>3. QED
      BY <2>1, <2>2
  <1>4. CASE DeleteDone(c)
    <2>1. p \in Point /\ phase[p] \in PublishedPhase /\ parent' = parent
          /\ phase' = [phase EXCEPT ![p] = "deleted"]
      BY <1>1, <1>2, <1>4 DEF DeleteDone, LibInv, PointInv, Published
    <2>2. CASE phase[p] = "complete"
      BY <2>1, <2>2 DEF WithdrawsOne
    <2>3. CASE phase[p] # "complete"
      <3>1. phase'[p] = "deleted" /\ \A q \in Point \ {p} : phase'[q] = phase[q]
        BY <1>1, <2>1
      <3>2. QED
        BY <2>1, <2>3, <3>1, NoneChangesWhen
    <2>4. QED
      BY <2>2, <2>3
  <1>5. CASE DeletePick(c) \/ DeleteFails(c) \/ DropCheckpoint(c)
    BY <1>5, SamePhases DEF DeletePick, DeleteFails, DropCheckpoint, lib
  <1>6. QED
    BY <1>3, <1>4, <1>5 DEF DeleteSteps

LEMMA NextIsSeen == TypeInv /\ LibInv /\ [Next]_vars => NoneChanges \/ PublishesOne \/ WithdrawsOne
  <1> SUFFICES ASSUME TypeInv, LibInv, [Next]_vars
               PROVE  NoneChanges \/ PublishesOne \/ WithdrawsOne
    OBVIOUS
  <1>1. ASSUME NEW b \in Backups, BackupSteps(b) PROVE NoneChanges \/ PublishesOne
    BY <1>1, BackupStepsAreSeen
  <1>2. ASSUME NEW c \in Deletes \cup Prunes, DeleteSteps(c) PROVE NoneChanges \/ WithdrawsOne
    BY <1>2, DeleteStepsAreSeen
  <1>3. CASE Crash
    <2>1. parent' = parent
          /\ \A p \in Point : phase'[p] = IF phase[p] = "writing" THEN "leaked" ELSE phase[p]
      BY <1>3 DEF Crash
    <2>2. QED
      BY <2>1 DEF NoneChanges, PointState, Listed
  <1>4. CASE \/ \E b \in Backups : \E q \in Requests : BackupDecide(b, q)
             \/ \E c \in Deletes : \E p \in Listed : DeleteBegin(c, p)
             \/ \E c \in Prunes : PruneBegin(c)
             \/ \E r \in Restores : \E p \in Point : RestoreBegin(r, p)
             \/ UNCHANGED vars
    BY <1>4, SamePhases DEF BackupDecide, DeleteBegin, PruneBegin, RestoreBegin, lib, vars
  <1>5. CASE \/ \E r \in Restores : RestoreSteps(r)
             \/ \E result \in {"whole", "partial", "none"} : JobEnds(result)
             \/ PowerOn \/ PowerOff
    BY <1>5, SamePhases DEF RestoreSteps, RestoreDisk, RestoreFails, RestoreDrop, RestoreRedefine,
       JobEnds, PowerOn, PowerOff, lib
  <1>6. QED
    BY <1>1, <1>2, <1>3, <1>4, <1>5 DEF Next

\* Each step of the library is a step of the catalogue, or none that it shows.
LEMMA CatalogStep == IInv /\ [Next]_vars => [Catalog!Next]_(Catalog!vars)
  <1> SUFFICES ASSUME IInv, [Next]_vars
               PROVE  [Catalog!Next]_(Catalog!vars)
    OBVIOUS
  <1>1. phase \in [Point -> Phase] /\ parent \in [Point -> 0..MaxPoints] /\ TypeInv /\ LibInv
    BY DEF IInv, TypeInv, TypeOK, LibTypeOK
  <1>2. CASE NoneChanges
    <2>1. PointState' = PointState
      BY <1>2 DEF NoneChanges, PointState, Listed
    <2>2. PointOrigin' = PointOrigin
      BY <1>2, <2>1 DEF NoneChanges, PointOrigin
    <2>3. QED
      BY <2>1, <2>2 DEF Catalog!vars
  <1>3. CASE PublishesOne
    <2>1. PICK p \in Point : phase[p] = "writing" /\ parent' = parent
                             /\ phase' = [phase EXCEPT ![p] = "complete"]
      BY <1>3 DEF PublishesOne
    <2>2. PointState[p] = "absent" /\ PointState' = [PointState EXCEPT ![p] = "visible"]
      BY <1>1, <2>1 DEF PointState, Listed
    <2>3. PointOrigin' = [PointOrigin EXCEPT ![p] = parent[p]]
      BY <1>1, <2>1, <2>2 DEF PointOrigin, PointState, Listed
    <2>4. parent[p] # 0 => parent[p] < p /\ PointState[parent[p]] # "absent"
      <3>1. parent[p] # 0 => parent[p] \in Point /\ parent[p] < p /\ phase[parent[p]] \in PublishedPhase
        BY <1>1, Numbers DEF LibInv, ParentInv, Published, Point
      <3>2. QED
        BY <3>1 DEF PointState, Listed, PublishedPhase
    <2>5. Catalog!Publish(p, parent[p]) /\ parent[p] \in 0..MaxPoints /\ p \in Catalog!Point
      BY <1>1, <2>2, <2>3, <2>4 DEF Catalog!Publish, Catalog!Point, Point
    <2>6. QED
      BY <2>5 DEF Catalog!Next
  <1>4. CASE WithdrawsOne
    <2>1. PICK p \in Point, v \in {"removing", "deleted"} :
                 phase[p] = "complete" /\ phase' = [phase EXCEPT ![p] = v] /\ parent' = parent
      BY <1>4 DEF WithdrawsOne
    <2>2. PointState[p] = "visible" /\ PointState' = [PointState EXCEPT ![p] = "withdrawn"]
      BY <1>1, <2>1 DEF PointState, Listed
    <2>3. PointOrigin' = PointOrigin
      BY <1>1, <2>1, <2>2 DEF PointOrigin, PointState, Listed
    <2>4. Catalog!Withdraw(p) /\ p \in Catalog!Point
      BY <2>2, <2>3 DEF Catalog!Withdraw, Catalog!Point, Point
    <2>5. QED
      BY <2>4 DEF Catalog!Next
  <1>5. QED
    BY <1>1, <1>2, <1>3, <1>4, NextIsSeen

\* The library implements the catalogue of points: a point appears once, whole
\* and after the point it continues from, and what was withdrawn stays away,
\* across concurrent backups, deletions, retention and crashes.
THEOREM LibraryIsCatalog == Spec => ImplementsCatalog
  <1>1. Init => Catalog!Init
    <2> SUFFICES ASSUME Init PROVE Catalog!Init
      OBVIOUS
    <2>1. PointState = [p \in Point |-> "absent"]
      BY DEF Init, PointState, Listed
    <2>2. PointOrigin = [p \in Point |-> 0]
      BY <2>1 DEF PointOrigin
    <2>3. QED
      BY <2>1, <2>2 DEF Catalog!Init, Catalog!Point, Point
  <1>2. QED
    BY <1>1, CatalogStep, Inductive, PTL DEF Spec, ImplementsCatalog, Catalog!Spec

-----------------------------------------------------------------------------
(***************************************************************************)
(* Restores that may run beside each other                                 *)
(***************************************************************************)

\* What is recorded beside the steps takes no part in them.
LEMMA RecordedSteps == [HNext]_<<vars, hist>> => [Next]_vars
  BY DEF HNext, vars

LEMMA RecordedInductive == HSpec => []IInv
  <1>1. HInit => Init
    BY DEF HInit
  <1>2. HSpec => Spec
    BY <1>1, RecordedSteps, PTL DEF HSpec, Spec
  <1>3. QED
    BY <1>2, Inductive, PTL

Replacing == {"restoring", "redefining"}

\* The disks a restore has been through hold its point, but for those another
\* restore has replaced since.
RestoredSoFar ==
  \A r \in Restores :
    /\ op[r].pc \in Replacing =>
         \A d \in Disk \ (op[r].todo \cup overwritten[r]) : content[d] = op[r].point
    /\ op[r].pc = "redefining" => op[r].todo = {}

\* What is recorded is lost with the call, or when its own disk is still to come.
LEMMA OverwrittenStays ==
  ASSUME Records, NEW r \in Restores, op'[r].pc # "idle"
  PROVE  /\ overwritten[r] \ op'[r].todo \subseteq overwritten'[r]
         /\ \A s \in Restores \ {r} : Replaces(s) \ op'[r].todo \subseteq overwritten'[r]
  BY DEF Records

\* A step that no restore takes.
LEMMA OthersKeepRestored ==
  ASSUME RestoredSoFar, content' = content, Records \/ overwritten' = overwritten,
         \A r \in Restores : op'[r].pc \in Replacing => op'[r] = op[r]
  PROVE  RestoredSoFar'
  <1> SUFFICES ASSUME NEW r \in Restores, op'[r].pc \in Replacing
               PROVE  /\ \A d \in Disk \ (op'[r].todo \cup overwritten'[r]) : content'[d] = op'[r].point
                      /\ op'[r].pc = "redefining" => op'[r].todo = {}
    BY DEF RestoredSoFar, Replacing
  <1>1. op'[r] = op[r] /\ op'[r].pc # "idle"
    BY DEF Replacing
  <1>2. overwritten[r] \ op'[r].todo \subseteq overwritten'[r]
    BY <1>1, OverwrittenStays
  <1>3. QED
    BY <1>1, <1>2 DEF RestoredSoFar

LEMMA RestoreKeepsRestored ==
  ASSUME TypeInv, RestoredSoFar, Records,
         NEW r \in Restores, RestoreSteps(r) \/ \E p \in Point : RestoreBegin(r, p)
  PROVE  RestoredSoFar'
  <1>1. /\ r \in Call /\ op \in [Call -> OpState] /\ Holds(op[r], made)
        /\ content \in [Disk -> 0..MaxPoints] /\ Restores \subseteq Call
    BY DEF Call, TypeInv, TypeOK, HoldInv, DomTypeOK
  <1>2. CASE RestoreDisk(r)
    <2> DEFINE d == Min(op[r].todo)
    <2>1. op[r].todo \in SUBSET Disk /\ d \in op[r].todo /\ op[r].pc = "restoring"
      <3>1. op[r].todo \in SUBSET Disk /\ op[r].todo # {} /\ op[r].pc = "restoring"
        BY <1>1, <1>2 DEF RestoreDisk, Holds
      <3>2. op[r].todo \in SUBSET Nat
        BY <3>1, Numbers DEF Disk
      <3>3. QED
        BY <3>1, <3>2, MinIsLeast
    <2>2. /\ op' = [op EXCEPT ![r].todo = @ \ {d}] /\ content' = [content EXCEPT ![d] = op[r].point]
      BY <1>2 DEF RestoreDisk
    <2> HIDE DEF d
    <2>3. /\ op'[r].pc = "restoring" /\ op'[r].point = op[r].point /\ op'[r].todo = op[r].todo \ {d}
          /\ \A s \in Restores \ {r} : op'[s] = op[s]
      BY <1>1, <2>1, <2>2 DEF OpState
    <2>4. Replaces(r) = {d}
      BY <2>1, <2>3 DEF Replaces
    <2>5. content'[d] = op[r].point /\ \A e \in Disk \ {d} : content'[e] = content[e]
      BY <1>1, <2>1, <2>2
    <2>6. \A e \in Disk \ (op'[r].todo \cup overwritten'[r]) : content'[e] = op'[r].point
      <3>1. overwritten[r] \ op'[r].todo \subseteq overwritten'[r]
        BY <2>3, OverwrittenStays
      <3>2. \A e \in Disk \ (op[r].todo \cup overwritten[r]) : content[e] = op[r].point
        BY <2>1 DEF RestoredSoFar, Replacing
      <3>3. QED
        BY <2>3, <2>5, <3>1, <3>2
    <2>7. ASSUME NEW s \in Restores \ {r}, op'[s].pc \in Replacing
          PROVE  /\ \A e \in Disk \ (op'[s].todo \cup overwritten'[s]) : content'[e] = op'[s].point
                 /\ op'[s].pc = "redefining" => op'[s].todo = {}
      <3>1. op'[s] = op[s] /\ op'[s].pc # "idle"
        BY <2>3, <2>7 DEF Replacing
      <3>2. (overwritten[s] \cup {d}) \ op'[s].todo \subseteq overwritten'[s]
        BY <2>4, <3>1, OverwrittenStays
      <3>3. QED
        BY <2>5, <2>7, <3>1, <3>2 DEF RestoredSoFar
    <2>8. QED
      BY <2>3, <2>6, <2>7 DEF RestoredSoFar, Replacing
  <1>3. CASE ~RestoreDisk(r)
    <2>1. content' = content
      BY <1>3 DEF RestoreSteps, RestoreFails, RestoreDrop, RestoreRedefine, RestoreBegin, dom
    <2>2. \A s \in Restores \ {r} : op'[s] = op[s]
      BY <1>1, <1>3, ReturnTyped, StepTyped DEF RestoreSteps, RestoreFails, RestoreDrop,
         RestoreRedefine, RestoreBegin, Places
    <2>3. ASSUME op'[r].pc \in Replacing
          PROVE  /\ op'[r].todo = Disk \/ (op'[r].todo = op[r].todo /\ op'[r].point = op[r].point)
                 /\ op'[r].todo # Disk => op[r].pc \in Replacing
                 /\ op'[r].pc = "redefining" => op'[r].todo = {}
      <3>1. CASE RestoreFails(r) \/ RestoreRedefine(r)
        BY <1>1, <2>3, <3>1, ReturnTyped DEF RestoreFails, RestoreRedefine, Idle, Replacing
      <3>2. CASE RestoreDrop(r)
        BY <1>1, <3>2, StepTyped DEF RestoreDrop, Places, Replacing
      <3>3. CASE \E p \in Point : RestoreBegin(r, p)
        <4>1. PICK p \in Point :
                     op' = [op EXCEPT ![r].pc = "restoring", ![r].point = p, ![r].todo = Disk]
          BY <3>3 DEF RestoreBegin
        <4>2. op'[r].pc = "restoring" /\ op'[r].todo = Disk
          BY <1>1, <4>1 DEF OpState
        <4>3. QED
          BY <4>2
      <3>4. QED
        BY <1>3, <3>1, <3>2, <3>3 DEF RestoreSteps
    <2>4. ASSUME NEW s \in Restores, op'[s].pc \in Replacing
          PROVE  overwritten[s] \ op'[s].todo \subseteq overwritten'[s]
      BY <2>4, OverwrittenStays DEF Replacing
    <2>5. ASSUME NEW s \in Restores, op'[s].pc \in Replacing
          PROVE  /\ \A d \in Disk \ (op'[s].todo \cup overwritten'[s]) : content'[d] = op'[s].point
                 /\ op'[s].pc = "redefining" => op'[s].todo = {}
      BY <2>1, <2>2, <2>3, <2>4, <2>5 DEF RestoredSoFar
    <2>6. QED
      BY <2>5 DEF RestoredSoFar, Replacing
  <1>4. QED
    BY <1>2, <1>3

LEMMA BackupLeavesRestores ==
  ASSUME TypeInv, NEW b \in Backups, BackupSteps(b) \/ \E q \in Requests : BackupDecide(b, q)
  PROVE  /\ content' = content
         /\ \A x \in Call : op'[x].pc \in Replacing => op'[x] = op[x]
  <1>1. b \in Call /\ op \in [Call -> OpState]
    BY DEF Call, TypeInv, TypeOK
  <1>2. content' = content
    BY DEF BackupSteps, BackupDecide, BackupCreate, JobBegin, BackupPoll, BackupCancel,
       BackupFails, BackupFinish, OfflineFinish, BackupReturn, dom
  <1>3. CASE BackupCreate(b)
    <2> DEFINE pc == IF vm = "stopped" THEN "copying" ELSE "created"
    <2>1. op' = [op EXCEPT ![b].pc = pc, ![b].point = made + 1] /\ pc \in {"copying", "created"}
      BY <1>3 DEF BackupCreate
    <2> HIDE DEF pc
    <2>2. op'[b].pc = pc /\ \A x \in Call \ {b} : op'[x] = op[x]
      BY <1>1, <2>1 DEF OpState
    <2>3. QED
      BY <1>2, <2>1, <2>2 DEF Replacing
  <1>4. CASE \E q \in Requests : BackupDecide(b, q)
    <2>1. PICK q \in Requests : BackupDecide(b, q)
      BY <1>4
    <2> DEFINE a == IF q = "full" THEN 0 ELSE Anchor
    <2>2. op' = [op EXCEPT ![b].pc = "decided", ![b].parent = a]
      BY <2>1 DEF BackupDecide
    <2> HIDE DEF a
    <2>3. op'[b].pc = "decided" /\ \A x \in Call \ {b} : op'[x] = op[x]
      BY <1>1, <2>2 DEF OpState
    <2>4. QED
      BY <1>2, <2>3 DEF Replacing
  <1>5. CASE BackupCancel(b) \/ BackupFails(b) \/ BackupReturn(b)
    <2>1. op'[b].pc = "idle" /\ \A x \in Call \ {b} : op'[x] = op[x]
      BY <1>1, <1>5, ReturnTyped DEF BackupCancel, BackupFails, BackupReturn, Idle
    <2>2. QED
      BY <1>2, <2>1 DEF Replacing
  <1>6. CASE JobBegin(b) \/ BackupPoll(b) \/ BackupFinish(b) \/ OfflineFinish(b)
    <2>1. PICK pc \in {"polling", "verifying", "done"} : Step(b, pc)
      BY <1>6 DEF JobBegin, BackupPoll, BackupFinish, OfflineFinish, Complete
    <2>2. op'[b].pc = pc /\ \A x \in Call \ {b} : op'[x] = op[x]
      BY <1>1, <2>1, StepTyped DEF Places
    <2>3. QED
      BY <1>2, <2>2 DEF Replacing
  <1>7. QED
    BY <1>3, <1>4, <1>5, <1>6 DEF BackupSteps

LEMMA DeleteLeavesRestores ==
  ASSUME TypeInv, NEW c \in Deletes \cup Prunes,
         DeleteSteps(c) \/ PruneBegin(c) \/ \E p \in Listed : DeleteBegin(c, p)
  PROVE  /\ content' = content
         /\ \A x \in Call : op'[x].pc \in Replacing => op'[x] = op[x]
  <1>1. c \in Call /\ op \in [Call -> OpState]
    BY DEF Call, TypeInv, TypeOK
  <1>2. content' = content
    BY DEF DeleteSteps, DeletePick, DeleteEmpty, DeleteDone, DeleteFails, DropCheckpoint,
       PruneBegin, DeleteBegin, dom
  <1>3. CASE PruneBegin(c) \/ \E p \in Listed : DeleteBegin(c, p)
    <2>1. op'[c].pc = "picking" /\ \A x \in Call \ {c} : op'[x] = op[x]
      BY <1>1, <1>3 DEF PruneBegin, DeleteBegin, OpState
    <2>2. QED
      BY <1>2, <2>1 DEF Replacing
  <1>4. CASE DeletePick(c)
    <2>1. CASE op[c].todo = {}
      <3>1. op'[c].pc = "idle" /\ \A x \in Call \ {c} : op'[x] = op[x]
        BY <1>1, <1>4, <2>1, ReturnTyped DEF DeletePick, Idle
      <3>2. QED
        BY <1>2, <3>1 DEF Replacing
    <2>2. CASE op[c].todo # {}
      <3> DEFINE p == NextDropped(op[c].todo)
                 pc == IF p \in Listed THEN "removing" ELSE "picking"
      <3>1. op' = [op EXCEPT ![c].todo = @ \ {p}, ![c].point = p, ![c].pc = pc]
            /\ pc \in {"removing", "picking"}
        BY <1>4, <2>2 DEF DeletePick
      <3> HIDE DEF p, pc
      <3>2. op'[c].pc = pc /\ \A x \in Call \ {c} : op'[x] = op[x]
        BY <1>1, <3>1 DEF OpState
      <3>3. QED
        BY <1>2, <3>1, <3>2 DEF Replacing
    <2>3. QED
      BY <2>1, <2>2
  <1>5. CASE DeleteEmpty(c) \/ DeleteDone(c) \/ DeleteFails(c) \/ DropCheckpoint(c)
    <2>1. PICK pc \in {"picking", "emptying", "dropping"} : Step(c, pc)
      BY <1>5 DEF DeleteEmpty, DeleteDone, DeleteFails, DropCheckpoint
    <2>2. op'[c].pc = pc /\ \A x \in Call \ {c} : op'[x] = op[x]
      BY <1>1, <2>1, StepTyped DEF Places
    <2>3. QED
      BY <1>2, <2>2 DEF Replacing
  <1>6. QED
    BY <1>3, <1>4, <1>5 DEF DeleteSteps

\* A restore that reaches its last step has put its point on every disk of the
\* machine, whatever backups, deletions, power changes, crashes and restores came
\* between, but for the disks that another restore has replaced since it did:
\* RestoreBackup excludes no second one.
THEOREM RestoresWhole == HSpec => []RestoredUnlessOverwritten
  <1>1. HInit => RestoredSoFar
    BY DEF HInit, Init, Idle, RestoredSoFar, Replacing, Call
  <1>2. ASSUME IInv, RestoredSoFar, [HNext]_<<vars, hist>>
        PROVE  RestoredSoFar'
    <2>1. TypeInv /\ Restores \subseteq Call /\ ((Next /\ Records) \/ UNCHANGED <<vars, hist>>)
      BY <1>2 DEF IInv, Call, HNext
    <2>2. CASE UNCHANGED <<vars, hist>>
      BY <1>2, <2>2, OthersKeepRestored DEF vars, dom, hist
    <2>3. ASSUME Records, NEW r \in Restores, RestoreSteps(r) \/ \E p \in Point : RestoreBegin(r, p)
          PROVE  RestoredSoFar'
      BY <1>2, <2>1, <2>3, RestoreKeepsRestored
    <2>4. ASSUME Records, NEW b \in Backups, BackupSteps(b) \/ \E q \in Requests : BackupDecide(b, q)
          PROVE  RestoredSoFar'
      BY <1>2, <2>1, <2>4, BackupLeavesRestores, OthersKeepRestored
    <2>5. ASSUME Records, NEW c \in Deletes \cup Prunes,
                 DeleteSteps(c) \/ PruneBegin(c) \/ \E p \in Listed : DeleteBegin(c, p)
          PROVE  RestoredSoFar'
      BY <1>2, <2>1, <2>5, DeleteLeavesRestores, OthersKeepRestored
    <2>6. CASE Records /\ (\/ \E result \in {"whole", "partial", "none"} : JobEnds(result)
                          \/ PowerOn \/ PowerOff)
      <3>1. UNCHANGED <<op, content>>
        BY <2>6 DEF JobEnds, PowerOn, PowerOff
      <3>2. QED
        BY <1>2, <2>6, <3>1, OthersKeepRestored
    <2>7. CASE Records /\ Crash
      BY <1>2, <2>1, <2>7, OthersKeepRestored DEF Crash, Idle, Replacing, dom
    <2>8. QED
      BY <2>1, <2>2, <2>3, <2>4, <2>5, <2>6, <2>7 DEF Next
  <1>3. RestoredSoFar => RestoredUnlessOverwritten
    BY DEF RestoredSoFar, Replacing, RestoredUnlessOverwritten
  <1>4. QED
    BY <1>1, <1>2, <1>3, RecordedInductive, PTL DEF HSpec

-----------------------------------------------------------------------------
(***************************************************************************)
(* Retention against backups, deletions and failures                       *)
(***************************************************************************)

\* The points a deletion has still to remove.
Doomed(c) ==
  CASE op[c].pc \in {"picking", "dropping"} -> op[c].todo
    [] op[c].pc \in {"removing", "emptying"} -> op[c].todo \cup {op[c].point}
    [] OTHER -> {}

\* Point q can be continued from: it is listed, and nothing newer is.  A full,
\* which continues from 0, and a point that was there at the last deletion by
\* hand need no such thing.
Tip(q) == q <= byHand \/ (q \in Listed /\ \A l \in Listed : l <= q)

\* Backups that are under way together are mixed, and what they write is spoilt,
\* as are the points made since such a backup took its own.
MixInv ==
  /\ byHand \in 0..made
  /\ \A o \in Call : Underway(o) => o \in Backups
  /\ \A a, b \in Backups : Underway(a) /\ Underway(b) /\ a # b => a \in mixed
  /\ \A b \in mixed : Writing(b) => op[b].point \in spoilt
  /\ \A b \in Backups : Writing(b) =>
       \A p \in Point : op[b].point < p /\ p <= made => p \in spoilt

\* A backup that has been alone so far continues from the tip.
GrowInv ==
  \A b \in Backups \ mixed :
    /\ op[b].pc = "decided" => Tip(op[b].parent)
    /\ Writing(b) => Tip(parent[op[b].point])

\* The parent of a listed point is listed, with no listed point between them.
FamilyInv ==
  \A p \in Listed \ spoilt : parent[p] > byHand =>
    parent[p] \in Listed /\ \A l \in Listed : ~(parent[p] < l /\ l < p)

\* What is removed is older than a listed point, and goes after its children.
DoomInv ==
  \A c \in Call :
    /\ \A x \in Doomed(c) : x > byHand => \E f \in Listed : x < f
    /\ \A x \in Doomed(c), p \in Listed \ spoilt : x > byHand /\ parent[p] = x => p \in Doomed(c)
    /\ op[c].pc \in {"removing", "emptying"} => \A x \in op[c].todo : x < op[c].point

RetentionInv == MixInv /\ GrowInv /\ FamilyInv /\ DoomInv

\* What is recorded only makes exceptions of more points.
LEMMA RecordsGrow ==
  ASSUME TypeInv, MixInv, Records
  PROVE  /\ spoilt \subseteq spoilt'
         /\ byHand \in Nat /\ byHand' \in 0..made /\ byHand <= byHand'
         /\ \A b \in Backups \ mixed' : Underway(b)' => b \notin mixed
  <1>1. made \in Nat /\ byHand \in 0..made
    BY Numbers DEF MixInv, TypeInv, TypeOK, LibTypeOK
  <1>2. byHand' = byHand \/ byHand' = made
    BY DEF Records
  <1>3. QED
    BY <1>1, <1>2 DEF Records

LEMMA MixKept ==
  ASSUME TypeInv, MixInv, Records, made' \in Nat, made <= made',
         \A o \in Call : Underway(o)' => o \in Backups,
         \A b \in Backups : Writing(b)' =>
           \A p \in Point : op'[b].point < p /\ p <= made' => p \in spoilt'
  PROVE  MixInv'
  <1>1. byHand' \in 0..made'
    BY RecordsGrow DEF TypeInv, TypeOK, LibTypeOK
  <1>2. \A a, b \in Backups : Underway(a)' /\ Underway(b)' /\ a # b => a \in mixed'
    BY DEF Records
  <1>3. \A b \in mixed' : Writing(b)' => op'[b].point \in spoilt'
    BY DEF Records
  <1>4. QED
    BY <1>1, <1>2, <1>3 DEF MixInv

LEMMA TipStays ==
  ASSUME TypeInv, MixInv, Records, Listed' = Listed, NEW q \in 0..MaxPoints, Tip(q)
  PROVE  Tip(q)'
  BY RecordsGrow DEF Tip

LEMMA DoomedAfter ==
  ASSUME TypeInv, MixInv, Records, NEW c \in Call, NEW x \in Doomed(c), x > byHand'
  PROVE  x > byHand
  <1>1. x \in Point /\ made \in Nat
    BY Numbers DEF Doomed, TypeInv, TypeOK, LibTypeOK, HoldInv, Holds
  <1>2. x \in Nat /\ byHand \in Nat /\ byHand' \in Nat /\ byHand <= byHand'
    BY <1>1, Numbers, RecordsGrow DEF Point
  <1>3. QED
    BY <1>2

\* A backup that the step moves on at most continues from a tip as before.
LEMMA GrowStays ==
  ASSUME TypeInv, RetentionInv, Records, parent' = parent,
         \A q \in 0..MaxPoints : Tip(q) => Tip(q)',
         NEW b \in Backups \ mixed', Underway(b)',
         op'[b].pc = "decided" => op'[b] = op[b],
         Writing(b)' => Writing(b) /\ op'[b].point = op[b].point
  PROVE  /\ op'[b].pc = "decided" => Tip(op[b].parent)'
         /\ Writing(b)' => Tip(parent[op[b].point])'
  <1>1. /\ parent \in [Point -> 0..MaxPoints] /\ op[b].parent \in 0..MaxPoints /\ b \notin mixed
        /\ Writing(b) => op[b].point \in Point
    <2>1. b \in Call /\ made \in 0..MaxPoints /\ made \in Nat
      BY Numbers DEF Call, TypeInv, TypeOK, LibTypeOK
    <2>2. b \notin mixed
      BY RecordsGrow DEF RetentionInv
    <2>3. Writing(b) => op[b].point \in Point
      BY <2>1, Numbers DEF TypeInv, HoldInv, Holds, Writing, Point
    <2>4. QED
      BY <2>1, <2>2, <2>3 DEF TypeInv, TypeOK, LibTypeOK, OpState
  <1>2. ASSUME op'[b].pc = "decided" PROVE Tip(op[b].parent)'
    <2>1. PICK q \in 0..MaxPoints : q = op[b].parent /\ Tip(q)
      BY <1>1, <1>2 DEF RetentionInv, GrowInv
    <2>2. Tip(q)'
      BY <2>1
    <2>3. QED
      BY <1>2, <2>1, <2>2 DEF Tip
  <1>3. ASSUME Writing(b)' PROVE Tip(parent[op[b].point])'
    <2>1. PICK q \in 0..MaxPoints : q = parent[op[b].point] /\ Tip(q)
      BY <1>1, <1>3 DEF RetentionInv, GrowInv
    <2>2. Tip(q)'
      BY <2>1
    <2>3. QED
      BY <1>3, <2>1, <2>2 DEF Tip
  <1>4. QED
    BY <1>2, <1>3

\* A step that makes no point and lists or removes none.
LEMMA QuietKeepsRetention ==
  ASSUME TypeInv, RetentionInv, Records, Listed' = Listed, parent' = parent, made' = made,
         \A o \in Call : op'[o].pc = "decided" => op'[o] = op[o],
         \A o \in Call : Writing(o)' => Writing(o) /\ op'[o].point = op[o].point,
         DoomInv'
  PROVE  RetentionInv'
  <1>1. made \in Nat /\ parent \in [Point -> 0..MaxPoints] /\ Backups \subseteq Call
        /\ \A o \in Call : op[o].parent \in 0..MaxPoints
    BY Numbers DEF TypeInv, TypeOK, LibTypeOK, Call, OpState
  <1>2. /\ spoilt \subseteq spoilt' /\ byHand \in Nat /\ byHand' \in Nat /\ byHand <= byHand'
        /\ \A b \in Backups \ mixed' : Underway(b)' => b \notin mixed
    BY <1>1, RecordsGrow DEF RetentionInv
  <1>3. MixInv'
    <2>1. \A o \in Call : Underway(o)' => o \in Backups
      BY DEF RetentionInv, MixInv, Underway
    <2>2. \A b \in Backups : Writing(b)' =>
            \A p \in Point : op'[b].point < p /\ p <= made' => p \in spoilt'
      BY <1>1, <1>2 DEF RetentionInv, MixInv
    <2>3. QED
      BY <1>1, <2>1, <2>2, MixKept DEF RetentionInv
  <1>4. GrowInv'
    <2>1. \A q \in 0..MaxPoints : Tip(q) => Tip(q)'
      BY TipStays DEF RetentionInv
    <2>2. ASSUME NEW b \in Backups \ mixed', Underway(b)'
          PROVE  /\ op'[b].pc = "decided" => Tip(op[b].parent)'
                 /\ Writing(b)' => Tip(parent[op[b].point])'
      BY <1>1, <2>1, <2>2, GrowStays
    <2>3. QED
      BY <2>2 DEF GrowInv, Underway
  <1>5. FamilyInv'
    <2>1. \A p \in Listed \ spoilt' : parent[p] > byHand' => parent[p] > byHand
      BY <1>1, <1>2, Numbers DEF Listed
    <2>2. QED
      BY <1>2, <2>1 DEF RetentionInv, FamilyInv
  <1>6. QED
    BY <1>3, <1>4, <1>5 DEF RetentionInv

\* A call that neither makes a point nor takes one more to remove.
Harmless(o) ==
  /\ op'[o].pc # "decided" \/ op'[o] = op[o]
  /\ op'[o].pc \in WritingPlaces => op[o].pc \in WritingPlaces /\ op'[o].point = op[o].point
  /\ Doomed(o)' \subseteq Doomed(o)
  /\ Doomed(o)' = {} \/ \A x \in Doomed(o) \ Doomed(o)' : x \notin Listed \/ x \in spoilt'
  /\ op'[o].pc \in {"removing", "emptying"} => \A x \in op'[o].todo : x < op'[o].point

LEMMA SameIsHarmless ==
  ASSUME RetentionInv, NEW o \in Call, op'[o] = op[o]
  PROVE  Harmless(o)
  BY DEF Harmless, Doomed, WritingPlaces, RetentionInv, DoomInv

\* A call that is elsewhere afterwards.
LEMMA AwayIsHarmless ==
  ASSUME NEW o \in Call,
         op'[o].pc \in {"idle", "done", "restoring", "redefining"}
  PROVE  Harmless(o)
  BY DEF Harmless, Doomed, WritingPlaces

LEMMA HarmlessKeepsRetention ==
  ASSUME TypeInv, RetentionInv, Records, Listed' = Listed, parent' = parent, made' = made,
         \A o \in Call : Harmless(o)
  PROVE  RetentionInv'
  <1>1. spoilt \subseteq spoilt' /\ byHand \in Nat /\ byHand' \in Nat /\ byHand <= byHand'
    <2>1. made \in Nat
      BY Numbers DEF TypeInv, TypeOK, LibTypeOK
    <2>2. QED
      BY <2>1, RecordsGrow DEF RetentionInv
  <1>2. DoomInv'
    <2> SUFFICES ASSUME NEW c \in Call
                 PROVE  /\ \A x \in Doomed(c)' : x > byHand' => \E f \in Listed : x < f
                        /\ \A x \in Doomed(c)', p \in Listed \ spoilt' :
                             x > byHand' /\ parent[p] = x => p \in Doomed(c)'
                        /\ op'[c].pc \in {"removing", "emptying"} =>
                             \A x \in op'[c].todo : x < op'[c].point
      BY DEF DoomInv
    <2>1. \A x \in Doomed(c) : x > byHand' => x > byHand
      BY DoomedAfter DEF RetentionInv
    <2>2. \A x \in Doomed(c) : x > byHand => \E f \in Listed : x < f
      BY DEF RetentionInv, DoomInv
    <2>3. \A x \in Doomed(c), p \in Listed \ spoilt : x > byHand /\ parent[p] = x => p \in Doomed(c)
      BY DEF RetentionInv, DoomInv
    <2>4. QED
      BY <1>1, <2>1, <2>2, <2>3 DEF Harmless
  <1>3. QED
    BY <1>2, QuietKeepsRetention DEF Harmless, Writing, WritingPlaces

LEMMA OneCallKeepsRetention ==
  ASSUME TypeInv, RetentionInv, Records, Listed' = Listed, parent' = parent, made' = made,
         NEW o \in Call, \A x \in Call \ {o} : op'[x] = op[x], Harmless(o)
  PROVE  RetentionInv'
  <1>1. \A x \in Call : Harmless(x)
    BY SameIsHarmless
  <1>2. QED
    BY <1>1, HarmlessKeepsRetention

\* The parent of a point in the making is not being removed.
LEMMA TipIsSafe ==
  ASSUME TypeInv, RetentionInv, NEW q \in 0..MaxPoints, Tip(q), q > byHand, NEW c \in Call
  PROVE  q \notin Doomed(c)
  <1> SUFFICES ASSUME q \in Doomed(c) PROVE FALSE
    OBVIOUS
  <1>1. byHand \in Nat
    BY Numbers DEF RetentionInv, MixInv, TypeInv, TypeOK, LibTypeOK
  <1>2. PICK f \in Listed : q < f
    BY DEF RetentionInv, DoomInv
  <1>3. f \in Nat /\ f <= q
    BY <1>1, Numbers DEF Tip, Point, Listed
  <1>4. QED
    BY <1>2, <1>3

\* The point a deletion is at goes: its children have gone before it.
LEMMA RemovalKeepsRetention ==
  ASSUME TypeInv, LibInv, RetentionInv, Records, NEW c \in Call,
         op[c].pc \in {"removing", "emptying"}, op[c].point \in Listed,
         Listed' = Listed \ {op[c].point}, parent' = parent, made' = made,
         \A x \in Call \ {c} : op'[x] = op[x],
         op'[c].pc \in {"emptying", "dropping", "picking"},
         op'[c].point = op[c].point, op'[c].todo = op[c].todo
  PROVE  RetentionInv'
  <1> DEFINE x == op[c].point
  <1>1. /\ x \in Point /\ Listed \subseteq Point /\ parent \in [Point -> 0..MaxPoints]
        /\ made \in Nat /\ Backups \subseteq Call /\ Point \subseteq Nat
        /\ \A o \in Call : op[o].parent \in 0..MaxPoints
    BY NewestTyped, Numbers DEF TypeInv, TypeOK, LibTypeOK, Call, OpState, Point
  <1>2. x \in Doomed(c) /\ \A y \in Doomed(c) : y <= x
    BY <1>1, Numbers DEF Doomed, RetentionInv, DoomInv, TypeInv, HoldInv, Holds, Point
  <1>3. /\ spoilt \subseteq spoilt' /\ byHand \in Nat /\ byHand' \in Nat /\ byHand <= byHand'
        /\ \A b \in Backups \ mixed' : Underway(b)' => b \notin mixed
    BY <1>1, RecordsGrow DEF RetentionInv
  <1>4. \A p \in Listed \ spoilt : x > byHand => parent[p] # x
    <2> SUFFICES ASSUME NEW p \in Listed \ spoilt, x > byHand, parent[p] = x PROVE FALSE
      OBVIOUS
    <2>1. p \in Doomed(c)
      BY <1>2 DEF RetentionInv, DoomInv
    <2>2. x < p /\ p <= x
      BY <1>1, <1>2, <2>1, Numbers DEF LibInv, ParentInv, Point
    <2>3. x \in Nat /\ p \in Nat
      BY <1>1
    <2>4. QED
      BY <2>2, <2>3
  <1>5. \A q \in 0..MaxPoints : Tip(q) => Tip(q)'
    <2> SUFFICES ASSUME NEW q \in 0..MaxPoints, Tip(q) PROVE Tip(q)'
      OBVIOUS
    <2>1. CASE q <= byHand
      BY <1>3, <2>1 DEF Tip
    <2>2. CASE q > byHand
      BY <1>2, <1>3, <2>2, TipIsSafe DEF Tip
    <2>3. QED
      BY <1>3, <2>1, <2>2
  <1>6. \A o \in Call : Underway(o)' => op'[o] = op[o] /\ o # c
    BY DEF Underway, Writing
  <1>7. MixInv'
    <2>1. \A o \in Call : Underway(o)' => o \in Backups
      BY <1>6 DEF RetentionInv, MixInv, Underway, Writing
    <2>2. \A b \in Backups : Writing(b)' =>
            \A p \in Point : op'[b].point < p /\ p <= made' => p \in spoilt'
      BY <1>1, <1>3, <1>6 DEF RetentionInv, MixInv, Underway, Writing
    <2>3. QED
      BY <1>1, <2>1, <2>2, MixKept DEF RetentionInv
  <1>8. GrowInv'
    <2>1. ASSUME NEW b \in Backups \ mixed', Underway(b)'
          PROVE  /\ op'[b].pc = "decided" => Tip(op[b].parent)'
                 /\ Writing(b)' => Tip(parent[op[b].point])'
      <3>1. op'[b] = op[b] /\ (Writing(b)' => Writing(b))
        BY <1>1, <1>6, <2>1 DEF Writing
      <3>2. QED
        BY <1>5, <2>1, <3>1, GrowStays
    <2>2. QED
      BY <2>1 DEF GrowInv, Underway
  <1>9. FamilyInv'
    <2>1. \A p \in Listed \ spoilt' : parent[p] > byHand' => parent[p] > byHand /\ parent[p] # x
      BY <1>1, <1>3, <1>4, Numbers
    <2>2. QED
      BY <1>3, <2>1 DEF RetentionInv, FamilyInv
  <1>10. DoomInv'
    <2>1. \A o \in Call : Doomed(o)' = Doomed(o) \/ (o = c /\ Doomed(o)' = Doomed(o) \ {x})
      <3>1. \A o \in Call \ {c} : Doomed(o)' = Doomed(o)
        BY DEF Doomed
      <3>2. Doomed(c) = op[c].todo \cup {x} /\ x \notin op[c].todo
        BY <1>1, Numbers DEF Doomed, RetentionInv, DoomInv, Point
      <3>3. Doomed(c)' = Doomed(c) \/ Doomed(c)' = Doomed(c) \ {x}
        BY <3>2 DEF Doomed
      <3>4. QED
        BY <3>1, <3>3
    <2>2. \A o \in Call : \A y \in Doomed(o) : y \in Nat /\ (y > byHand' => y > byHand)
      <3>1. \A o \in Call : Doomed(o) \subseteq Point
        BY DEF Doomed, TypeInv, HoldInv, Holds
      <3>2. QED
        BY <1>1, <3>1, DoomedAfter DEF RetentionInv
    <2>3. \A o \in Call : \A y \in Doomed(o) : y > byHand => \E f \in Listed \ {x} : y < f
      <3> SUFFICES ASSUME NEW o \in Call, NEW y \in Doomed(o), y > byHand
                   PROVE  \E f \in Listed \ {x} : y < f
        OBVIOUS
      <3>1. PICK f \in Listed : y < f
        BY DEF RetentionInv, DoomInv
      <3>2. CASE f = x
        <4>1. y \in Nat /\ x \in Nat /\ byHand \in Nat /\ Listed \subseteq Nat
          BY <1>1, <1>3, <2>2
        <4>2. x > byHand
          BY <3>1, <3>2, <4>1
        <4>3. PICK g \in Listed : x < g
          BY <1>2, <4>2 DEF RetentionInv, DoomInv
        <4>4. g # x /\ y < g
          BY <3>1, <3>2, <4>1, <4>3
        <4>5. QED
          BY <4>3, <4>4
      <3>3. QED
        BY <3>1, <3>2
    <2>4. \A o \in Call : \A y \in Doomed(o)', p \in Listed \ ({x} \cup spoilt) :
            y > byHand /\ parent[p] = y => p \in Doomed(o)'
      BY <2>1 DEF RetentionInv, DoomInv
    <2>5. \A o \in Call : op'[o].pc \in {"removing", "emptying"} => \A y \in op'[o].todo : y < op'[o].point
      BY DEF RetentionInv, DoomInv
    <2>6. QED
      BY <1>3, <2>1, <2>2, <2>3, <2>4, <2>5 DEF DoomInv
  <1>11. QED
    BY <1>7, <1>8, <1>9, <1>10 DEF RetentionInv

LEMMA DecideKeepsRetention ==
  ASSUME TypeInv, RetentionInv, Records, NEW b \in Backups, NEW q \in Requests, BackupDecide(b, q)
  PROVE  RetentionInv'
  <1>1. /\ b \in Call /\ op \in [Call -> OpState] /\ Listed' = Listed /\ parent' = parent /\ made' = made
        /\ made \in Nat /\ parent \in [Point -> 0..MaxPoints] /\ Backups \subseteq Call
        /\ \A o \in Call : op[o].parent \in 0..MaxPoints
    BY Numbers DEF Call, TypeInv, TypeOK, LibTypeOK, BackupDecide, lib, Listed, OpState
  <1> DEFINE a == IF q = "full" THEN 0 ELSE Anchor
  <1>2. /\ spoilt \subseteq spoilt' /\ byHand \in Nat /\ byHand' \in Nat /\ byHand <= byHand'
        /\ \A x \in Backups \ mixed' : Underway(x)' => x \notin mixed
    BY <1>1, RecordsGrow DEF RetentionInv
  <1>3. op' = [op EXCEPT ![b].pc = "decided", ![b].parent = a] /\ a \in 0..MaxPoints
    BY AnchorTyped, Numbers DEF BackupDecide
  <1>4. a = 0 \/ (a \in Listed /\ \A l \in Listed : l <= a)
    BY NewestTyped DEF Anchor
  <1> HIDE DEF a
  <1>5. (\A x \in Call \ {b} : op'[x] = op[x]) /\ op'[b].pc = "decided" /\ op'[b].parent = a
    BY <1>1, <1>3 DEF OpState
  <1>6. ~Writing(b)' /\ \A x \in Call \ {b} : Writing(x)' => Writing(x)
    BY <1>5 DEF Writing
  <1>7. MixInv'
    <2>1. \A o \in Call : Underway(o)' => o \in Backups
      BY <1>5 DEF RetentionInv, MixInv, Underway, Writing
    <2>2. \A x \in Backups : Writing(x)' =>
            \A p \in Point : op'[x].point < p /\ p <= made' => p \in spoilt'
      BY <1>1, <1>2, <1>5, <1>6 DEF RetentionInv, MixInv
    <2>3. QED
      BY <1>1, <2>1, <2>2, MixKept DEF RetentionInv
  <1>8. GrowInv'
    <2> SUFFICES ASSUME NEW x \in Backups \ mixed', Underway(x)'
                 PROVE  /\ op'[x].pc = "decided" => Tip(op[x].parent)'
                        /\ Writing(x)' => Tip(parent[op[x].point])'
      BY DEF GrowInv, Underway
    <2>1. CASE x = b
      <3>1. op'[x].parent = 0 \/ (op'[x].parent \in Listed' /\ \A l \in Listed' : l <= op'[x].parent)
        BY <1>1, <1>4, <1>5, <2>1
      <3>2. Tip(op[x].parent)'
        BY <1>2, <3>1 DEF Tip
      <3>3. QED
        BY <1>6, <2>1, <3>2
    <2>2. CASE x # b
      <3>1. op'[x] = op[x] /\ (Writing(x)' => Writing(x))
        BY <1>1, <1>5, <1>6, <2>2
      <3>2. \A t \in 0..MaxPoints : Tip(t) => Tip(t)'
        BY <1>1, TipStays DEF RetentionInv
      <3>3. QED
        BY <1>1, <3>1, <3>2, GrowStays
    <2>3. QED
      BY <2>1, <2>2
  <1>9. FamilyInv'
    <2>1. \A p \in Listed \ spoilt' : parent[p] > byHand' => parent[p] > byHand
      BY <1>1, <1>2, Numbers DEF Listed
    <2>2. QED
      BY <1>1, <1>2, <2>1 DEF RetentionInv, FamilyInv
  <1>10. DoomInv'
    <2>1. \A c \in Call : Doomed(c)' \subseteq Doomed(c) /\ (c # b => Doomed(c)' = Doomed(c))
      BY <1>5 DEF Doomed
    <2>2. Doomed(b)' = {}
      BY <1>5 DEF Doomed
    <2>3. \A c \in Call : \A x \in Doomed(c) : x > byHand' => x > byHand
      BY DoomedAfter DEF RetentionInv
    <2>4. QED
      BY <1>1, <1>2, <1>5, <2>1, <2>2, <2>3 DEF RetentionInv, DoomInv
  <1>11. QED
    BY <1>7, <1>8, <1>9, <1>10 DEF RetentionInv

LEMMA CreateKeepsRetention ==
  ASSUME TypeInv, LibInv, TypeInv', RetentionInv, Records, NEW b \in Backups, BackupCreate(b)
  PROVE  RetentionInv'
  <1> DEFINE p == made'
             pc == IF vm = "stopped" THEN "copying" ELSE "created"
             a == IF vm = "stopped" THEN 0 ELSE op[b].parent
  <1>1. /\ b \in Call /\ op \in [Call -> OpState] /\ made \in Nat /\ p = made + 1 /\ p \in Nat
        /\ p \in 0..MaxPoints /\ phase \in [Point -> Phase] /\ parent \in [Point -> 0..MaxPoints]
        /\ op[b].pc = "decided" /\ Backups \subseteq Call
        /\ \A o \in Call : op[o].parent \in 0..MaxPoints
    BY Numbers DEF Call, TypeInv, TypeOK, LibTypeOK, BackupCreate, OpState
  <1>2. p \in Point /\ phase[p] = "none"
    BY <1>1, Numbers DEF LibInv, PointInv, Point
  <1>3. /\ op' = [op EXCEPT ![b].pc = pc, ![b].point = p] /\ pc \in {"copying", "created"}
        /\ phase' = [phase EXCEPT ![p] = "writing"]
        /\ parent' = [parent EXCEPT ![p] = a]
    BY <1>1 DEF BackupCreate
  <1>4. /\ spoilt \subseteq spoilt' /\ byHand \in Nat /\ byHand' \in Nat /\ byHand <= byHand'
        /\ \A x \in Backups \ mixed' : Underway(x)' => x \notin mixed
    BY <1>1, RecordsGrow DEF RetentionInv
  <1>5. b \notin mixed' => Tip(a)
    <2>1. Underway(b)'
      BY <1>1, <1>3 DEF Underway, Writing, OpState
    <2>2. b \notin mixed' => Tip(op[b].parent)
      BY <1>1, <1>4, <2>1 DEF RetentionInv, GrowInv
    <2>3. QED
      BY <1>4, <2>2 DEF Tip
  <1>6. a \in 0..MaxPoints
    BY <1>1, Numbers
  <1> HIDE DEF pc, a
  <1>7. Listed' = Listed /\ p \notin Listed /\ \A l \in Listed : parent'[l] = parent[l]
    BY <1>1, <1>2, <1>3 DEF Listed
  <1>8. (\A x \in Call \ {b} : op'[x] = op[x]) /\ op'[b].pc = pc /\ op'[b].point = p
    BY <1>1, <1>3 DEF OpState
  <1>9. \A x \in Call : Writing(x) => op[x].point \in Point /\ op[x].point # p /\ op[x].point <= made
    BY <1>1, Numbers DEF TypeInv, HoldInv, Holds, Writing, Point
  <1>10. Writing(b)' /\ Underway(b)'
    BY <1>3, <1>8 DEF Underway, Writing
  <1>11. MixInv'
    <2>1. \A o \in Call : Underway(o)' => o \in Backups
      BY <1>8 DEF RetentionInv, MixInv, Underway, Writing
    <2>2. ASSUME NEW x \in Backups, Writing(x)', NEW y \in Point, op'[x].point < y, y <= made'
          PROVE  y \in spoilt'
      <3>1. CASE x = b
        BY <1>1, <1>8, <2>2, <3>1, Numbers DEF Point
      <3>2. CASE x # b
        <4>1. op'[x] = op[x] /\ Writing(x) /\ Underway(x)'
          BY <1>1, <1>8, <2>2, <3>2 DEF Writing, Underway
        <4>2. CASE y <= made
          BY <1>4, <2>2, <4>1, <4>2 DEF RetentionInv, MixInv
        <4>3. CASE y = p
          <5>1. b \in mixed'
            BY <1>10, <3>2, <4>1 DEF Records
          <5>2. QED
            BY <1>8, <1>10, <4>3, <5>1 DEF Records
        <4>4. y \in Nat
          BY Numbers DEF Point
        <4>5. QED
          BY <1>1, <2>2, <4>2, <4>3, <4>4
      <3>3. QED
        BY <3>1, <3>2
    <2>3. QED
      BY <1>1, <2>1, <2>2, MixKept DEF RetentionInv
  <1>12. GrowInv'
    <2> SUFFICES ASSUME NEW x \in Backups \ mixed', Underway(x)'
                 PROVE  /\ op'[x].pc = "decided" => Tip(op[x].parent)'
                        /\ Writing(x)' => Tip(parent[op[x].point])'
      BY DEF GrowInv, Underway
    <2>1. x = b
      BY <1>10 DEF Records
    <2>2. parent'[op'[x].point] = a /\ op'[x].pc # "decided"
      BY <1>1, <1>2, <1>3, <1>8, <2>1
    <2>3. a <= byHand' \/ (a \in Listed' /\ \A l \in Listed' : l <= a)
      BY <1>4, <1>5, <1>6, <1>7, <2>1 DEF Tip
    <2>4. QED
      BY <2>2, <2>3 DEF Tip
  <1>13. FamilyInv'
    <2>1. \A l \in Listed \ spoilt' : parent[l] > byHand' => parent[l] > byHand
      BY <1>1, <1>4, Numbers DEF Listed
    <2>2. QED
      BY <1>4, <1>7, <2>1 DEF RetentionInv, FamilyInv
  <1>14. DoomInv'
    <2>1. \A c \in Call : Doomed(c)' = Doomed(c)
      BY <1>1, <1>3, <1>8 DEF Doomed
    <2>2. \A c \in Call : op'[c].pc \in {"removing", "emptying"} => op'[c] = op[c]
      BY <1>3, <1>8
    <2>3. \A c \in Call : \A x \in Doomed(c) : x > byHand' => x > byHand
      BY DoomedAfter DEF RetentionInv
    <2>4. QED
      BY <1>4, <1>7, <2>1, <2>2, <2>3 DEF RetentionInv, DoomInv
  <1>15. QED
    BY <1>11, <1>12, <1>13, <1>14 DEF RetentionInv

\* The point becomes listed: unless its backup was mixed, it is the newest, and
\* its parent is not doomed.
LEMMA FinishKeepsRetention ==
  ASSUME TypeInv, LibInv, RetentionInv, Records, NEW b \in Backups,
         Writing(b), phase' = [phase EXCEPT ![op[b].point] = "complete"], Step(b, "done"),
         parent' = parent, made' = made
  PROVE  RetentionInv'
  <1> DEFINE p == op[b].point
  <1>1. /\ b \in Call /\ op \in [Call -> OpState] /\ phase \in [Point -> Phase]
        /\ parent \in [Point -> 0..MaxPoints] /\ made \in Nat /\ p \in Point /\ phase[p] = "writing"
        /\ Backups \subseteq Call
    BY Numbers DEF Call, TypeInv, TypeOK, LibTypeOK, HoldInv, Holds, Writing, Point, LibInv, PointInv
  <1>2. Listed' = Listed \cup {p} /\ Listed \subseteq Nat /\ p \in Nat
    BY <1>1, Numbers DEF Listed, Point
  <1>3. \A l \in Listed : l <= made /\ l \in Point
    <2>1. \A l \in Listed : ~(l > made) /\ l \in Point
      BY DEF Listed, LibInv, PointInv
    <2>2. QED
      BY <1>1, <1>2, <2>1
  <1>4. (\A x \in Call \ {b} : op'[x] = op[x]) /\ op'[b].pc = "done"
    BY <1>1, StepTyped DEF Places
  <1>5. spoilt \subseteq spoilt' /\ byHand \in Nat /\ byHand' \in Nat /\ byHand <= byHand'
    BY <1>1, RecordsGrow DEF RetentionInv
  <1>6. \A x \in Call : Underway(x)' => x # b /\ op'[x] = op[x] /\ Underway(x)
    BY <1>4 DEF Underway, Writing
  <1>7. p \notin spoilt' => parent[p] <= byHand \/ (parent[p] \in Listed /\ \A l \in Listed : l <= parent[p])
    <2>1. p \notin spoilt' => b \notin mixed
      BY <1>5 DEF RetentionInv, MixInv
    <2>2. QED
      BY <2>1 DEF RetentionInv, GrowInv, Tip
  <1>8. MixInv'
    <2>1. \A o \in Call : Underway(o)' => o \in Backups
      BY <1>6 DEF RetentionInv, MixInv
    <2>2. \A x \in Backups : Writing(x)' =>
            \A y \in Point : op'[x].point < y /\ y <= made' => y \in spoilt'
      BY <1>1, <1>5, <1>6 DEF RetentionInv, MixInv, Underway, Writing
    <2>3. QED
      BY <1>1, <2>1, <2>2, MixKept DEF RetentionInv
  <1>9. GrowInv'
    <2>1. ASSUME NEW x \in Backups \ mixed', Underway(x)' PROVE FALSE
      <3>1. x # b /\ Underway(x) /\ Underway(b)
        BY <1>1, <1>6, <2>1 DEF Underway
      <3>2. x \in mixed
        BY <3>1 DEF RetentionInv, MixInv
      <3>3. QED
        BY <2>1, <3>2 DEF Records
    <2>2. QED
      BY <2>1 DEF GrowInv, Underway
  <1>10. FamilyInv'
    <2> SUFFICES ASSUME NEW y \in Listed', y \notin spoilt', parent[y] > byHand'
                 PROVE  parent[y] \in Listed' /\ \A l \in Listed' : ~(parent[y] < l /\ l < y)
      BY DEF FamilyInv
    <2>1. y \in Point /\ parent[y] \in Nat /\ y \in Nat /\ parent[y] > byHand
      <3>1. y \in Point
        BY <1>1, <1>2, <1>3
      <3>2. parent[y] \in Nat /\ y \in Nat
        BY <1>1, <3>1, Numbers DEF Point
      <3>3. QED
        BY <1>5, <3>1, <3>2
    <2>2. CASE y = p
      <3>1. parent[y] \in Listed /\ \A l \in Listed : l <= parent[y]
        BY <1>5, <1>7, <2>1, <2>2
      <3>2. QED
        BY <1>2, <2>1, <2>2, <3>1
    <2>3. CASE y # p
      <3>1. y \in Listed /\ y \notin spoilt
        BY <1>2, <1>5, <2>3
      <3>2. parent[y] \in Listed /\ \A l \in Listed : ~(parent[y] < l /\ l < y)
        BY <2>1, <3>1 DEF RetentionInv, FamilyInv
      <3>3. ~(p < y)
        BY <1>3, <2>1, <3>1 DEF RetentionInv, MixInv
      <3>4. QED
        BY <1>2, <3>2, <3>3
    <2>4. QED
      BY <2>2, <2>3
  <1>11. DoomInv'
    <2>1. \A c \in Call : Doomed(c)' = IF c = b THEN {} ELSE Doomed(c)
      BY <1>4 DEF Doomed
    <2>2. \A c \in Call : \A x \in Doomed(c) : x > byHand' => x > byHand
      BY DoomedAfter DEF RetentionInv
    <2>3. \A c \in Call : \A x \in Doomed(c)' : x > byHand' => \E f \in Listed' : x < f
      BY <1>2, <2>1, <2>2 DEF RetentionInv, DoomInv
    <2>4. ASSUME NEW c \in Call, NEW x \in Doomed(c)', NEW y \in Listed', y \notin spoilt',
                 x > byHand', parent[y] = x
          PROVE  y \in Doomed(c)'
      <3>1. x \in Doomed(c) /\ Doomed(c)' = Doomed(c) /\ x > byHand
        BY <2>1, <2>2, <2>4
      <3>2. CASE y \in Listed
        BY <1>5, <2>4, <3>1, <3>2 DEF RetentionInv, DoomInv
      <3>3. CASE y = p
        <4>1. x \in 0..MaxPoints /\ x \in Nat
          BY <1>1, <2>4, <3>3, Numbers
        <4>2. x \in Listed /\ \A l \in Listed : l <= x
          BY <1>5, <1>7, <2>4, <3>1, <3>3, <4>1
        <4>3. Tip(x)
          BY <4>2 DEF Tip
        <4>4. QED
          BY <3>1, <4>1, <4>3, TipIsSafe
      <3>4. QED
        BY <1>2, <3>2, <3>3
    <2>5. \A c \in Call : op'[c].pc \in {"removing", "emptying"} => \A x \in op'[c].todo : x < op'[c].point
      BY <1>4 DEF RetentionInv, DoomInv
    <2>6. QED
      BY <2>3, <2>4, <2>5 DEF DoomInv
  <1>12. QED
    BY <1>8, <1>9, <1>10, <1>11 DEF RetentionInv

LEMMA BackupStepsKeepRetention ==
  ASSUME TypeInv, LibInv, TypeInv', RetentionInv, Records, NEW b \in Backups, BackupSteps(b)
  PROVE  RetentionInv'
  <1>1. b \in Call /\ op \in [Call -> OpState] /\ phase \in [Point -> Phase]
    BY DEF Call, TypeInv, TypeOK, LibTypeOK
  <1>2. Writing(b) => op[b].point \in Point /\ phase[op[b].point] = "writing"
    BY <1>1, Numbers DEF TypeInv, HoldInv, Holds, Writing, Point, TypeOK, LibTypeOK, LibInv, PointInv
  <1>3. CASE BackupCreate(b)
    BY <1>3, CreateKeepsRetention
  <1>4. CASE BackupFinish(b) \/ OfflineFinish(b)
    BY <1>4, FinishKeepsRetention DEF BackupFinish, OfflineFinish, Complete, Writing
  <1>5. CASE BackupCancel(b) \/ BackupFails(b)
    <2>1. Writing(b) /\ phase' = [phase EXCEPT ![op[b].point] = "aborted"] /\ Return(b)
          /\ parent' = parent /\ made' = made
      BY <1>5 DEF BackupCancel, BackupFails, Abort, Writing
    <2>2. Listed' = Listed
      BY <1>1, <1>2, <2>1 DEF Listed
    <2>3. (\A x \in Call \ {b} : op'[x] = op[x]) /\ op'[b].pc = "idle"
      BY <1>1, <2>1, ReturnTyped DEF Idle
    <2>4. Harmless(b)
      BY <1>1, <2>3, AwayIsHarmless
    <2>5. QED
      BY <1>1, <2>1, <2>2, <2>3, <2>4, OneCallKeepsRetention
  <1>6. CASE BackupReturn(b)
    <2>1. Return(b) /\ Listed' = Listed /\ parent' = parent /\ made' = made
      BY <1>6 DEF BackupReturn, lib, Listed
    <2>2. (\A x \in Call \ {b} : op'[x] = op[x]) /\ op'[b].pc = "idle"
      BY <1>1, <2>1, ReturnTyped DEF Idle
    <2>3. Harmless(b)
      BY <1>1, <2>2, AwayIsHarmless
    <2>4. QED
      BY <1>1, <2>1, <2>2, <2>3, OneCallKeepsRetention
  <1>7. CASE JobBegin(b) \/ BackupPoll(b)
    <2>1. op[b].pc \in {"created", "polling"} /\ Listed' = Listed /\ parent' = parent /\ made' = made
      BY <1>7 DEF JobBegin, BackupPoll, lib, Listed
    <2>2. PICK pc \in {"polling", "verifying"} : Step(b, pc)
      BY <1>7 DEF JobBegin, BackupPoll
    <2>3. (\A x \in Call \ {b} : op'[x] = op[x]) /\ op'[b].pc = pc /\ op'[b].point = op[b].point
      BY <1>1, <2>2, StepTyped DEF Places
    <2>4. Harmless(b)
      BY <2>1, <2>2, <2>3 DEF Harmless, WritingPlaces, Doomed
    <2>5. QED
      BY <1>1, <2>1, <2>3, <2>4, OneCallKeepsRetention
  <1>8. QED
    BY <1>3, <1>4, <1>5, <1>6, <1>7 DEF BackupSteps

\* Retention keeps a full newer than all it drops, and drops a point with its
\* children.
LEMMA ExpiredWithChildren ==
  ASSUME TypeInv, LibInv, RetentionInv, NEW x \in Expired(Listed), x > byHand
  PROVE  /\ \E f \in Listed : x < f
         /\ \A p \in Listed \ spoilt : parent[p] = x => p \in Expired(Listed)
  <1> DEFINE Fulls(y) == {q \in Listed : q > y /\ parent[q] = 0}
  <1>1. x \in Point /\ x \in Listed /\ Listed \subseteq Point /\ Cardinality(Fulls(x)) >= KeepLast
    BY NewestTyped DEF Expired
  <1>2. \E f \in Listed : x < f
    <2>1. Fulls(x) # {}
      <3>1. Cardinality({}) = 0
        BY FS_EmptySet
      <3>2. QED
        BY <1>1, <3>1, Numbers
    <2>2. QED
      BY <1>1, <2>1, Numbers DEF Point
  <1>3. ASSUME NEW p \in Listed \ spoilt, parent[p] = x PROVE p \in Expired(Listed)
    <2>1. x # 0 /\ x < p
      BY <1>1, <1>3, Numbers DEF LibInv, ParentInv, Point
    <2>2. \A q \in Listed : ~(x < q /\ q < p)
      BY <1>3 DEF RetentionInv, FamilyInv
    <2>3. \A q \in Listed : q > x /\ parent[q] = 0 => q > p
      BY <1>1, <1>3, <2>1, <2>2, Numbers DEF Point
    <2>4. Fulls(p) = Fulls(x)
      <3>1. \A q \in Listed : q > p => q > x
        BY <1>1, <2>1, Numbers DEF Point
      <3>2. QED
        BY <2>3, <3>1
    <2>5. QED
      BY <1>1, <2>4 DEF Expired
  <1>4. QED
    BY <1>2, <1>3

\* A pass takes what has expired; a deletion by hand, any point there is.
LEMMA DeletionBeginsRetention ==
  ASSUME TypeInv, LibInv, RetentionInv, Records, NEW c \in Call,
         PruneBegin(c) \/ (c \in Deletes /\ \E p \in Listed : DeleteBegin(c, p))
  PROVE  RetentionInv'
  <1>1. /\ op \in [Call -> OpState] /\ Listed' = Listed /\ parent' = parent /\ made' = made
        /\ op[c].pc = "idle"
    BY DEF TypeInv, TypeOK, PruneBegin, DeleteBegin, lib, Listed
  <1>2. (\A x \in Call \ {c} : op'[x] = op[x]) /\ op'[c].pc = "picking" /\ Doomed(c)' = op'[c].todo
    BY <1>1 DEF PruneBegin, DeleteBegin, OpState, Doomed
  <1>3. spoilt \subseteq spoilt'
    BY RecordsGrow DEF RetentionInv
  <1>4. /\ \A x \in op'[c].todo : x > byHand' => \E f \in Listed : x < f
        /\ \A x \in op'[c].todo, p \in Listed \ spoilt :
             x > byHand' /\ parent[p] = x => p \in op'[c].todo
    <2>1. CASE PruneBegin(c)
      <3>1. op'[c].todo = Expired(Listed)
        BY <1>1, <2>1 DEF PruneBegin, OpState
      <3>2. \A x \in Expired(Listed) : x > byHand' => x > byHand
        <4>1. Expired(Listed) \subseteq Nat
          <5>1. Expired(Listed) \subseteq Point
            BY ExpiredTyped DEF Listed
          <5>2. Point \subseteq Nat
            BY Numbers DEF Point
          <5>3. QED
            BY <5>1, <5>2
        <4>2. byHand \in Nat /\ byHand' \in Nat /\ byHand <= byHand'
          BY RecordsGrow, Numbers DEF RetentionInv, TypeInv, TypeOK, LibTypeOK
        <4>3. QED
          BY <4>1, <4>2
      <3>3. QED
        BY <3>1, <3>2, ExpiredWithChildren
    <2>2. CASE c \in Deletes /\ \E p \in Listed : DeleteBegin(c, p)
      <3>1. PICK p \in Listed : op'[c].todo = {p}
        BY <1>1, <2>2 DEF DeleteBegin, OpState
      <3>2. byHand' = made
        BY <1>1, <1>2, <2>2 DEF Records
      <3>3. ~(p > made)
        BY DEF Listed, LibInv, PointInv
      <3>4. QED
        BY <3>1, <3>2, <3>3
    <2>3. QED
      BY <2>1, <2>2
  <1>5. DoomInv'
    <2>1. \A o \in Call \ {c} : Doomed(o)' = Doomed(o)
      BY <1>2 DEF Doomed
    <2>2. \A o \in Call : \A x \in Doomed(o) : x > byHand' => x > byHand
      BY DoomedAfter DEF RetentionInv
    <2>3. ASSUME NEW o \in Call
          PROVE  /\ \A x \in Doomed(o)' : x > byHand' => \E f \in Listed : x < f
                 /\ \A x \in Doomed(o)', p \in Listed \ spoilt' :
                      x > byHand' /\ parent[p] = x => p \in Doomed(o)'
                 /\ op'[o].pc \in {"removing", "emptying"} => \A x \in op'[o].todo : x < op'[o].point
      <3>1. CASE o = c
        BY <1>2, <1>3, <1>4, <3>1
      <3>2. CASE o # c
        BY <1>2, <1>3, <2>1, <2>2, <3>2 DEF RetentionInv, DoomInv
      <3>3. QED
        BY <3>1, <3>2
    <2>4. QED
      BY <1>1, <2>3 DEF DoomInv
  <1>6. QED
    BY <1>1, <1>2, <1>5, QuietKeepsRetention DEF Writing

LEMMA PickKeepsRetention ==
  ASSUME TypeInv, RetentionInv, Records, NEW c \in Call, DeletePick(c)
  PROVE  RetentionInv'
  <1>1. op \in [Call -> OpState] /\ Listed' = Listed /\ parent' = parent /\ made' = made
        /\ op[c].pc = "picking" /\ op[c].todo \in SUBSET Point
    BY DEF TypeInv, TypeOK, HoldInv, Holds, DeletePick, lib, Listed
  <1>2. CASE op[c].todo = {}
    <2>1. (\A x \in Call \ {c} : op'[x] = op[x]) /\ op'[c].pc = "idle"
      BY <1>1, <1>2, ReturnTyped DEF DeletePick, Idle
    <2>2. QED
      BY <1>1, <2>1, AwayIsHarmless, OneCallKeepsRetention
  <1>3. CASE op[c].todo # {}
    <2> DEFINE p == NextDropped(op[c].todo)
               pc == IF p \in Listed THEN "removing" ELSE "picking"
    <2>1. p \in op[c].todo /\ \A y \in op[c].todo : y <= p
      BY <1>1, <1>3, NextDroppedTyped
    <2>2. op' = [op EXCEPT ![c].todo = @ \ {p}, ![c].point = p, ![c].pc = pc]
          /\ pc \in {"removing", "picking"} /\ (pc = "picking" => p \notin Listed)
      BY <1>3 DEF DeletePick
    <2> HIDE DEF p, pc
    <2>3. (\A x \in Call \ {c} : op'[x] = op[x]) /\ op'[c].pc = pc /\ op'[c].point = p
          /\ op'[c].todo = op[c].todo \ {p}
      BY <1>1, <2>2 DEF OpState
    <2>4. \A y \in op'[c].todo : y < p
      BY <1>1, <2>1, <2>3, Numbers DEF Point
    <2>5. Harmless(c)
      BY <1>1, <2>1, <2>2, <2>3, <2>4 DEF Harmless, Doomed, WritingPlaces
    <2>6. QED
      BY <1>1, <2>3, <2>5, OneCallKeepsRetention
  <1>4. QED
    BY <1>2, <1>3

LEMMA DeleteStepsKeepRetention ==
  ASSUME TypeInv, LibInv, RetentionInv, Records, NEW c \in Deletes \cup Prunes, DeleteSteps(c)
  PROVE  RetentionInv'
  <1> DEFINE p == op[c].point
  <1>1. c \in Call /\ op \in [Call -> OpState] /\ phase \in [Point -> Phase]
    BY DEF Call, TypeInv, TypeOK, LibTypeOK
  <1>2. op[c].pc \in {"removing", "emptying"} => p \in Point
    BY <1>1 DEF TypeInv, HoldInv, Holds
  <1>3. op[c].pc \in {"removing", "emptying"} => \A y \in op[c].todo : y < p
    BY <1>1 DEF RetentionInv, DoomInv
  <1>4. CASE DeletePick(c)
    BY <1>1, <1>4, PickKeepsRetention
  <1>5. CASE DeleteEmpty(c) \/ DeleteDone(c)
    <2>1. op[c].pc \in {"removing", "emptying"} /\ parent' = parent /\ made' = made
      BY <1>5 DEF DeleteEmpty, DeleteDone
    <2>2. PICK pc \in {"picking", "emptying", "dropping"} : Step(c, pc)
      BY <1>5 DEF DeleteEmpty, DeleteDone
    <2>3. (\A x \in Call \ {c} : op'[x] = op[x]) /\ op'[c].pc = pc /\ op'[c].point = p
          /\ op'[c].todo = op[c].todo
      BY <1>1, <2>2, StepTyped DEF Places
    <2>4. CASE p \in Listed /\ Listed' = Listed \ {p}
      BY <1>1, <2>1, <2>2, <2>3, <2>4, RemovalKeepsRetention
    <2>5. CASE Listed' = Listed /\ (op'[c].pc = "emptying" \/ p \notin Listed)
      <3>1. Harmless(c)
        BY <1>1, <1>3, <2>1, <2>2, <2>3, <2>5 DEF Harmless, Doomed, WritingPlaces
      <3>2. QED
        BY <1>1, <2>1, <2>3, <2>5, <3>1, OneCallKeepsRetention
    <2>6. (p \in Listed /\ Listed' = Listed \ {p})
            \/ (Listed' = Listed /\ (op'[c].pc = "emptying" \/ p \notin Listed))
      <3>1. CASE DeleteDone(c)
        <4>1. phase' = [phase EXCEPT ![p] = "deleted"] /\ p \in Point
          BY <1>2, <3>1 DEF DeleteDone
        <4>2. Listed' = Listed \ {p}
          BY <1>1, <4>1 DEF Listed
        <4>3. QED
          BY <4>2
      <3>2. CASE DeleteEmpty(c) /\ phase[p] # "complete"
        <4>1. phase' = phase
          BY <3>2 DEF DeleteEmpty
        <4>2. QED
          BY <3>2, <4>1 DEF Listed
      <3>3. CASE DeleteEmpty(c) /\ phase[p] = "complete"
        <4>1. p \in Listed /\ (phase' = phase \/ phase' = [phase EXCEPT ![p] = "removing"])
              /\ Step(c, "emptying")
          BY <1>2, <3>3 DEF DeleteEmpty, Listed
        <4>2. op'[c].pc = "emptying"
          BY <1>1, <4>1, StepTyped DEF Places
        <4>3. CASE phase' = phase
          BY <4>2, <4>3 DEF Listed
        <4>4. CASE phase' = [phase EXCEPT ![p] = "removing"]
          BY <1>1, <1>2, <2>1, <4>1, <4>4 DEF Listed
        <4>5. QED
          BY <4>1, <4>3, <4>4
      <3>4. QED
        BY <1>5, <3>1, <3>2, <3>3
    <2>7. QED
      BY <2>4, <2>5, <2>6
  <1>6. CASE DropCheckpoint(c)
    <2>1. Step(c, "picking") /\ op[c].pc = "dropping" /\ Listed' = Listed /\ parent' = parent /\ made' = made
      BY <1>6 DEF DropCheckpoint, lib, Listed
    <2>2. (\A x \in Call \ {c} : op'[x] = op[x]) /\ op'[c].pc = "picking" /\ op'[c].todo = op[c].todo
      BY <1>1, <2>1, StepTyped DEF Places
    <2>3. Harmless(c)
      BY <2>1, <2>2 DEF Harmless, Doomed, WritingPlaces
    <2>4. QED
      BY <1>1, <2>1, <2>2, <2>3, OneCallKeepsRetention
  <1>7. CASE DeleteFails(c)
    <2>1. Step(c, "picking") /\ op[c].pc = "emptying" /\ Listed' = Listed /\ parent' = parent /\ made' = made
      BY <1>7 DEF DeleteFails, lib, Listed
    <2>2. (\A x \in Call \ {c} : op'[x] = op[x]) /\ op'[c].pc = "picking" /\ op'[c].todo = op[c].todo
      BY <1>1, <2>1, StepTyped DEF Places
    <2>3. p \in spoilt'
      BY <1>7 DEF Records
    <2>4. Doomed(c) = op[c].todo \cup {p} /\ Doomed(c)' = op[c].todo
      BY <2>1, <2>2 DEF Doomed
    <2>5. Harmless(c)
      BY <2>2, <2>3, <2>4 DEF Harmless, WritingPlaces
    <2>6. QED
      BY <1>1, <2>1, <2>2, <2>5, OneCallKeepsRetention
  <1>8. QED
    BY <1>4, <1>5, <1>6, <1>7 DEF DeleteSteps

LEMMA RestoreHarmless ==
  ASSUME TypeInv, NEW r \in Restores, RestoreSteps(r) \/ \E p \in Point : RestoreBegin(r, p)
  PROVE  /\ Listed' = Listed /\ parent' = parent /\ made' = made
         /\ r \in Call /\ \A x \in Call \ {r} : op'[x] = op[x]
         /\ op'[r].pc \in {"idle", "restoring", "redefining"}
  <1>1. r \in Call /\ op \in [Call -> OpState]
    BY DEF Call, TypeInv, TypeOK
  <1>2. Listed' = Listed /\ parent' = parent /\ made' = made
    BY DEF RestoreSteps, RestoreBegin, RestoreDisk, RestoreFails, RestoreDrop, RestoreRedefine,
       lib, Listed
  <1>3. CASE RestoreDisk(r)
    <2> DEFINE d == Min(op[r].todo)
    <2>1. op' = [op EXCEPT ![r].todo = @ \ {d}] /\ op[r].pc = "restoring"
      BY <1>3 DEF RestoreDisk
    <2> HIDE DEF d
    <2>2. op'[r].pc = "restoring" /\ \A x \in Call \ {r} : op'[x] = op[x]
      BY <1>1, <2>1 DEF OpState
    <2>3. QED
      BY <1>1, <1>2, <2>2
  <1>4. CASE RestoreFails(r) \/ RestoreRedefine(r)
    <2>1. op'[r].pc = "idle" /\ \A x \in Call \ {r} : op'[x] = op[x]
      BY <1>1, <1>4, ReturnTyped DEF RestoreFails, RestoreRedefine, Idle
    <2>2. QED
      BY <1>1, <1>2, <2>1
  <1>5. CASE RestoreDrop(r)
    <2>1. op'[r].pc = "redefining" /\ \A x \in Call \ {r} : op'[x] = op[x]
      BY <1>1, <1>5, StepTyped DEF RestoreDrop, Places
    <2>2. QED
      BY <1>1, <1>2, <2>1
  <1>6. CASE \E p \in Point : RestoreBegin(r, p)
    <2>1. PICK p \in Point :
                 op' = [op EXCEPT ![r].pc = "restoring", ![r].point = p, ![r].todo = Disk]
      BY <1>6 DEF RestoreBegin
    <2>2. op'[r].pc = "restoring" /\ \A x \in Call \ {r} : op'[x] = op[x]
      BY <1>1, <2>1 DEF OpState
    <2>3. QED
      BY <1>1, <1>2, <2>2
  <1>7. QED
    BY <1>3, <1>4, <1>5, <1>6 DEF RestoreSteps

LEMMA NextKeepsRetention ==
  ASSUME IInv, RetentionInv, Next, Records
  PROVE  RetentionInv'
  <1>1. TypeInv /\ LibInv /\ TypeInv' /\ Backups \subseteq Call /\ Prunes \subseteq Call /\ Deletes \subseteq Call
    BY NextTyped DEF IInv, Call
  <1>2. ASSUME NEW b \in Backups, BackupSteps(b) PROVE RetentionInv'
    BY <1>1, <1>2, BackupStepsKeepRetention
  <1>3. ASSUME NEW b \in Backups, NEW q \in Requests, BackupDecide(b, q) PROVE RetentionInv'
    BY <1>1, <1>3, DecideKeepsRetention
  <1>4. ASSUME NEW c \in Prunes, PruneBegin(c) PROVE RetentionInv'
    BY <1>1, <1>4, DeletionBeginsRetention
  <1>5. ASSUME NEW c \in Deletes, NEW p \in Listed, DeleteBegin(c, p) PROVE RetentionInv'
    BY <1>1, <1>5, DeletionBeginsRetention
  <1>6. ASSUME NEW c \in Deletes \cup Prunes, DeleteSteps(c) PROVE RetentionInv'
    BY <1>1, <1>6, DeleteStepsKeepRetention
  <1>7. ASSUME NEW r \in Restores, RestoreSteps(r) \/ \E p \in Point : RestoreBegin(r, p)
        PROVE  RetentionInv'
    <2>1. /\ Listed' = Listed /\ parent' = parent /\ made' = made
          /\ r \in Call /\ \A x \in Call \ {r} : op'[x] = op[x]
          /\ op'[r].pc \in {"idle", "restoring", "redefining"}
      BY <1>1, <1>7, RestoreHarmless
    <2>2. Harmless(r)
      BY <2>1, AwayIsHarmless
    <2>3. QED
      BY <1>1, <2>1, <2>2, OneCallKeepsRetention
  <1>8. CASE \/ \E result \in {"whole", "partial", "none"} : JobEnds(result)
             \/ PowerOn \/ PowerOff
    <2>1. op' = op /\ Listed' = Listed /\ parent' = parent /\ made' = made
      BY <1>8 DEF JobEnds, PowerOn, PowerOff, Listed
    <2>2. QED
      BY <1>1, <2>1, SameIsHarmless, HarmlessKeepsRetention
  <1>9. CASE Crash
    <2>1. parent' = parent /\ made' = made /\ \A o \in Call : op'[o].pc = "idle"
      BY <1>9 DEF Crash, Idle
    <2>2. Listed' = Listed
      BY <1>9 DEF Crash, Listed
    <2>3. QED
      BY <1>1, <2>1, <2>2, AwayIsHarmless, HarmlessKeepsRetention
  <1>10. QED
    BY <1>2, <1>3, <1>4, <1>5, <1>6, <1>7, <1>8, <1>9 DEF Next

\* A stutter changes nothing the invariant is about.
LEMMA StutterKeepsRetention == RetentionInv /\ UNCHANGED <<vars, hist>> => RetentionInv'
  <1> SUFFICES ASSUME RetentionInv, UNCHANGED <<vars, hist>> PROVE RetentionInv'
    OBVIOUS
  <1>1. UNCHANGED <<made, phase, parent, op, mixed, spoilt, byHand>>
    BY DEF vars, lib, hist
  <1>2. Listed' = Listed
    BY <1>1 DEF Listed
  <1>3. \A c \in Call : Doomed(c)' = Doomed(c)
    BY <1>1 DEF Doomed
  <1>4. MixInv' /\ GrowInv'
    BY <1>1, <1>2 DEF RetentionInv, MixInv, GrowInv, Underway, Writing, Tip
  <1>5. FamilyInv' /\ DoomInv'
    BY <1>1, <1>2, <1>3 DEF RetentionInv, FamilyInv, DoomInv
  <1>6. QED
    BY <1>4, <1>5 DEF RetentionInv

\* The equation that defines the chains.
IsChains(f) == f = [n \in 0..MaxPoints |-> IF n = 0 THEN {} ELSE {n} \cup f[parent[n]]]

\* Sets that hold the parent of each of their points.
ClosedUp(S) == \A q \in S : parent[q] # 0 => parent[q] \in S

\* The points that every closed set with p holds.
Ancestors(p) == {q \in Point : \A S \in SUBSET Point : p \in S /\ ClosedUp(S) => q \in S}

LEMMA AncestorsOfParent ==
  ASSUME parent \in [Point -> 0..MaxPoints], NEW p \in Point
  PROVE  Ancestors(p) = {p} \cup (IF parent[p] = 0 THEN {} ELSE Ancestors(parent[p]))
  <1> DEFINE q == parent[p]
             up == IF q = 0 THEN {} ELSE Ancestors(q)
  <1>1. q \in {0} \cup Point
    BY DEF Point
  <1>2. \A x \in Point : ClosedUp(Ancestors(x)) /\ x \in Ancestors(x)
    BY DEF ClosedUp, Ancestors, Point
  <1>3. ClosedUp({p} \cup up) /\ {p} \cup up \in SUBSET Point
    BY <1>1, <1>2 DEF ClosedUp, Ancestors
  <1>4. Ancestors(p) \subseteq {p} \cup up
    <2> HIDE DEF up
    <2> QED BY <1>3 DEF Ancestors
  <1>5. p \in Ancestors(p)
    BY <1>2
  <1>6. ASSUME q # 0 PROVE Ancestors(q) \subseteq Ancestors(p)
    BY <1>6, <1>1 DEF Ancestors, ClosedUp
  <1>7. QED
    BY <1>4, <1>5, <1>6

\* The recursion that defines Chain has a solution, so Chain satisfies it.
LEMMA ChainEquation ==
  ASSUME parent \in [Point -> 0..MaxPoints]
  PROVE  \E f : /\ IsChains(f)
                /\ \A p \in 0..MaxPoints : Chain(p) = f[p]
  <1> DEFINE g == [n \in 0..MaxPoints |-> IF n = 0 THEN {} ELSE Ancestors(n)]
  <1>1. IsChains(g)
    <2>1. \A n \in 0..MaxPoints : g[n] = IF n = 0 THEN {} ELSE {n} \cup g[parent[n]]
      <3> SUFFICES ASSUME NEW n \in 0..MaxPoints, n # 0
                   PROVE  g[n] = {n} \cup g[parent[n]]
        OBVIOUS
      <3>1. n \in Point /\ parent[n] \in 0..MaxPoints
        BY DEF Point
      <3>2. g[n] = Ancestors(n) /\ g[parent[n]] = IF parent[n] = 0 THEN {} ELSE Ancestors(parent[n])
        BY <3>1
      <3>3. QED
        BY <3>1, <3>2, AncestorsOfParent
    <2>2. QED
      BY <2>1 DEF IsChains
  <1>2. IsChains(CHOOSE f : IsChains(f))
    <2> HIDE DEF g
    <2> QED BY <1>1
  <1>3. \A p \in 0..MaxPoints : Chain(p) = (CHOOSE f : IsChains(f))[p]
    BY DEF Chain, IsChains
  <1>4. QED
    BY <1>2, <1>3

\* What Chain computes for every library: the point, and the chain of its parent.
LEMMA ChainOfParent ==
  ASSUME parent \in [Point -> 0..MaxPoints], NEW p \in Point
  PROVE  Chain(p) = {p} \cup (IF parent[p] = 0 THEN {} ELSE Chain(parent[p]))
  <1>1. PICK f : IsChains(f) /\ \A q \in 0..MaxPoints : Chain(q) = f[q]
    BY ChainEquation
  <1>2. p \in 0..MaxPoints /\ p # 0 /\ parent[p] \in 0..MaxPoints
    BY Numbers DEF Point
  <1>3. f[p] = {p} \cup f[parent[p]] /\ f[0] = {}
    BY <1>1, <1>2, Numbers DEF IsChains
  <1>4. QED
    BY <1>1, <1>2, <1>3

\* A broken chain has a least point that breaks it, and that one is spoilt or
\* was there at the last deletion by hand.
LEMMA FamiliesAreWhole ==
  ASSUME TypeInv, LibInv, RetentionInv
  PROVE  UnspoiltChainsWhole
  <1> DEFINE Exceptions == spoilt \cup 1..byHand
             Broken == {p \in Listed : Chain(p) \cap Exceptions = {} /\ ~(Chain(p) \subseteq Listed)}
  <1>1. parent \in [Point -> 0..MaxPoints] /\ Listed \subseteq Point /\ byHand \in Nat
        /\ Point \subseteq Nat
    BY NewestTyped, Numbers DEF TypeInv, TypeOK, LibTypeOK, RetentionInv, MixInv, Point
  <1>2. ASSUME Broken # {} PROVE FALSE
    <2>1. Broken \in SUBSET Nat
      BY <1>1
    <2> HIDE DEF Broken
    <2>2. PICK m \in Broken : \A y \in Broken : m <= y
      BY <1>2, <2>1, LeastExists
    <2> USE DEF Broken
    <2>3. m \in Listed /\ m \in Point /\ Chain(m) = {m} \cup (IF parent[m] = 0 THEN {} ELSE Chain(parent[m]))
      BY <1>1, ChainOfParent
    <2>4. parent[m] # 0 /\ m \notin spoilt /\ parent[m] \in Point
      BY <1>1, <2>3 DEF Point
    <2>5. Chain(parent[m]) \subseteq Chain(m) /\ parent[m] \in Chain(parent[m])
      BY <1>1, <2>3, <2>4, ChainOfParent
    <2>6. parent[m] > byHand
      <3>1. parent[m] \notin 1..byHand
        BY <2>5
      <3>2. parent[m] \in Nat
        BY <1>1, <2>4
      <3>3. QED
        BY <1>1, <2>4, <3>1, <3>2
    <2>7. parent[m] \in Listed /\ parent[m] < m
      BY <2>3, <2>4, <2>6 DEF RetentionInv, FamilyInv, LibInv, ParentInv
    <2>8. parent[m] \in Broken
      BY <2>3, <2>4, <2>5, <2>7
    <2>9. m <= parent[m] /\ m \in Nat /\ parent[m] \in Nat
      BY <1>1, <2>1, <2>2, <2>8
    <2>10. QED
      BY <2>7, <2>9
  <1>3. QED
    BY <1>2 DEF UnspoiltChainsWhole, ChainListed

\* Retention never takes an ancestor from under a point it keeps: every listed
\* point can be traced to a listed full, at every moment of every pass and
\* whatever a crash leaves undone, with any number of passes, backups, deletions,
\* restores and failures, unless its own chain holds a point that was written
\* beside another backup, whose removal failed, or that was there when somebody
\* deleted a point by hand.
THEOREM RetentionKeepsChains == HSpec => []UnspoiltChainsWhole
  <1>1. HInit => RetentionInv
    <2> SUFFICES ASSUME HInit PROVE RetentionInv
      OBVIOUS
    <2>1. (\A o \in Call : op[o].pc = "idle") /\ Listed = {} /\ mixed = {} /\ byHand = 0 /\ made = 0
      BY DEF HInit, Init, Idle, Listed
    <2>2. (\A o \in Call : ~Underway(o) /\ ~Writing(o) /\ Doomed(o) = {}) /\ Backups \subseteq Call
      BY <2>1 DEF Underway, Writing, Doomed, Call
    <2>3. QED
      BY <2>1, <2>2 DEF RetentionInv, MixInv, GrowInv, FamilyInv, DoomInv, Underway
  <1>2. IInv /\ RetentionInv /\ [HNext]_<<vars, hist>> => RetentionInv'
    BY NextKeepsRetention, StutterKeepsRetention DEF HNext
  <1>3. IInv /\ RetentionInv => UnspoiltChainsWhole
    BY FamiliesAreWhole DEF IInv
  <1>4. QED
    BY <1>1, <1>2, <1>3, RecordedInductive, PTL DEF HSpec
=============================================================================

-------------------------- MODULE MediaLibraryProofs --------------------------
(***************************************************************************)
(* Theorems about the ISO library and the pools, for any directories,      *)
(* names, requests, faults and restarts.                                   *)
(***************************************************************************)
EXTENDS MCMediaLibrary, TLAPS

TypeInv == TypeOK /\ op \in [Request -> OpState]

\* What the library uses is what is saved, or what the one creation that has
\* switched it is about to save.
SavedInv ==
  /\ LibrarySurvivesRestart
  /\ ~unsure => \A c, e \in Switched : c = e /\ op[c].path = dir

\* A request that works on the very pool that has the name.
AtWork == {"defined", "built", "undo", "undefine"}
WorksOn(r, p) == op[r].pc \in AtWork /\ op[r].pool = p /\ op[r].uuid = pool[p].uuid

WorkInv ==
  \A p \in Pools \ left : Exists(p) /\ ~pool[p].active =>
    \E r \in Creations \cup Deletions : WorksOn(r, p)

IInv == TypeInv /\ SavedInv /\ NoTempLeft /\ WorkInv

-----------------------------------------------------------------------------
(***************************************************************************)
(* Types                                                                   *)
(***************************************************************************)

Sending  == {"resolved", "checked"}
Sent     == {"copying", "renamed"}
Making   == {"defined", "built", "undo", "started", "known", "switched"}
Deleting == {"deactivate", "undefine"}

LEMMA Held ==
  ASSUME TypeInv, NEW r \in Request
  PROVE  /\ op[r] \in OpState
         /\ op[r].pc \in Sending \cup Sent => op[r].at \in Place
         /\ op[r].pc \in Sent => op[r].upload \in Upload
         /\ op[r].pc \in Making \cup {"named"} =>
              op[r].pool \in Pools /\ op[r].path \in Dirs /\ op[r].iso \in BOOLEAN
         /\ op[r].pc \in Making \cup Deleting => op[r].pool \in Pools /\ op[r].uuid \in 1..MaxPools
  <1>1. op[r] \in OpState
    BY DEF TypeInv
  <1>2. QED
    BY <1>1 DEF OpState, Idle, Sending, Sent, Making, Deleting

\* A request that goes to another place of its kind keeps what it holds.
LEMMA MovesTyped ==
  ASSUME TypeInv, NEW r \in Request, NEW pc, Moves(r, pc),
         \E K \in {Sending, Sent, Making, Deleting} : op[r].pc \in K /\ pc \in K
  PROVE  /\ op' \in [Request -> OpState]
         /\ \A x \in Request \ {r} : op'[x] = op[x]
         /\ op'[r].pc = pc
         /\ pc \in Sending => op'[r].at = op[r].at
         /\ pc \in Sent => op'[r].at = op[r].at /\ op'[r].upload = op[r].upload
         /\ pc \in Making => op'[r].pool = op[r].pool /\ op'[r].path = op[r].path
         /\ pc \in Making \cup Deleting => op'[r].pool = op[r].pool /\ op'[r].uuid = op[r].uuid
  <1>1. op[r] \in OpState /\ op \in [Request -> OpState]
    BY DEF TypeInv
  <1>2. CASE op[r].pc \in Sending /\ pc \in Sending
    BY <1>1, <1>2 DEF Moves, OpState, Idle, Sending, Sent, Making, Deleting
  <1>3. CASE op[r].pc \in Sent /\ pc \in Sent
    BY <1>1, <1>3 DEF Moves, OpState, Idle, Sending, Sent, Making, Deleting
  <1>4. CASE op[r].pc \in Making /\ pc \in Making
    BY <1>1, <1>4 DEF Moves, OpState, Idle, Sending, Sent, Making, Deleting
  <1>5. CASE op[r].pc \in Deleting /\ pc \in Deleting
    BY <1>1, <1>5 DEF Moves, OpState, Idle, Sending, Sent, Making, Deleting
  <1>6. QED
    BY <1>2, <1>3, <1>4, <1>5

LEMMA GoesTo ==
  ASSUME TypeInv, NEW r \in Request, NEW o \in OpState, Goto(r, o)
  PROVE  op' \in [Request -> OpState] /\ op'[r] = o /\ \A x \in Request \ {r} : op'[x] = op[x]
  BY DEF TypeInv, Goto

LEMMA Returns ==
  ASSUME TypeInv, NEW r \in Request, Return(r)
  PROVE  /\ op' \in [Request -> OpState]
         /\ op'[r].pc = "idle" /\ \A x \in Request \ {r} : op'[x] = op[x]
  <1>1. Idle \in OpState /\ Idle.pc = "idle"
    BY DEF OpState, Idle
  <1>2. QED
    BY <1>1, GoesTo DEF Return

\* What a pool is once it exists.
LEMMA PoolThere ==
  ASSUME TypeInv, NEW p \in Pools, Exists(p)
  PROVE  pool[p].uuid \in 1..made /\ pool[p].uuid \in 1..MaxPools /\ pool[p].active \in BOOLEAN
  <1>1. pool[p] \in [uuid : 1..made, active : BOOLEAN] /\ made \in 0..MaxPools /\ MaxPools \in Nat
    BY MediaLibraryAssumption DEF TypeInv, TypeOK, Exists
  <1>2. QED
    BY <1>1

\* The steps that leave media alone, or pools.
MediaTyped == dir \in Dirs /\ saved \in Dirs \cup {None} /\ file \in [Place -> {0} \cup Upload]
              /\ temp \subseteq Upload /\ uploads \in {0} \cup Upload
PoolsTyped == made \in 0..MaxPools /\ pool \in [Pools -> {NoPool} \cup [uuid : 1..made, active : BOOLEAN]]
EnvTyped   == faults \in 0..MaxFaults /\ crashes \in 0..MaxCrashes

LEMMA TypeParts ==
  TypeInv <=> /\ MediaTyped /\ PoolsTyped /\ EnvTyped
              /\ op \in [Request -> OpState]
              /\ littered \subseteq Upload /\ left \subseteq Pools /\ unsure \in BOOLEAN
  BY DEF TypeInv, TypeOK, MediaTyped, PoolsTyped, EnvTyped

LEMMA EnvKept ==
  ASSUME TypeInv, Works \/ Fault
  PROVE  EnvTyped'
  BY MediaLibraryAssumption DEF TypeInv, TypeOK, EnvTyped, Works, Fault, env

LEMMA PartsTyped ==
  ASSUME MediaTyped', PoolsTyped', EnvTyped', op' \in [Request -> OpState],
         littered' \subseteq Upload, left' \subseteq Pools, unsure' \in BOOLEAN
  PROVE  TypeInv'
  BY DEF TypeInv, TypeOK, MediaTyped, PoolsTyped, EnvTyped

LEMMA UploadKeepsTypes ==
  ASSUME TypeInv, NEW u \in Uploads, UploadSteps(u)
  PROVE  TypeInv'
  <1> u \in Request
    BY DEF Request
  <1> USE DEF Sending, Sent
  <1>1. CASE UploadCheck(u)
    <2>1. op' \in [Request -> OpState]
      BY <1>1, MovesTyped, Returns DEF UploadCheck
    <2>2. QED
      BY <1>1, <2>1, TypeParts, PartsTyped DEF UploadCheck, media, pools, env, MediaTyped, PoolsTyped, EnvTyped
  <1>2. CASE UploadTemp(u)
    <2>1. op[u].at \in Place
      BY <1>2, Held DEF UploadTemp
    <2>2. op' \in [Request -> OpState] /\ uploads' \in {0} \cup Upload /\ temp' \subseteq Upload
      <3>1. CASE Return(u) /\ UNCHANGED <<uploads, temp>>
        BY <3>1, Returns, TypeParts DEF MediaTyped
      <3>2. CASE /\ uploads < MaxUploads /\ uploads' = uploads + 1 /\ temp' = temp \cup {uploads'}
                 /\ Goto(u, [pc |-> "copying", at |-> op[u].at, upload |-> uploads'])
        <4>1. uploads' \in Upload /\ temp \subseteq Upload
          BY <3>2, TypeParts, MediaLibraryAssumption DEF MediaTyped, Upload
        <4>2. [pc |-> "copying", at |-> op[u].at, upload |-> uploads'] \in OpState
          BY <2>1, <4>1 DEF OpState
        <4>3. QED
          BY <3>2, <4>1, <4>2, GoesTo
      <3>3. QED
        BY <1>2, <3>1, <3>2 DEF UploadTemp
    <2>3. QED
      BY <1>2, <2>2, TypeParts, PartsTyped
      DEF UploadTemp, pools, env, Works, MediaTyped, PoolsTyped, EnvTyped
  <1>3. CASE UploadRename(u)
    <2>1. op[u].at \in Place /\ op[u].upload \in Upload
      BY <1>3, Held DEF UploadRename
    <2>2. op' \in [Request -> OpState]
      BY <1>3, MovesTyped DEF UploadRename
    <2>3. file' \in [Place -> {0} \cup Upload] /\ temp' \subseteq Upload
      BY <1>3, <2>1, TypeParts DEF UploadRename, MediaTyped
    <2>4. QED
      BY <1>3, <2>2, <2>3, TypeParts, PartsTyped DEF UploadRename, pools, env, MediaTyped, PoolsTyped, EnvTyped
  <1>4. CASE UploadFails(u)
    <2>1. op' \in [Request -> OpState]
      BY <1>4, Returns DEF UploadFails
    <2>2. QED
      BY <1>4, <2>1, TypeParts, PartsTyped DEF UploadFails, pools, env, MediaTyped, PoolsTyped, EnvTyped
  <1>5. CASE UploadReturn(u)
    <2>1. op' \in [Request -> OpState]
      BY <1>5, Returns DEF UploadReturn
    <2>2. QED
      BY <1>5, <2>1, TypeParts, PartsTyped DEF UploadReturn, media, pools, env, MediaTyped, PoolsTyped, EnvTyped
  <1>6. QED
    BY <1>1, <1>2, <1>3, <1>4, <1>5 DEF UploadSteps

LEMMA ResolveKeepsTypes ==
  ASSUME TypeInv, NEW r \in Uploads \cup Removals, NEW iso \in Isos, Resolve(r, iso)
  PROVE  TypeInv'
  <1>1. [pc |-> "resolved", at |-> <<dir, iso>>] \in OpState
    BY TypeParts DEF MediaTyped, OpState, Place
  <1>2. op' \in [Request -> OpState]
    BY <1>1, GoesTo DEF Resolve, Request
  <1>3. QED
    BY <1>2, TypeParts, PartsTyped DEF Resolve, media, pools, env, MediaTyped, PoolsTyped, EnvTyped

LEMMA RemoveKeepsTypes ==
  ASSUME TypeInv, NEW r \in Removals, Remove(r)
  PROVE  TypeInv'
  <1>1. r \in Request /\ op[r].at \in Place
    BY Held DEF Remove, Request, Sending
  <1>2. op' \in [Request -> OpState] /\ file' \in [Place -> {0} \cup Upload]
    BY <1>1, Returns, TypeParts DEF Remove, MediaTyped
  <1>3. QED
    BY <1>2, TypeParts, PartsTyped DEF Remove, pools, env, MediaTyped, PoolsTyped, EnvTyped

\* Taking a pool's definition back, or failing to.
LEMMA UndefineTyped ==
  ASSUME TypeInv, NEW p \in Pools,
         Undefine(p) \/ (left' = left \cup {p} /\ UNCHANGED pools) \/ UNCHANGED <<pools, left>>
  PROVE  PoolsTyped' /\ left' \subseteq Pools
  BY TypeParts DEF Undefine, PoolsTyped, pools

LEMMA ActivityTyped ==
  ASSUME TypeInv, NEW p \in Pools, Exists(p), NEW b \in BOOLEAN,
         pool' = [pool EXCEPT ![p].active = b], UNCHANGED made
  PROVE  PoolsTyped'
  <1>1. [pool[p] EXCEPT !.active = b] \in [uuid : 1..made, active : BOOLEAN]
    BY TypeParts DEF PoolsTyped, Exists
  <1>2. QED
    BY <1>1, TypeParts, PartsTyped DEF PoolsTyped

LEMMA DeleteKeepsTypes ==
  ASSUME TypeInv, NEW d \in Deletions, DeleteSteps(d)
  PROVE  TypeInv'
  <1>0. d \in Request
    BY DEF Request
  <1> USE DEF Deleting
  <1>1. ASSUME NEW p \in Pools, DeleteLookup(d, p) PROVE TypeInv'
    <2>1. [pc |-> IF pool[p].active THEN "deactivate" ELSE "undefine",
           pool |-> p, uuid |-> pool[p].uuid] \in OpState
      BY <1>1, PoolThere DEF DeleteLookup, OpState
    <2>2. op' \in [Request -> OpState]
      BY <1>0, <1>1, <2>1, GoesTo DEF DeleteLookup
    <2>3. QED
      BY <1>1, <2>2, TypeParts, PartsTyped DEF DeleteLookup, media, pools, env, MediaTyped, PoolsTyped, EnvTyped
  <1>2. CASE Deactivate(d)
    <2>1. op' \in [Request -> OpState]
      BY <1>0, <1>2, MovesTyped, Returns DEF Deactivate
    <2>2. PoolsTyped'
      <3>1. CASE UNCHANGED pool
        BY <1>2, <3>1, TypeParts DEF Deactivate, PoolsTyped
      <3>2. CASE pool' = [pool EXCEPT ![op[d].pool].active = FALSE] /\ Valid(d)
        BY <1>0, <1>2, <3>2, Held, ActivityTyped DEF Deactivate, Valid
      <3>3. QED
        BY <1>2, <3>1, <3>2 DEF Deactivate
    <2>3. EnvTyped'
      BY <1>2, EnvKept DEF Deactivate
    <2>4. QED
      BY <1>2, <2>1, <2>2, <2>3, TypeParts, PartsTyped DEF Deactivate, media, MediaTyped
  <1>3. CASE DeleteUndefine(d)
    <2>1. op' \in [Request -> OpState]
      BY <1>0, <1>3, Returns DEF DeleteUndefine
    <2>2. PoolsTyped' /\ left' \subseteq Pools
      BY <1>0, <1>3, Held, UndefineTyped DEF DeleteUndefine
    <2>3. EnvTyped'
      BY <1>3, EnvKept DEF DeleteUndefine
    <2>4. QED
      BY <1>3, <2>1, <2>2, <2>3, TypeParts, PartsTyped DEF DeleteUndefine, media, MediaTyped
  <1>4. QED
    BY <1>1, <1>2, <1>3 DEF DeleteSteps

LEMMA CreateKeepsTypes ==
  ASSUME TypeInv, NEW c \in Creations, CreateSteps(c)
  PROVE  TypeInv'
  <1>0. c \in Request
    BY DEF Request
  <1> USE DEF Making
  <1>1. ASSUME NEW p \in Pools, NEW path \in Dirs, NEW iso \in BOOLEAN, PoolLookup(c, p, path, iso)
        PROVE  TypeInv'
    <2>1. [pc |-> "named", pool |-> p, path |-> path, iso |-> iso] \in OpState
      BY DEF OpState
    <2>2. op' \in [Request -> OpState]
      BY <1>0, <1>1, <2>1, GoesTo DEF PoolLookup
    <2>3. QED
      BY <1>1, <2>2, TypeParts, PartsTyped DEF PoolLookup, media, pools, env, MediaTyped, PoolsTyped, EnvTyped
  <1>2. CASE PoolDefine(c)
    <2>1. CASE Exists(op[c].pool)
      <3>1. op' \in [Request -> OpState] /\ UNCHANGED pools
        BY <1>0, <1>2, <2>1, Returns DEF PoolDefine
      <3>2. QED
        BY <1>2, <3>1, TypeParts, PartsTyped DEF PoolDefine, media, pools, env, MediaTyped, PoolsTyped, EnvTyped
    <2>2. CASE ~Exists(op[c].pool)
      <3>1. /\ op[c].pool \in Pools /\ op[c].path \in Dirs /\ op[c].iso \in BOOLEAN
            /\ made < MaxPools /\ made' = made + 1
            /\ pool' = [pool EXCEPT ![op[c].pool] = [uuid |-> made', active |-> FALSE]]
            /\ Goto(c, [pc |-> "defined", pool |-> op[c].pool, path |-> op[c].path,
                        iso |-> op[c].iso, uuid |-> made'])
        BY <1>0, <1>2, <2>2, Held DEF PoolDefine
      <3>2. made' \in 1..MaxPools /\ 1..made \subseteq 1..made' /\ made' \in 1..made'
        BY <3>1, TypeParts, MediaLibraryAssumption DEF PoolsTyped
      <3>3. PoolsTyped'
        <4>1. pool \in [Pools -> {NoPool} \cup [uuid : 1..made', active : BOOLEAN]]
          BY <3>2, TypeParts DEF PoolsTyped
        <4>2. made' \in 0..MaxPools
          BY <3>2
        <4>3. QED
          BY <3>1, <3>2, <4>1, <4>2 DEF PoolsTyped
      <3>4. [pc |-> "defined", pool |-> op[c].pool, path |-> op[c].path,
             iso |-> op[c].iso, uuid |-> made'] \in OpState
        BY <3>1, <3>2 DEF OpState
      <3>5. op' \in [Request -> OpState]
        BY <1>0, <3>1, <3>4, GoesTo
      <3>6. QED
        BY <1>2, <3>3, <3>5, TypeParts, PartsTyped DEF PoolDefine, media, env, MediaTyped, EnvTyped
    <2>3. QED
      BY <2>1, <2>2
  <1>3. CASE PoolBuild(c)
    <2>1. op' \in [Request -> OpState]
      BY <1>0, <1>3, MovesTyped DEF PoolBuild
    <2>2. QED
      BY <1>3, <2>1, TypeParts, PartsTyped DEF PoolBuild, media, pools, env, MediaTyped, PoolsTyped, EnvTyped
  <1>4. CASE PoolStart(c)
    <2>1. op' \in [Request -> OpState]
      BY <1>0, <1>4, MovesTyped DEF PoolStart
    <2>2. PoolsTyped'
      BY <1>0, <1>4, Held, ActivityTyped DEF PoolStart, Valid
    <2>3. QED
      BY <1>4, <2>1, <2>2, TypeParts, PartsTyped DEF PoolStart, media, env, MediaTyped, EnvTyped
  <1>5. CASE PoolFails(c)
    <2>1. op' \in [Request -> OpState]
      BY <1>0, <1>5, MovesTyped DEF PoolFails
    <2>2. EnvTyped'
      BY <1>5, EnvKept DEF PoolFails
    <2>3. QED
      BY <1>5, <2>1, <2>2, TypeParts, PartsTyped DEF PoolFails, media, pools, MediaTyped, PoolsTyped
  <1>6. CASE PoolUndo(c)
    <2>1. op' \in [Request -> OpState]
      BY <1>0, <1>6, Returns DEF PoolUndo
    <2>2. PoolsTyped' /\ left' \subseteq Pools
      BY <1>0, <1>6, Held, UndefineTyped DEF PoolUndo
    <2>3. EnvTyped'
      BY <1>6, EnvKept DEF PoolUndo
    <2>4. QED
      BY <1>6, <2>1, <2>2, <2>3, TypeParts, PartsTyped DEF PoolUndo, media, MediaTyped
  <1>7. CASE PoolRead(c)
    <2>1. op' \in [Request -> OpState]
      BY <1>0, <1>7, MovesTyped, Returns DEF PoolRead
    <2>2. QED
      BY <1>7, <2>1, TypeParts, PartsTyped DEF PoolRead, media, pools, env, MediaTyped, PoolsTyped, EnvTyped
  <1>8. CASE SetDir(c)
    <2>1. op' \in [Request -> OpState] /\ EnvTyped'
      BY <1>0, <1>8, MovesTyped, Returns, EnvKept DEF SetDir
    <2>2. dir' \in Dirs /\ unsure' \in BOOLEAN
      BY <1>0, <1>8, Held, TypeParts DEF SetDir, MediaTyped
    <2>3. QED
      BY <1>8, <2>1, <2>2, TypeParts, PartsTyped DEF SetDir, pools, MediaTyped, PoolsTyped
  <1>9. CASE SetIsoDir(c)
    <2>1. op' \in [Request -> OpState] /\ EnvTyped'
      BY <1>0, <1>9, Returns, EnvKept DEF SetIsoDir
    <2>2. saved' \in Dirs \cup {None} /\ unsure' \in BOOLEAN
      BY <1>0, <1>9, Held, TypeParts DEF SetIsoDir, Saves, MediaTyped
    <2>3. QED
      BY <1>9, <2>1, <2>2, TypeParts, PartsTyped DEF SetIsoDir, pools, MediaTyped, PoolsTyped
  <1>10. QED
    BY <1>1, <1>2, <1>3, <1>4, <1>5, <1>6, <1>7, <1>8, <1>9 DEF CreateSteps

LEMMA CrashKeepsTypes ==
  ASSUME TypeInv, Crash
  PROVE  TypeInv'
  <1>1. op' \in [Request -> OpState]
    BY DEF Crash, OpState
  <1>2. dir' \in Dirs /\ littered' \subseteq Upload /\ unsure' \in BOOLEAN
    BY TypeParts, MediaLibraryAssumption DEF Crash, Booted, MediaTyped
  <1>3. \A r \in Request : op[r].pc \in Making \cup Deleting => op[r].pool \in Pools
    BY Held
  <1>4. left' \subseteq Pools
    BY <1>3, TypeParts DEF Crash, Making, Deleting, Request
  <1>5. EnvTyped'
    BY TypeParts, MediaLibraryAssumption DEF Crash, EnvTyped
  <1>6. QED
    BY <1>1, <1>2, <1>4, <1>5, TypeParts, PartsTyped DEF Crash, pools, MediaTyped, PoolsTyped

LEMMA InitTyped == Init => TypeInv
  <1> SUFFICES ASSUME Init PROVE TypeInv
    OBVIOUS
  <1>1. MaxPools \in Nat /\ MaxFaults \in Nat /\ MaxCrashes \in Nat /\ IsoDir \in Dirs
    BY MediaLibraryAssumption
  <1>2. MediaTyped
    BY <1>1 DEF Init, MediaTyped
  <1>3. PoolsTyped /\ EnvTyped
    BY <1>1 DEF Init, PoolsTyped, EnvTyped
  <1>4. op \in [Request -> OpState]
    BY DEF Init, OpState
  <1>5. QED
    BY <1>2, <1>3, <1>4, TypeParts DEF Init

LEMMA StepKeepsTypes == TypeInv /\ [Next]_vars => TypeInv'
  <1> SUFFICES ASSUME TypeInv, [Next]_vars PROVE TypeInv'
    OBVIOUS
  <1>1. CASE UNCHANGED vars
    BY <1>1, TypeParts, PartsTyped DEF vars, media, pools, env, MediaTyped, PoolsTyped, EnvTyped
  <1>2. QED
    BY <1>1, UploadKeepsTypes, ResolveKeepsTypes, RemoveKeepsTypes, DeleteKeepsTypes,
       CreateKeepsTypes, CrashKeepsTypes
    DEF Next

\* Every reachable state of the library, the pools and the requests is typed.
THEOREM TypeCorrect == Spec => []TypeOK
  BY InitTyped, StepKeepsTypes, PTL DEF Spec, TypeInv

-----------------------------------------------------------------------------
(***************************************************************************)
(* What is saved, what is temporary, what is unfinished                    *)
(***************************************************************************)

\* The part of the invariant beside the types.
SafeInv == SavedInv /\ NoTempLeft /\ WorkInv

\* A request goes from one place to another.
Goes(r, from, to) ==
  /\ op[r].pc = from /\ op'[r].pc = to
  /\ \A x \in Request \ {r} : op'[x] = op[x]

LEMMA SavedQuiet ==
  ASSUME SavedInv, NEW r \in Request, NEW a, NEW b, Goes(r, a, b), a # "switched", b # "switched",
         UNCHANGED <<dir, saved, unsure>>
  PROVE  SavedInv'
  <1>1. Switched' = Switched /\ \A c \in Switched : op'[c] = op[c]
    BY DEF Goes, Switched, Request
  <1>2. QED
    BY <1>1 DEF SavedInv, LibrarySurvivesRestart, Booted

LEMMA TempQuiet ==
  ASSUME NoTempLeft, NEW r \in Request, NEW a, NEW b, Goes(r, a, b), a # "copying",
         UNCHANGED <<temp, littered>>
  PROVE  NoTempLeft'
  BY DEF NoTempLeft, Goes, Request

LEMMA WorkQuiet ==
  ASSUME WorkInv, NEW r \in Request, NEW a, NEW b, Goes(r, a, b), a \notin AtWork,
         UNCHANGED <<pool, left>>
  PROVE  WorkInv'
  <1>1. \A x \in Creations \cup Deletions, p \in Pools : WorksOn(x, p) => WorksOn(x, p)'
    BY DEF Goes, WorksOn, Request
  <1>2. QED
    BY <1>1 DEF WorkInv, Exists

LEMMA AllQuiet ==
  ASSUME SafeInv, NEW r \in Request, NEW a, NEW b, Goes(r, a, b),
         a \notin AtWork \cup {"copying", "switched"}, b # "switched",
         UNCHANGED <<dir, saved, unsure, temp, littered, pool, left>>
  PROVE  SafeInv'
  BY SavedQuiet, TempQuiet, WorkQuiet DEF SafeInv

LEMMA UploadKeepsSafe ==
  ASSUME TypeInv, SafeInv, NEW u \in Uploads, UploadSteps(u)
  PROVE  SafeInv'
  <1> u \in Request
    BY DEF Request
  <1> USE DEF Sending, Sent
  <1>1. CASE UploadCheck(u)
    <2>1. Goes(u, "resolved", "checked") \/ Goes(u, "resolved", "idle")
      BY <1>1, MovesTyped, Returns DEF UploadCheck, Goes
    <2>2. QED
      BY <1>1, <2>1, AllQuiet DEF UploadCheck, media, pools, AtWork
  <1>2. CASE UploadTemp(u)
    <2>1. CASE Return(u) /\ UNCHANGED <<uploads, temp>>
      <3>1. Goes(u, "checked", "idle")
        BY <1>2, <2>1, Returns DEF UploadTemp, Goes
      <3>2. QED
        BY <1>2, <2>1, <3>1, AllQuiet DEF UploadTemp, pools, AtWork
    <2>2. CASE /\ temp' = temp \cup {uploads'}
               /\ Goto(u, [pc |-> "copying", at |-> op[u].at, upload |-> uploads'])
      <3>1. Goes(u, "checked", "copying") /\ op'[u].upload = uploads'
        BY <1>2, <2>2 DEF UploadTemp, Goes, Goto, TypeInv
      <3>2. SavedInv' /\ WorkInv'
        BY <1>2, <3>1, SavedQuiet, WorkQuiet DEF UploadTemp, pools, AtWork, SafeInv
      <3>3. NoTempLeft'
        <4>1. littered' = littered
          BY <1>2 DEF UploadTemp
        <4>2. ASSUME NEW t \in temp' \ littered'
              PROVE \E w \in Uploads : op'[w].pc = "copying" /\ op'[w].upload = t
          <5>1. CASE t = uploads'
            BY <3>1, <5>1 DEF Goes
          <5>2. CASE t \in temp
            <6>1. PICK w \in Uploads : op[w].pc = "copying" /\ op[w].upload = t
              BY <4>1, <5>2 DEF SafeInv, NoTempLeft
            <6>2. QED
              BY <3>1, <6>1 DEF Goes, Request
          <5>3. QED
            BY <2>2, <5>1, <5>2
        <4>3. QED
          BY <4>2 DEF NoTempLeft
      <3>4. QED
        BY <3>2, <3>3 DEF SafeInv
    <2>3. QED
      BY <1>2, <2>1, <2>2 DEF UploadTemp
  <1>3. CASE UploadRename(u) \/ UploadFails(u)
    <2>1. PICK to \in {"renamed", "idle"} : Goes(u, "copying", to)
      BY <1>3, MovesTyped, Returns DEF UploadRename, UploadFails, Goes
    <2>2. SavedInv' /\ WorkInv'
      BY <1>3, <2>1, SavedQuiet, WorkQuiet DEF UploadRename, UploadFails, pools, AtWork, SafeInv
    <2>3. temp' = temp \ {op[u].upload} /\ littered' = littered
      BY <1>3 DEF UploadRename, UploadFails
    <2>4. NoTempLeft'
      BY <2>1, <2>3 DEF SafeInv, NoTempLeft, Goes, Request
    <2>5. QED
      BY <2>2, <2>4 DEF SafeInv
  <1>4. CASE UploadReturn(u)
    <2>1. Goes(u, "renamed", "idle")
      BY <1>4, Returns DEF UploadReturn, Goes
    <2>2. QED
      BY <1>4, <2>1, AllQuiet DEF UploadReturn, media, pools, AtWork
  <1>5. QED
    BY <1>1, <1>2, <1>3, <1>4 DEF UploadSteps

LEMMA ResolveAndRemoveKeepSafe ==
  ASSUME TypeInv, SafeInv, NEW r \in Uploads \cup Removals,
         (\E iso \in Isos : Resolve(r, iso)) \/ (r \in Removals /\ Remove(r))
  PROVE  SafeInv'
  <1>1. r \in Request
    BY DEF Request
  <1>2. Goes(r, "idle", "resolved") \/ Goes(r, "resolved", "idle")
    BY <1>1, Returns DEF Resolve, Remove, Goes, Goto, Idle, TypeInv
  <1>3. UNCHANGED <<dir, saved, unsure, temp, littered, pool, left>>
    BY DEF Resolve, Remove, media, pools
  <1>4. QED
    BY <1>1, <1>2, <1>3, AllQuiet DEF AtWork

\* A request that finishes with its pool, or cannot: nothing else changes.
LEMMA GivesUpKeepsWork ==
  ASSUME TypeInv, WorkInv, NEW r \in Request, NEW a, Goes(r, a, "idle"), op[r].pool \in Pools,
         \/ CanUndefine(r) /\ Undefine(op[r].pool)
         \/ left' = left \cup {op[r].pool} /\ UNCHANGED pools
         \/ ~CanUndefine(r) /\ UNCHANGED <<pools, left>>
  PROVE  WorkInv'
  <1> SUFFICES ASSUME NEW p \in Pools \ left', Exists(p)', ~(pool[p].active)'
               PROVE  \E x \in Creations \cup Deletions : WorksOn(x, p)'
    BY DEF WorkInv
  <1>1. pool \in [Pools -> {NoPool} \cup [uuid : 1..made, active : BOOLEAN]]
    BY TypeParts DEF PoolsTyped
  <1>2. CASE CanUndefine(r) /\ Undefine(op[r].pool)
    <2>1. p # op[r].pool /\ pool'[p] = pool[p] /\ p \notin left
      BY <1>1, <1>2 DEF Undefine, Exists
    <2>2. PICK x \in Creations \cup Deletions : WorksOn(x, p)
      BY <2>1 DEF WorkInv, Exists
    <2>3. QED
      BY <2>1, <2>2 DEF WorksOn, Goes, Request
  <1>3. CASE left' = left \cup {op[r].pool} /\ UNCHANGED pools
    <2>1. p # op[r].pool /\ pool' = pool /\ p \notin left
      BY <1>3 DEF pools
    <2>2. PICK x \in Creations \cup Deletions : WorksOn(x, p)
      BY <2>1 DEF WorkInv, Exists
    <2>3. QED
      BY <2>1, <2>2 DEF WorksOn, Goes, Request
  <1>4. CASE ~CanUndefine(r) /\ UNCHANGED <<pools, left>>
    <2>1. pool' = pool /\ p \notin left
      BY <1>4 DEF pools
    <2>2. PICK x \in Creations \cup Deletions : WorksOn(x, p)
      BY <2>1 DEF WorkInv, Exists
    <2>3. x # r
      BY <1>4, <2>1, <2>2 DEF WorksOn, CanUndefine, Valid, Exists
    <2>4. QED
      BY <2>1, <2>2, <2>3 DEF WorksOn, Goes, Request
  <1>5. QED
    BY <1>2, <1>3, <1>4

\* A request works on a pool that it has made, changed or found inactive.
LEMMA TakesUpKeepsWork ==
  ASSUME TypeInv, WorkInv, NEW r \in Creations \cup Deletions, NEW a, NEW b,
         Goes(r, a, b), b \in AtWork, a \notin AtWork,
         op'[r].pool \in Pools, op'[r].uuid = pool'[op'[r].pool].uuid,
         \A p \in Pools \ {op'[r].pool} : pool'[p] = pool[p], left' = left
  PROVE  WorkInv'
  <1> SUFFICES ASSUME NEW p \in Pools \ left, Exists(p)', ~(pool[p].active)'
               PROVE  \E x \in Creations \cup Deletions : WorksOn(x, p)'
    BY DEF WorkInv
  <1>1. CASE p = op'[r].pool
    BY <1>1 DEF WorksOn, Goes
  <1>2. CASE p # op'[r].pool
    <2>1. PICK x \in Creations \cup Deletions : WorksOn(x, p)
      BY <1>2 DEF WorkInv, Exists
    <2>2. QED
      BY <1>2, <2>1 DEF WorksOn, Goes, Request
  <1>3. QED
    BY <1>1, <1>2

\* A request goes on with the pool it works on.
LEMMA GoesOnKeepsWork ==
  ASSUME TypeInv, WorkInv, NEW r \in Request, NEW a, NEW b, Goes(r, a, b), b \in AtWork,
         op'[r].pool = op[r].pool, op'[r].uuid = op[r].uuid, UNCHANGED <<pool, left>>
  PROVE  WorkInv'
  <1>1. \A x \in Creations \cup Deletions, p \in Pools : WorksOn(x, p) => WorksOn(x, p)'
    BY DEF WorksOn, Goes, Request
  <1>2. QED
    BY <1>1 DEF WorkInv, Exists

LEMMA DeleteKeepsSafe ==
  ASSUME TypeInv, SafeInv, NEW d \in Deletions, DeleteSteps(d)
  PROVE  SafeInv'
  <1> d \in Request
    BY DEF Request
  <1> USE DEF Deleting, AtWork
  <1>1. ASSUME NEW p \in Pools, DeleteLookup(d, p) PROVE SafeInv'
    <2>1. PICK to \in {"deactivate", "undefine"} : Goes(d, "idle", to)
      BY <1>1 DEF DeleteLookup, Goes, Goto, Idle, TypeInv
    <2>2. QED
      BY <1>1, <2>1, AllQuiet DEF DeleteLookup, media, pools
  <1>2. CASE Deactivate(d)
    <2>1. UNCHANGED <<dir, saved, unsure, temp, littered, left>>
      BY <1>2 DEF Deactivate, media
    <2>2. CASE Return(d) /\ UNCHANGED pool
      <3>1. Goes(d, "deactivate", "idle")
        BY <1>2, <2>2, Returns DEF Deactivate, Goes
      <3>2. QED
        BY <2>1, <2>2, <3>1, AllQuiet
    <2>3. CASE /\ Valid(d) /\ pool' = [pool EXCEPT ![op[d].pool].active = FALSE]
               /\ Moves(d, "undefine")
      <3>1. /\ Goes(d, "deactivate", "undefine") /\ op[d].pool \in Pools
            /\ op'[d].pool = op[d].pool /\ op'[d].uuid = op[d].uuid
        BY <1>2, <2>3, MovesTyped, Held DEF Deactivate, Goes
      <3>2. SavedInv' /\ NoTempLeft'
        BY <2>1, <3>1, SavedQuiet, TempQuiet DEF SafeInv
      <3>3. /\ pool'[op[d].pool].uuid = pool[op[d].pool].uuid
            /\ \A p \in Pools \ {op[d].pool} : pool'[p] = pool[p]
        <4>1. pool \in [Pools -> {NoPool} \cup [uuid : 1..made, active : BOOLEAN]]
          BY TypeParts DEF PoolsTyped
        <4>2. QED
          BY <2>3, <3>1, <4>1 DEF NoPool
      <3>4. op'[d].uuid = pool'[op'[d].pool].uuid
        BY <2>3, <3>1, <3>3 DEF Valid
      <3>5. WorkInv'
        BY <2>1, <3>1, <3>3, <3>4, TakesUpKeepsWork DEF SafeInv
      <3>6. QED
        BY <3>2, <3>5 DEF SafeInv
    <2>4. QED
      BY <1>2, <2>2, <2>3 DEF Deactivate
  <1>3. CASE DeleteUndefine(d)
    <2>1. Goes(d, "undefine", "idle") /\ op[d].pool \in Pools
      BY <1>3, Returns, Held DEF DeleteUndefine, Goes
    <2>2. SavedInv' /\ NoTempLeft'
      BY <1>3, <2>1, SavedQuiet, TempQuiet DEF DeleteUndefine, media, SafeInv
    <2>3. WorkInv'
      BY <1>3, <2>1, GivesUpKeepsWork DEF DeleteUndefine, SafeInv
    <2>4. QED
      BY <2>2, <2>3 DEF SafeInv
  <1>4. QED
    BY <1>1, <1>2, <1>3 DEF DeleteSteps

LEMMA CreateKeepsSafe ==
  ASSUME TypeInv, SafeInv, NEW c \in Creations, CreateSteps(c)
  PROVE  SafeInv'
  <1> c \in Request
    BY DEF Request
  <1> USE DEF Making, AtWork
  <1>1. ASSUME NEW p \in Pools, NEW path \in Dirs, NEW iso \in BOOLEAN, PoolLookup(c, p, path, iso)
        PROVE  SafeInv'
    <2>1. Goes(c, "idle", "named")
      BY <1>1 DEF PoolLookup, Goes, Goto, Idle, TypeInv
    <2>2. QED
      BY <1>1, <2>1, AllQuiet DEF PoolLookup, media, pools
  <1>2. CASE PoolDefine(c)
    <2>1. UNCHANGED <<dir, saved, unsure, temp, littered, left>> /\ op[c].pool \in Pools
      BY <1>2, Held DEF PoolDefine, media
    <2>2. CASE Exists(op[c].pool)
      <3>1. Goes(c, "named", "idle") /\ UNCHANGED pool
        BY <1>2, <2>2, Returns DEF PoolDefine, Goes, pools
      <3>2. QED
        BY <2>1, <3>1, AllQuiet
    <2>3. CASE ~Exists(op[c].pool)
      <3>1. /\ Goes(c, "named", "defined")
            /\ op'[c].pool = op[c].pool /\ op'[c].uuid = made'
        BY <1>2, <2>3 DEF PoolDefine, Goes, Goto, TypeInv
      <3>2. pool' = [pool EXCEPT ![op[c].pool] = [uuid |-> made', active |-> FALSE]]
        BY <1>2, <2>3 DEF PoolDefine
      <3>3. /\ pool'[op[c].pool].uuid = made'
            /\ \A p \in Pools \ {op[c].pool} : pool'[p] = pool[p]
        BY <2>1, <3>2, TypeParts DEF PoolsTyped
      <3>4. SavedInv' /\ NoTempLeft'
        BY <2>1, <3>1, SavedQuiet, TempQuiet DEF SafeInv
      <3>5. WorkInv'
        BY <2>1, <3>1, <3>3, TakesUpKeepsWork DEF SafeInv
      <3>6. QED
        BY <3>4, <3>5 DEF SafeInv
    <2>4. QED
      BY <2>2, <2>3
  <1>3. CASE PoolBuild(c) \/ PoolFails(c)
    <2>1. PICK a \in {"defined", "built"}, b \in {"built", "undo"} :
            Goes(c, a, b) /\ op'[c].pool = op[c].pool /\ op'[c].uuid = op[c].uuid
      BY <1>3, MovesTyped DEF PoolBuild, PoolFails, Goes
    <2>2. UNCHANGED <<dir, saved, unsure, temp, littered, pool, left>>
      BY <1>3 DEF PoolBuild, PoolFails, media, pools
    <2>3. QED
      BY <2>1, <2>2, SavedQuiet, TempQuiet, GoesOnKeepsWork DEF SafeInv
  <1>4. CASE PoolStart(c)
    <2>1. Goes(c, "built", "started") /\ op[c].pool \in Pools
      BY <1>4, MovesTyped, Held DEF PoolStart, Goes
    <2>2. SavedInv' /\ NoTempLeft'
      BY <1>4, <2>1, SavedQuiet, TempQuiet DEF PoolStart, media, SafeInv
    <2>3. WorkInv'
      <3>1. /\ pool'[op[c].pool].active /\ \A p \in Pools \ {op[c].pool} : pool'[p] = pool[p]
            /\ left' = left \ {op[c].pool}
        <4>1. pool[op[c].pool] \in [uuid : 1..made, active : BOOLEAN]
          BY <1>4, <2>1, TypeParts DEF PoolStart, Valid, Exists, PoolsTyped
        <4>2. QED
          BY <1>4, <2>1, <4>1, TypeParts DEF PoolStart, PoolsTyped
      <3>2. ASSUME NEW p \in Pools \ left', Exists(p)', ~(pool[p].active)'
            PROVE  \E x \in Creations \cup Deletions : WorksOn(x, p)'
        <4>1. p # op[c].pool /\ p \notin left /\ Exists(p) /\ ~pool[p].active
          BY <3>1, <3>2 DEF Exists
        <4>2. PICK x \in Creations \cup Deletions : WorksOn(x, p)
          BY <4>1 DEF SafeInv, WorkInv
        <4>3. x # c
          BY <4>1, <4>2 DEF WorksOn
        <4>4. QED
          BY <2>1, <3>1, <4>1, <4>2, <4>3 DEF WorksOn, Goes, Request
      <3>3. QED
        BY <3>2 DEF WorkInv
    <2>4. QED
      BY <2>2, <2>3 DEF SafeInv
  <1>5. CASE PoolUndo(c)
    <2>1. Goes(c, "undo", "idle") /\ op[c].pool \in Pools
      BY <1>5, Returns, Held DEF PoolUndo, Goes
    <2>2. SavedInv' /\ NoTempLeft'
      BY <1>5, <2>1, SavedQuiet, TempQuiet DEF PoolUndo, media, SafeInv
    <2>3. WorkInv'
      BY <1>5, <2>1, GivesUpKeepsWork DEF PoolUndo, SafeInv
    <2>4. QED
      BY <2>2, <2>3 DEF SafeInv
  <1>6. CASE PoolRead(c)
    <2>1. PICK to \in {"known", "idle"} : Goes(c, "started", to)
      BY <1>6, MovesTyped, Returns DEF PoolRead, Goes
    <2>2. QED
      BY <1>6, <2>1, AllQuiet DEF PoolRead, media, pools
  <1>7. CASE SetDir(c)
    <2>1. UNCHANGED <<saved, temp, littered, pool, left>>
      BY <1>7 DEF SetDir, pools
    <2>2. CASE Return(c) /\ UNCHANGED <<dir, unsure>>
      <3>1. Goes(c, "known", "idle")
        BY <1>7, <2>2, Returns DEF SetDir, Goes
      <3>2. QED
        BY <2>1, <2>2, <3>1, AllQuiet
    <2>3. CASE dir' = op[c].path /\ unsure' = (unsure \/ Switched # {}) /\ Moves(c, "switched")
      <3>1. Goes(c, "known", "switched") /\ op'[c].path = op[c].path
        BY <1>7, <2>3, MovesTyped DEF SetDir, Goes
      <3>2. Switched' = Switched \cup {c}
        BY <3>1 DEF Goes, Switched, Request
      <3>3. SavedInv'
        BY <2>3, <3>1, <3>2 DEF SavedInv, LibrarySurvivesRestart
      <3>4. NoTempLeft' /\ WorkInv'
        BY <2>1, <3>1, TempQuiet, WorkQuiet DEF SafeInv
      <3>5. QED
        BY <3>3, <3>4 DEF SafeInv
    <2>4. QED
      BY <1>7, <2>2, <2>3 DEF SetDir
  <1>8. CASE SetIsoDir(c)
    <2>1. /\ Goes(c, "switched", "idle") /\ op[c].path \in Dirs /\ c \in Switched
          /\ UNCHANGED <<dir, temp, littered, pool, left>>
      BY <1>8, Returns, Held DEF SetIsoDir, Goes, Switched, pools
    <2>2. Switched' = Switched \ {c}
      BY <2>1 DEF Goes, Switched, Request
    <2>3. op[c].path # None
      BY <2>1, MediaLibraryAssumption
    <2>4. SavedInv'
      <3>1. CASE unsure' = TRUE
        BY <3>1 DEF SavedInv, LibrarySurvivesRestart
      <3>2. CASE saved' = op[c].path /\ unsure' = unsure
        BY <2>1, <2>2, <2>3, <3>2 DEF SafeInv, SavedInv, LibrarySurvivesRestart, Booted
      <3>3. QED
        BY <1>8, <3>1, <3>2 DEF SetIsoDir, Saves
    <2>5. NoTempLeft' /\ WorkInv'
      BY <2>1, TempQuiet, WorkQuiet DEF SafeInv
    <2>6. QED
      BY <2>4, <2>5 DEF SafeInv
  <1>9. QED
    BY <1>1, <1>2, <1>3, <1>4, <1>5, <1>6, <1>7, <1>8 DEF CreateSteps

LEMMA CrashKeepsSafe ==
  ASSUME TypeInv, SafeInv, Crash
  PROVE  SafeInv'
  <1>1. Switched' = {}
    BY DEF Crash, Switched, Idle, Request
  <1>2. SavedInv'
    BY <1>1 DEF Crash, SavedInv, LibrarySurvivesRestart, Booted
  <1>3. NoTempLeft'
    BY DEF Crash, NoTempLeft
  <1>4. WorkInv'
    <2>1. UNCHANGED pool /\ left \subseteq left'
      BY DEF Crash, pools
    <2>2. ASSUME NEW p \in Pools, NEW r \in Creations \cup Deletions, WorksOn(r, p), Exists(p)
          PROVE  p \in left'
      BY <2>2 DEF Crash, WorksOn, Valid, AtWork
    <2>3. QED
      BY <2>1, <2>2 DEF SafeInv, WorkInv, Exists
  <1>5. QED
    BY <1>2, <1>3, <1>4 DEF SafeInv

LEMMA InitSafe == Init => IInv
  <1> SUFFICES ASSUME Init PROVE SafeInv
    BY InitTyped DEF IInv, SafeInv
  <1>1. \A r \in Request : op[r].pc = "idle"
    BY DEF Init, Idle
  <1>2. Switched = {}
    BY <1>1 DEF Switched, Request
  <1>3. QED
    BY <1>2 DEF Init, SafeInv, SavedInv, LibrarySurvivesRestart, Booted, NoTempLeft, WorkInv, Exists

LEMMA StepKeepsSafe == IInv /\ [Next]_vars => IInv'
  <1> SUFFICES ASSUME TypeInv, SafeInv, [Next]_vars PROVE SafeInv'
    BY StepKeepsTypes DEF IInv, SafeInv
  <1>1. CASE UNCHANGED vars
    <2>1. UNCHANGED <<dir, saved, temp, pool, op, littered, left, unsure>>
      BY <1>1 DEF vars, media, pools
    <2>2. QED
      BY <2>1 DEF SafeInv, SavedInv, LibrarySurvivesRestart, Switched, Booted, NoTempLeft,
                  WorkInv, WorksOn, Exists
  <1>2. QED
    BY <1>1, UploadKeepsSafe, ResolveAndRemoveKeepSafe, DeleteKeepsSafe, CreateKeepsSafe,
       CrashKeepsSafe
    DEF Next

LEMMA LibraryIsSafe == Spec => []IInv
  BY InitSafe, StepKeepsSafe, PTL DEF Spec

\* Whenever no creation is between switching the library and saving that, a
\* restart opens the library in use, unless a save failed or two overlapped.
THEOREM RestartOpensLibrary == Spec => []LibrarySurvivesRestart
  BY LibraryIsSafe, PTL DEF IInv, SavedInv

\* Uploads and creations of pools that fail half-way leave nothing unfinished,
\* whatever other requests do to the same file or pool meanwhile.
THEOREM NothingHalfDone == Spec => []NothingUnfinished
  <1>1. IInv => NothingUnfinished
    <2> SUFFICES ASSUME IInv, NEW p \in Pools \ left, Exists(p), ~pool[p].active
                 PROVE  \E r \in Creations \cup Deletions : op[r].pc # "idle" /\ op[r].pool = p
      BY DEF NothingUnfinished, PoolsFinished, IInv
    <2>1. QED
      BY DEF IInv, WorkInv, WorksOn, AtWork
  <1>2. QED
    BY <1>1, LibraryIsSafe, PTL

-----------------------------------------------------------------------------
(***************************************************************************)
(* Images that uploads could have found                                    *)
(***************************************************************************)

Copying == {u \in Uploads : op[u].pc = "copying"}

\* Each upload has a number of its own, which is on no image, and was on none
\* when an upload checked, until it is renamed.
NumberInv ==
  /\ \A u, w \in Copying : op[u].upload = op[w].upload => u = w
  /\ \A w \in Copying : op[w].upload <= uploads /\ \A p \in Place : file[p] # op[w].upload
  /\ \A p \in Place : file[p] <= uploads

\* What an upload did not find where it will rename to, it could not find.
UnseenInv ==
  /\ before \in [Uploads -> SUBSET (0..uploads)]
  /\ \A u \in Uploads : \A w \in Copying : op[w].upload \notin before[u]
  /\ \A u \in Uploads : op[u].pc \in {"checked", "copying"} =>
       file[op[u].at] \notin before[u] \ {0}

UploadInv == TypeInv /\ NumberInv /\ UnseenInv

\* Steps of other requests: no upload gets a number or finds its place free.
Elsewhere(r) ==
  /\ \A x \in Request \ {r} : op'[x] = op[x]
  /\ op'[r].pc \notin {"checked", "copying"}
  /\ uploads' = uploads
  /\ \A p \in Place : file'[p] \in {0, file[p]}

LEMMA BeforeSteps ==
  ASSUME HNext, UploadInv, NEW u \in Uploads
  PROVE  /\ before' \in [Uploads -> {before'[x] : x \in Uploads}]
         /\ \/ before'[u] = before[u] \/ before'[u] = {}
            \/ /\ op[u].pc = "resolved" /\ op'[u].pc = "checked"
               /\ before'[u] = {file[p] : p \in Place}
         /\ op[u].pc # "resolved" /\ op'[u].pc # "idle" => before'[u] = before[u]
         /\ op[u].pc = "resolved" /\ op'[u].pc = "checked" =>
              before'[u] = {file[p] : p \in Place}
  BY DEF HNext, UploadInv, UnseenInv

\* The same for all uploads, typed.
LEMMA BeforeKept ==
  ASSUME HNext, UploadInv, uploads' \in Nat, uploads <= uploads'
  PROVE  before' \in [Uploads -> SUBSET (0..uploads')]
  <1>1. uploads \in Nat /\ file \in [Place -> {0} \cup Upload] /\ Upload \subseteq Nat
    BY MediaLibraryAssumption, TypeParts DEF UploadInv, MediaTyped, Upload
  <1>2. {file[p] : p \in Place} \subseteq 0..uploads
    <2>1. \A p \in Place : file[p] \in {0} \cup Upload /\ file[p] <= uploads
      BY <1>1 DEF UploadInv, NumberInv
    <2>2. {0} \cup Upload \subseteq Nat
      BY <1>1
    <2>3. \A n \in Nat : n <= uploads => n \in 0..uploads
      BY <1>1
    <2>4. \A p \in Place : file[p] \in 0..uploads
      BY <2>1, <2>2, <2>3
    <2>5. QED
      BY <2>4
  <1>3. \A u \in Uploads : before[u] \subseteq 0..uploads
    BY DEF UploadInv, UnseenInv
  <1>4. 0..uploads \subseteq 0..uploads'
    BY <1>1
  <1>5. before' = [u \in Uploads |->
                    IF op[u].pc = "resolved" /\ op'[u].pc = "checked" THEN {file[p] : p \in Place}
                    ELSE IF op'[u].pc = "idle" THEN {} ELSE before[u]]
    BY DEF HNext
  <1>6. \A u \in Uploads : before'[u] \subseteq 0..uploads'
    BY <1>2, <1>3, <1>4, <1>5
  <1>7. QED
    BY <1>5, <1>6

LEMMA UploadRange ==
  ASSUME UploadInv
  PROVE  /\ uploads \in Nat /\ \A p \in Place : file[p] \in Nat
         /\ \A u \in Uploads : op[u].pc \in {"resolved", "checked", "copying"} => op[u].at \in Place
         /\ \A w \in Copying : op[w].upload \in Nat \ {0}
  <1>1. uploads \in Nat /\ file \in [Place -> {0} \cup Upload] /\ Upload \subseteq Nat \ {0}
    BY MediaLibraryAssumption, TypeParts DEF UploadInv, MediaTyped, Upload
  <1>2. \A p \in Place : file[p] \in Nat
    <2>1. \A p \in Place : file[p] \in {0} \cup Upload
      BY <1>1
    <2>2. {0} \cup Upload \subseteq Nat
      BY <1>1
    <2>3. QED
      BY <2>1, <2>2
  <1>3. \A u \in Uploads : op[u].pc \in {"resolved", "checked", "copying"} => op[u].at \in Place
    BY Held DEF UploadInv, Sending, Sent, Request
  <1>4. \A w \in Copying : op[w].upload \in Nat \ {0}
    BY <1>1, Held DEF UploadInv, Copying, Sent, Request
  <1>5. QED
    BY <1>1, <1>2, <1>3, <1>4

LEMMA ElsewhereKeepsUploads ==
  ASSUME UploadInv, HNext, NEW r \in Request, Elsewhere(r)
  PROVE  NumberInv' /\ UnseenInv'
  <1>1. \A w \in Uploads : op'[w].pc = "copying" => w \in Copying /\ op'[w] = op[w]
    BY DEF Elsewhere, Copying, Request
  <1>2. NumberInv'
    BY <1>1, UploadRange DEF UploadInv, NumberInv, Elsewhere, Copying
  <1>3. before' \in [Uploads -> SUBSET (0..uploads')]
    BY BeforeKept, UploadRange DEF Elsewhere
  <1>4. \A u \in Uploads : \A w \in Uploads : op'[w].pc = "copying" => op'[w].upload \notin before'[u]
    BY <1>1, BeforeSteps DEF UploadInv, UnseenInv, NumberInv
  <1>5. ASSUME NEW u \in Uploads, op'[u].pc \in {"checked", "copying"}
        PROVE  file'[op'[u].at] \notin before'[u] \ {0}
    <2>1. op'[u] = op[u] /\ before'[u] = before[u]
      BY <1>5, BeforeSteps DEF Elsewhere, Request
    <2>2. op[u].at \in Place
      BY <1>5, <2>1, UploadRange
    <2>3. QED
      BY <1>5, <2>1, <2>2 DEF Elsewhere, UploadInv, UnseenInv
  <1>6. QED
    BY <1>2, <1>3, <1>4, <1>5 DEF UnseenInv, Copying

LEMMA UploadKeepsNumbers ==
  ASSUME UploadInv, HNext, NEW u \in Uploads, UploadSteps(u)
  PROVE  NumberInv' /\ UnseenInv'
  <1> u \in Request /\ TypeInv
    BY DEF Request, UploadInv
  <1> USE DEF Sending, Sent
  <1>1. CASE op'[u].pc \notin {"checked", "copying"} /\ UNCHANGED <<uploads, file>>
    <2>1. \A x \in Request \ {u} : op'[x] = op[x]
      BY MovesTyped, Returns
      DEF UploadSteps, UploadCheck, UploadTemp, UploadRename, UploadFails, UploadReturn, Goto, TypeInv
    <2>2. QED
      BY <1>1, <2>1, ElsewhereKeepsUploads DEF Elsewhere
  <1>2. CASE UploadCheck(u) /\ op'[u].pc = "checked"
    <2>1. /\ op[u].pc = "resolved" /\ file[op[u].at] = 0 /\ op'[u].at = op[u].at
          /\ \A x \in Request \ {u} : op'[x] = op[x]
          /\ UNCHANGED <<uploads, file>>
      BY <1>2, MovesTyped, Returns DEF UploadCheck, media
    <2>2. \A w \in Uploads : op'[w].pc = "copying" => w \in Copying /\ op'[w] = op[w]
      BY <1>2, <2>1 DEF Copying, Request
    <2>3. NumberInv'
      BY <2>1, <2>2, UploadRange DEF UploadInv, NumberInv, Copying
    <2>4. before' \in [Uploads -> SUBSET (0..uploads')]
      BY <2>1, BeforeKept, UploadRange
    <2>5. \A x \in Uploads : \A w \in Uploads : op'[w].pc = "copying" => op'[w].upload \notin before'[x]
      BY <2>2, BeforeSteps DEF UploadInv, UnseenInv, NumberInv
    <2>6. ASSUME NEW x \in Uploads, op'[x].pc \in {"checked", "copying"}
          PROVE  file'[op'[x].at] \notin before'[x] \ {0}
      <3>1. CASE x = u
        BY <2>1, <3>1
      <3>2. CASE x # u
        <4>1. op'[x] = op[x] /\ before'[x] = before[x]
          BY <2>1, <2>6, <3>2, BeforeSteps DEF Request
        <4>2. QED
          BY <2>1, <2>6, <4>1 DEF UploadInv, UnseenInv
      <3>3. QED
        BY <3>1, <3>2
    <2>7. QED
      BY <2>3, <2>4, <2>5, <2>6 DEF UnseenInv, Copying
  <1>3. CASE UploadTemp(u) /\ op'[u].pc = "copying"
    <2>1. /\ op[u].pc = "checked" /\ uploads' = uploads + 1
          /\ op'[u].at = op[u].at /\ op'[u].upload = uploads + 1
          /\ \A x \in Request \ {u} : op'[x] = op[x]
          /\ UNCHANGED file
      BY <1>3, Returns DEF UploadTemp, Goto, TypeInv
    <2>2. \A w \in Uploads : op'[w].pc = "copying" => w = u \/ (w \in Copying /\ op'[w] = op[w])
      BY <2>1 DEF Copying, Request
    <2>3. \A x \in Uploads : op'[x].pc \in {"checked", "copying"} => before'[x] = before[x]
      <3>1. \A x \in Uploads : op[x].pc = "resolved" => op'[x].pc = "resolved"
        BY <2>1 DEF Request
      <3>2. QED
        BY <3>1, BeforeSteps
    <2>4. NumberInv'
      <3>1. ASSUME NEW w \in Copying, w # u PROVE op[w].upload <= uploads
        BY DEF UploadInv, NumberInv
      <3>2. \A p \in Place : file'[p] <= uploads /\ file'[p] \in Nat
        BY <2>1, UploadRange DEF UploadInv, NumberInv
      <3>3. \A x, w \in Uploads : op'[x].pc = "copying" /\ op'[w].pc = "copying"
                                    /\ op'[x].upload = op'[w].upload => x = w
        BY <2>1, <2>2, <3>1, UploadRange DEF UploadInv, NumberInv
      <3>4. \A w \in Uploads : op'[w].pc = "copying" =>
              op'[w].upload <= uploads' /\ \A p \in Place : file'[p] # op'[w].upload
        BY <2>1, <2>2, <3>1, <3>2, UploadRange DEF UploadInv, NumberInv
      <3>5. \A p \in Place : file'[p] <= uploads'
        BY <2>1, <3>2, UploadRange
      <3>6. QED
        BY <3>3, <3>4, <3>5 DEF NumberInv, Copying
    <2>5. before' \in [Uploads -> SUBSET (0..uploads')]
      BY <2>1, BeforeKept, UploadRange
    <2>6. ASSUME NEW x \in Uploads, NEW w \in Uploads, op'[w].pc = "copying"
          PROVE  op'[w].upload \notin before'[x]
      <3>1. before'[x] = before[x] \/ before'[x] = {}
        <4>1. ~(op[x].pc = "resolved" /\ op'[x].pc = "checked")
          BY <2>1 DEF Request
        <4>2. QED
          BY <4>1, BeforeSteps
      <3>2. before[x] \subseteq 0..uploads /\ uploads + 1 \notin 0..uploads
        BY UploadRange DEF UploadInv, UnseenInv
      <3>3. QED
        BY <2>1, <2>2, <2>6, <3>1, <3>2 DEF UploadInv, UnseenInv
    <2>7. ASSUME NEW x \in Uploads, op'[x].pc \in {"checked", "copying"}
          PROVE  file'[op'[x].at] \notin before'[x] \ {0}
      <3>1. op[x].pc \in {"checked", "copying"} /\ op'[x].at = op[x].at
        BY <2>1, <2>7 DEF Request
      <3>2. QED
        BY <2>1, <2>3, <2>7, <3>1 DEF UploadInv, UnseenInv
    <2>8. QED
      BY <2>4, <2>5, <2>6, <2>7 DEF UnseenInv, Copying
  <1>4. CASE UploadRename(u)
    <2>1. /\ u \in Copying /\ op'[u].pc = "renamed" /\ uploads' = uploads
          /\ \A x \in Request \ {u} : op'[x] = op[x]
          /\ file' = [file EXCEPT ![op[u].at] = op[u].upload] /\ op[u].at \in Place
          /\ file \in [Place -> {0} \cup Upload]
      BY <1>4, MovesTyped, Held, TypeParts DEF UploadRename, Copying, MediaTyped
    <2>2. \A w \in Uploads : op'[w].pc = "copying" => w # u /\ w \in Copying /\ op'[w] = op[w]
      BY <2>1 DEF Copying, Request
    <2>3. NumberInv'
      <3>1. \A p \in Place : file'[p] <= uploads
        BY <2>1 DEF UploadInv, NumberInv
      <3>2. \A w \in Uploads, p \in Place : op'[w].pc = "copying" => file'[p] # op'[w].upload
        BY <2>1, <2>2 DEF UploadInv, NumberInv
      <3>3. QED
        BY <2>1, <2>2, <3>1, <3>2 DEF UploadInv, NumberInv, Copying
    <2>4. before' \in [Uploads -> SUBSET (0..uploads')]
      BY <2>1, BeforeKept, UploadRange
    <2>5. \A x \in Uploads : before'[x] = before[x] \/ before'[x] = {}
      <3>1. \A x \in Uploads : ~(op[x].pc = "resolved" /\ op'[x].pc = "checked")
        BY <2>1 DEF Request, Copying
      <3>2. QED
        BY <3>1, BeforeSteps
    <2>6. \A x \in Uploads : \A w \in Uploads : op'[w].pc = "copying" => op'[w].upload \notin before'[x]
      BY <2>2, <2>5 DEF UploadInv, UnseenInv
    <2>7. ASSUME NEW x \in Uploads, op'[x].pc \in {"checked", "copying"}
          PROVE  file'[op'[x].at] \notin before'[x] \ {0}
      <3>1. x # u /\ op'[x] = op[x]
        BY <2>1, <2>7 DEF Request
      <3>2. op[x].at \in Place
        BY <2>7, <3>1, UploadRange
      <3>3. file'[op[x].at] \in {op[u].upload, file[op[x].at]}
        BY <2>1, <3>2
      <3>4. op[u].upload \notin before[x] /\ file[op[x].at] \notin before[x] \ {0}
        BY <2>1, <2>7, <3>1 DEF UploadInv, UnseenInv
      <3>5. QED
        BY <2>5, <3>1, <3>3, <3>4
    <2>8. QED
      BY <2>3, <2>4, <2>6, <2>7 DEF UnseenInv, Copying
  <1>5. CASE UploadFails(u) \/ UploadReturn(u)
    BY <1>1, <1>5, Returns DEF UploadFails, UploadReturn, media
  <1>6. QED
    <2>1. CASE UploadCheck(u)
      BY <1>1, <1>2, <2>1, Returns, MovesTyped DEF UploadCheck, media
    <2>2. CASE UploadTemp(u)
      BY <1>1, <1>3, <2>2, Returns DEF UploadTemp, Goto, TypeInv
    <2>3. QED
      BY <1>4, <1>5, <2>1, <2>2 DEF UploadSteps

\* The steps of pools see no upload.
LEMMA PoolStepsElsewhere ==
  ASSUME TypeInv, NEW r \in Request,
         (r \in Creations /\ CreateSteps(r)) \/ (r \in Deletions /\ DeleteSteps(r))
  PROVE  Elsewhere(r)
  <1> USE DEF Making, Deleting
  <1>0. UNCHANGED <<uploads, file>>
    BY DEF CreateSteps, PoolLookup, PoolDefine, PoolBuild, PoolStart, PoolFails, PoolUndo, PoolRead,
           SetDir, SetIsoDir, DeleteSteps, DeleteLookup, Deactivate, DeleteUndefine, media
  <1> SUFFICES op'[r].pc \notin {"checked", "copying"} /\ \A x \in Request \ {r} : op'[x] = op[x]
    BY <1>0 DEF Elsewhere
  <1>1. CASE CreateSteps(r)
    <2>1. ASSUME NEW p \in Pools, NEW path \in Dirs, NEW iso \in BOOLEAN, PoolLookup(r, p, path, iso)
          PROVE  op'[r].pc = "named" /\ \A x \in Request \ {r} : op'[x] = op[x]
      BY <2>1 DEF PoolLookup, Goto, TypeInv
    <2>2. CASE PoolDefine(r)
      BY <2>2, Returns DEF PoolDefine, Goto, TypeInv
    <2>3. CASE PoolBuild(r) \/ PoolStart(r) \/ PoolFails(r)
      BY <2>3, MovesTyped DEF PoolBuild, PoolStart, PoolFails
    <2>4. CASE PoolUndo(r) \/ PoolRead(r) \/ SetDir(r) \/ SetIsoDir(r)
      BY <2>4, MovesTyped, Returns DEF PoolUndo, PoolRead, SetDir, SetIsoDir
    <2>5. QED
      BY <1>1, <2>1, <2>2, <2>3, <2>4 DEF CreateSteps
  <1>2. CASE DeleteSteps(r)
    <2>1. ASSUME NEW p \in Pools, DeleteLookup(r, p)
          PROVE  op'[r].pc \in Deleting /\ \A x \in Request \ {r} : op'[x] = op[x]
      BY <2>1 DEF DeleteLookup, Goto, TypeInv
    <2>2. CASE Deactivate(r) \/ DeleteUndefine(r)
      BY <2>2, MovesTyped, Returns DEF Deactivate, DeleteUndefine
    <2>3. QED
      BY <1>2, <2>1, <2>2 DEF DeleteSteps
  <1>3. QED
    BY <1>1, <1>2

LEMMA StepKeepsUploads == UploadInv /\ [HNext]_<<vars, before>> => UploadInv'
  <1> SUFFICES ASSUME UploadInv, [HNext]_<<vars, before>> PROVE UploadInv'
    OBVIOUS
  <1>1. CASE UNCHANGED <<vars, before>>
    <2>1. UNCHANGED <<op, file, uploads, before>>
      BY <1>1 DEF vars, media
    <2>2. NumberInv' /\ UnseenInv'
      BY <2>1 DEF UploadInv, NumberInv, UnseenInv, Copying
    <2>3. QED
      BY <1>1, <2>2, StepKeepsTypes DEF UploadInv
  <1>2. CASE HNext
    <2>1. TypeInv /\ TypeInv' /\ Next
      BY <1>2, StepKeepsTypes DEF HNext, UploadInv
    <2>2. ASSUME NEW r \in Request, Elsewhere(r) PROVE UploadInv'
      BY <1>2, <2>1, <2>2, ElsewhereKeepsUploads DEF UploadInv
    <2>3. ASSUME NEW r \in Uploads \cup Removals, NEW iso \in Isos, Resolve(r, iso) PROVE UploadInv'
      <3>1. r \in Request /\ Elsewhere(r)
        BY <2>1, <2>3 DEF Resolve, Elsewhere, Goto, media, Request, TypeInv
      <3>2. QED
        BY <2>2, <3>1
    <2>4. ASSUME NEW u \in Uploads, UploadSteps(u) PROVE UploadInv'
      BY <1>2, <2>1, <2>4, UploadKeepsNumbers DEF UploadInv
    <2>5. ASSUME NEW r \in Removals, Remove(r) PROVE UploadInv'
      <3>1. r \in Request
        BY DEF Request
      <3>2. file \in [Place -> {0} \cup Upload]
        BY <2>1, TypeParts DEF MediaTyped
      <3>3. Elsewhere(r)
        BY <2>1, <2>5, <3>1, <3>2, Returns DEF Remove, Elsewhere
      <3>4. QED
        BY <2>2, <3>1, <3>3
    <2>6. ASSUME NEW r \in Creations \cup Deletions,
                 (r \in Creations /\ CreateSteps(r)) \/ (r \in Deletions /\ DeleteSteps(r))
          PROVE  UploadInv'
      BY <2>1, <2>2, <2>6, PoolStepsElsewhere DEF Request
    <2>7. CASE Crash
      <3>1. /\ \A u \in Uploads : op'[u].pc = "idle"
            /\ UNCHANGED <<file, uploads>>
        BY <2>7 DEF Crash, Idle, Request
      <3>2. NumberInv'
        BY <3>1 DEF UploadInv, NumberInv, Copying
      <3>3. before' \in [Uploads -> SUBSET (0..uploads')]
        BY <1>2, <3>1, BeforeKept, UploadRange
      <3>4. UnseenInv'
        BY <3>1, <3>3 DEF UnseenInv, Copying
      <3>5. QED
        BY <2>1, <3>2, <3>4 DEF UploadInv
    <2>8. QED
      BY <2>1, <2>3, <2>4, <2>5, <2>6, <2>7 DEF Next
  <1>3. QED
    BY <1>1, <1>2

LEMMA InitUploads == HInit => UploadInv
  <1> SUFFICES ASSUME HInit PROVE NumberInv /\ UnseenInv
    BY InitTyped DEF HInit, UploadInv
  <1>1. Copying = {} /\ \A u \in Uploads : op[u].pc = "idle"
    BY DEF HInit, Init, Copying, Idle, Request
  <1>2. QED
    BY <1>1 DEF HInit, Init, NumberInv, UnseenInv

\* An image that an upload replaces was published after the upload had found
\* nothing in its place: the check is only ever too old, never absent.
THEOREM OnlyUnseenReplaced == HSpec => ReplacesOnlyUnseen
  <1>1. UploadInv /\ [HNext]_<<vars, before>> =>
          [\A u \in Uploads : op[u].pc = "copying" /\ op'[u].pc = "renamed" =>
             file[op[u].at] \notin before[u] \ {0}]_<<vars, before>>
    BY DEF UploadInv, UnseenInv
  <1>2. QED
    BY <1>1, InitUploads, StepKeepsUploads, PTL DEF HSpec, ReplacesOnlyUnseen

==============================================================================

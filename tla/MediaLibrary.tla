----------------------------- MODULE MediaLibrary -----------------------------
(***************************************************************************)
(* The ISO library (internal/iso/iso.go), the setting that remembers its   *)
(* directory (internal/settings/settings.go), and the storage pools of the *)
(* libvirt provider, one of which a request may make the library           *)
(* (handleCreateStoragePool).                                              *)
(*                                                                         *)
(* Uploads, deletions and pool requests run at the same time.  The         *)
(* library's lock covers its directory's name only: a call reads the name  *)
(* once and works in that directory until it ends.  Pools interleave at    *)
(* each libvirt call; their files are never touched.                       *)
(***************************************************************************)
EXTENDS Naturals, FiniteSets

CONSTANTS
  Dirs, IsoDir,  \* directories of the host; the configured one of the library
  Isos,          \* file names of images
  Pools,         \* names of pools
  Uploads, Removals, Creations, Deletions,  \* the concurrent requests of each kind
  MaxUploads,    \* bound: images ever uploaded
  MaxPools,      \* bound: pools ever defined
  MaxFaults,     \* bound: calls that fail without need
  MaxCrashes     \* bound: restarts of the server

None == "none"

ASSUME MediaLibraryAssumption ==
  /\ IsoDir \in Dirs /\ None \notin Dirs
  /\ {MaxUploads, MaxPools, MaxFaults, MaxCrashes} \subseteq Nat

VARIABLES
  dir,      \* Store.dir
  saved,    \* isoDir in the settings file
  file,     \* directory, file name -> the upload it holds, 0 for none
  temp,     \* uploads whose temporary file exists
  uploads,  \* uploads so far
  pool,     \* name -> the pool libvirt has
  made,     \* pools defined so far
  op,       \* request -> where it is
  littered, \* history: uploads that died with the server
  left,     \* history: pools that a request could not finish with
  unsure,   \* history: what is saved may not be what the library uses
  faults, crashes

media == <<dir, saved, file, temp, uploads>>
pools == <<pool, made>>
env == <<faults, crashes>>
vars == <<media, pools, op, littered, left, unsure, env>>

Request == Uploads \cup Removals \cup Creations \cup Deletions
Upload  == 1..MaxUploads
Place   == Dirs \X Isos

NoPool == [uuid |-> 0, active |-> FALSE]
Idle   == [pc |-> "idle"]

OpState ==
  {Idle}
    \cup [pc : {"resolved", "checked"}, at : Place]
    \cup [pc : {"copying", "renamed"}, at : Place, upload : Upload]
    \cup [pc : {"named"}, pool : Pools, path : Dirs, iso : BOOLEAN]
    \cup [pc : {"defined", "built", "undo", "started", "known", "switched"},
          pool : Pools, path : Dirs, iso : BOOLEAN, uuid : 1..MaxPools]
    \cup [pc : {"deactivate", "undefine"}, pool : Pools, uuid : 1..MaxPools]

TypeOK ==
  /\ dir \in Dirs
  /\ saved \in Dirs \cup {None}
  /\ file \in [Place -> {0} \cup Upload]
  /\ temp \subseteq Upload /\ littered \subseteq Upload
  /\ uploads \in {0} \cup Upload
  /\ pool \in [Pools -> {NoPool} \cup [uuid : 1..made, active : BOOLEAN]]
  /\ made \in 0..MaxPools
  /\ \A r \in Request : op[r] \in OpState
  /\ left \subseteq Pools
  /\ unsure \in BOOLEAN
  /\ faults \in 0..MaxFaults /\ crashes \in 0..MaxCrashes

MutBooted(d) == d

\* main: the saved directory overrides the configured one.
Booted(d) == IF d = None THEN IsoDir ELSE d

Init ==
  /\ dir = IsoDir /\ saved = None
  /\ file = [p \in Place |-> 0]
  /\ temp = {} /\ uploads = 0
  /\ pool = [p \in Pools |-> NoPool] /\ made = 0
  /\ op = [r \in Request |-> Idle]
  /\ littered = {} /\ left = {} /\ unsure = FALSE
  /\ faults = 0 /\ crashes = 0

Goto(r, o)   == op' = [op EXCEPT ![r] = o]
Moves(r, pc) == op' = [op EXCEPT ![r].pc = pc]
Return(r)    == Goto(r, Idle)

Works == UNCHANGED env
Fault == faults < MaxFaults /\ faults' = faults + 1 /\ UNCHANGED crashes

-----------------------------------------------------------------------------
(***************************************************************************)
(* Upload and deletion of an image                                         *)
(***************************************************************************)

\* The library's directory is read, for an upload or for a deletion.
Resolve(r, iso) ==
  /\ r \in Uploads \cup Removals
  /\ op[r] = Idle
  /\ Goto(r, [pc |-> "resolved", at |-> <<dir, iso>>])
  /\ UNCHANGED <<media, pools, littered, left, unsure, env>>

MutUploadCheck(u) ==
  /\ op[u].pc = "resolved"
  /\ Moves(u, "checked")
  /\ UNCHANGED <<media, pools, littered, left, unsure, env>>

\* An image of that name is refused.
UploadCheck(u) ==
  /\ op[u].pc = "resolved"
  /\ IF file[op[u].at] = 0 THEN Moves(u, "checked") ELSE Return(u)
  /\ UNCHANGED <<media, pools, littered, left, unsure, env>>

UploadTemp(u) ==
  /\ op[u].pc = "checked"
  /\ \/ /\ uploads < MaxUploads
        /\ uploads' = uploads + 1
        /\ temp' = temp \cup {uploads'}
        /\ Goto(u, [pc |-> "copying", at |-> op[u].at, upload |-> uploads'])
     \/ Return(u) /\ UNCHANGED <<uploads, temp>>
  /\ Works /\ UNCHANGED <<dir, saved, file, pools, littered, left, unsure>>

\* The copy has ended and is renamed, over whatever lies there.
UploadRename(u) ==
  /\ op[u].pc = "copying"
  /\ file' = [file EXCEPT ![op[u].at] = op[u].upload]
  /\ temp' = temp \ {op[u].upload}
  /\ Moves(u, "renamed")
  /\ UNCHANGED <<dir, saved, uploads, pools, littered, left, unsure, env>>

MutUploadFails(u) ==
  /\ op[u].pc = "copying"
  /\ Return(u)
  /\ UNCHANGED <<media, pools, littered, left, unsure, env>>

\* The client goes away, or the disk is full.
UploadFails(u) ==
  /\ op[u].pc = "copying"
  /\ temp' = temp \ {op[u].upload}
  /\ Return(u)
  /\ UNCHANGED <<dir, saved, file, uploads, pools, littered, left, unsure, env>>

\* The answer describes what lies there now, or is an error if nothing does.
UploadReturn(u) ==
  /\ op[u].pc = "renamed"
  /\ Return(u)
  /\ UNCHANGED <<media, pools, littered, left, unsure, env>>

\* A file that is not there is answered as not found.
Remove(r) ==
  /\ r \in Removals
  /\ op[r].pc = "resolved"
  /\ file' = [file EXCEPT ![op[r].at] = 0]
  /\ Return(r)
  /\ UNCHANGED <<dir, saved, temp, uploads, pools, littered, left, unsure, env>>

-----------------------------------------------------------------------------
(***************************************************************************)
(* Creation of a pool, which may become the library                        *)
(***************************************************************************)

Exists(p) == pool[p] # NoPool

\* The pool a handle was got for is still there.
Valid(r) == Exists(op[r].pool) /\ pool[op[r].pool].uuid = op[r].uuid

PoolLookup(c, p, path, iso) ==
  /\ op[c] = Idle
  /\ ~Exists(p)
  /\ Goto(c, [pc |-> "named", pool |-> p, path |-> path, iso |-> iso])
  /\ UNCHANGED <<media, pools, littered, left, unsure, env>>

\* libvirt refuses a name that is taken by now.
PoolDefine(c) ==
  /\ op[c].pc = "named"
  /\ LET p == op[c].pool IN
     IF Exists(p) THEN Return(c) /\ UNCHANGED pools
     ELSE /\ made < MaxPools
          /\ made' = made + 1
          /\ pool' = [pool EXCEPT ![p] = [uuid |-> made', active |-> FALSE]]
          /\ Goto(c, [pc |-> "defined", pool |-> p, path |-> op[c].path, iso |-> op[c].iso,
                      uuid |-> made'])
  /\ UNCHANGED <<media, littered, left, unsure, env>>

PoolBuild(c) ==
  /\ op[c].pc = "defined"
  /\ Valid(c)
  /\ Moves(c, "built")
  /\ UNCHANGED <<media, pools, littered, left, unsure, env>>

PoolStart(c) ==
  /\ op[c].pc = "built"
  /\ Valid(c) /\ ~pool[op[c].pool].active
  /\ pool' = [pool EXCEPT ![op[c].pool].active = TRUE]
  /\ left' = left \ {op[c].pool}
  /\ Moves(c, "started")
  /\ UNCHANGED <<media, made, littered, unsure, env>>

\* The directory cannot be built, or the pool not started.
PoolFails(c) ==
  /\ op[c].pc \in {"defined", "built"}
  /\ IF Valid(c) THEN Fault ELSE Works
  /\ Moves(c, "undo")
  /\ UNCHANGED <<media, pools, littered, left, unsure>>

\* libvirt undefines what is not active.
Undefine(p) == pool' = [pool EXCEPT ![p] = NoPool] /\ left' = left \ {p} /\ UNCHANGED made
CanUndefine(r) == Valid(r) /\ ~pool[op[r].pool].active

\* The definition is taken back, at best.
PoolUndo(c) ==
  /\ op[c].pc = "undo"
  /\ \/ CanUndefine(c) /\ Undefine(op[c].pool) /\ Works
     \/ CanUndefine(c) /\ left' = left \cup {op[c].pool} /\ Fault /\ UNCHANGED pools
     \/ ~CanUndefine(c) /\ Works /\ UNCHANGED <<pools, left>>
  /\ Return(c)
  /\ UNCHANGED <<media, littered, unsure>>

\* The pool is looked up again for the answer; one that is gone by now is an
\* error, and only a pool that is there becomes the library.
PoolRead(c) ==
  /\ op[c].pc = "started"
  /\ IF Exists(op[c].pool) /\ op[c].iso THEN Moves(c, "known") ELSE Return(c)
  /\ UNCHANGED <<media, pools, littered, left, unsure, env>>

Switched == {c \in Creations : op[c].pc = "switched"}

\* SetDir: the directory is made if need be, and becomes the library.
SetDir(c) ==
  /\ op[c].pc = "known"
  /\ \/ /\ dir' = op[c].path
        /\ unsure' = (unsure \/ Switched # {})
        /\ Moves(c, "switched")
        /\ Works
     \/ Return(c) /\ Fault /\ UNCHANGED <<dir, unsure>>
  /\ UNCHANGED <<saved, file, temp, uploads, pools, littered, left>>

MutSaves(d) == IF saved = None THEN d ELSE saved

\* SetIsoDir writes a temporary file and renames it.
Saves(d) == d

\* The directory is saved; a failure is logged.
SetIsoDir(c) ==
  /\ op[c].pc = "switched"
  /\ \/ saved' = Saves(op[c].path) /\ Works /\ UNCHANGED unsure
     \/ unsure' = TRUE /\ Fault /\ UNCHANGED saved
  /\ Return(c)
  /\ UNCHANGED <<dir, file, temp, uploads, pools, littered, left>>

-----------------------------------------------------------------------------
(***************************************************************************)
(* Deletion of a pool                                                      *)
(***************************************************************************)

DeleteLookup(d, p) ==
  /\ op[d] = Idle
  /\ Exists(p)
  /\ Goto(d, [pc |-> IF pool[p].active THEN "deactivate" ELSE "undefine",
              pool |-> p, uuid |-> pool[p].uuid])
  /\ UNCHANGED <<media, pools, littered, left, unsure, env>>

Deactivate(d) ==
  /\ op[d].pc = "deactivate"
  /\ LET p == op[d].pool
         able == Valid(d) /\ pool[p].active
     IN  \/ able /\ pool' = [pool EXCEPT ![p].active = FALSE] /\ Moves(d, "undefine") /\ Works
         \/ able /\ Return(d) /\ Fault /\ UNCHANGED pool
         \/ ~able /\ Return(d) /\ Works /\ UNCHANGED pool
  /\ UNCHANGED <<media, made, littered, left, unsure>>

\* A pool that could not be undefined stays, inactive.
DeleteUndefine(d) ==
  /\ op[d].pc = "undefine"
  /\ \/ CanUndefine(d) /\ Undefine(op[d].pool) /\ Works
     \/ CanUndefine(d) /\ left' = left \cup {op[d].pool} /\ Fault /\ UNCHANGED pools
     \/ ~CanUndefine(d) /\ Works /\ UNCHANGED <<pools, left>>
  /\ Return(d)
  /\ UNCHANGED <<media, littered, unsure>>

-----------------------------------------------------------------------------
\* The server dies with its requests and starts again.
Crash ==
  /\ crashes < MaxCrashes
  /\ crashes' = crashes + 1
  /\ dir' = Booted(saved)
  /\ unsure' = FALSE
  /\ littered' = littered \cup temp
  /\ left' = left \cup {op[r].pool : r \in {x \in Creations \cup Deletions :
                          op[x].pc \in {"defined", "built", "undo", "undefine"} /\ Valid(x)}}
  /\ op' = [r \in Request |-> Idle]
  /\ UNCHANGED <<saved, file, temp, uploads, pools, faults>>

UploadSteps(u) ==
  UploadCheck(u) \/ UploadTemp(u) \/ UploadRename(u) \/ UploadFails(u) \/ UploadReturn(u)

CreateSteps(c) ==
  \/ \E p \in Pools, path \in Dirs, iso \in BOOLEAN : PoolLookup(c, p, path, iso)
  \/ PoolDefine(c) \/ PoolBuild(c) \/ PoolStart(c) \/ PoolFails(c) \/ PoolUndo(c)
  \/ PoolRead(c) \/ SetDir(c) \/ SetIsoDir(c)

DeleteSteps(d) == (\E p \in Pools : DeleteLookup(d, p)) \/ Deactivate(d) \/ DeleteUndefine(d)

Next ==
  \/ \E r \in Uploads \cup Removals, iso \in Isos : Resolve(r, iso)
  \/ \E u \in Uploads : UploadSteps(u)
  \/ \E r \in Removals : Remove(r)
  \/ \E c \in Creations : CreateSteps(c)
  \/ \E d \in Deletions : DeleteSteps(d)
  \/ Crash

Spec == Init /\ [][Next]_vars

-----------------------------------------------------------------------------
(***************************************************************************)
(* Properties                                                              *)
(***************************************************************************)

\* "choices made through the API survive backend restarts": when no creation is
\* between switching the library and saving that, a restart would open the same
\* library, unless a save failed or two creations switched it at once.
LibrarySurvivesRestart == ~unsure /\ Switched = {} => Booted(saved) = dir

\* A temporary file belongs to an upload in progress or died with the server:
\* every way an upload can fail removes it.
NoTempLeft ==
  \A t \in temp \ littered : \E u \in Uploads : op[u].pc = "copying" /\ op[u].upload = t

\* A pool that lies there inactive while no request is at work on it is one that
\* libvirt refused to undefine, or whose request died with the server: a
\* creation that fails half-way leaves nothing, whatever deletions and other
\* creations of the name did meanwhile.
PoolsFinished ==
  \A p \in Pools \ left : Exists(p) /\ ~pool[p].active =>
    \E r \in Creations \cup Deletions : op[r].pc # "idle" /\ op[r].pool = p

\* Whatever fails half-way, an upload's copy or a pool's creation, leaves nothing
\* unfinished behind.
NothingUnfinished == NoTempLeft /\ PoolsFinished

\* "ErrAlreadyExists is returned when uploading over an existing filename": no
\* upload replaces an image.
UploadsReplaceNothing ==
  [][\A p \in Place : file[p] # 0 => file'[p] \in {0, file[p]}]_vars

\* The library a request left in place is the one whose upload it acknowledges.
UploadsAreListed ==
  [][\A u \in Uploads : UploadReturn(u) => op[u].at[1] = dir]_vars

=============================================================================

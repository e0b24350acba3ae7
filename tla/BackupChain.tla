---------------------------- MODULE BackupChain ----------------------------
(***************************************************************************)
(* Backups of one virtual machine: the on-disk library                     *)
(* (internal/backup/backup.go), the libvirt provider's backup, delete and  *)
(* restore operations (internal/hypervisor/libvirt/backup.go) and the      *)
(* retention pass of the scheduler (internal/scheduler/scheduler.go).      *)
(*                                                                         *)
(* Nothing in the code excludes these operations from each other: each     *)
(* call is an operation of its own, its steps are the moments at which it  *)
(* reads or changes the library or the domain, and any other call, a power *)
(* change of the machine or a crash of the server may come between them.   *)
(*                                                                         *)
(* Points are numbered in the order of their createdAt, which is taken     *)
(* when a backup starts.  A checkpoint is known by its point.  libvirt and *)
(* QEMU are modelled from how the provider uses them: one backup job at a  *)
(* time per domain, a checkpoint that lives as long as its bitmap is in    *)
(* every disk image, and a job whose failure shows only in its images.     *)
(***************************************************************************)
EXTENDS Naturals, FiniteSets, FiniteSetsExt

CONSTANTS
  MaxPoints,     \* bound: backup points ever started
  MaxPower,      \* bound: power changes of the machine
  MaxCrashes,    \* bound: crashes of the server
  MaxFaults,     \* bound: removals of a directory that fail
  NumDisks,      \* disks of the machine
  KeepLast,      \* the schedule's retentionKeepLast
  Requests,      \* requested backup types
  Backups, Deletes, Prunes, Restores   \* the concurrent calls of each kind

ASSUME BackupChainAssumption ==
  /\ {MaxPoints, NumDisks, KeepLast} \subseteq Nat \ {0}
  /\ {MaxPower, MaxCrashes, MaxFaults} \subseteq Nat
  /\ Requests \subseteq {"auto", "full", "incremental"}
  /\ IsFiniteSet(Backups)

VARIABLES
  made,         \* number of points started so far
  phase,        \* point -> its directory and metadata.json on disk
  parent,       \* point -> the point it continues from, 0 for a full
  anchored,     \* points whose metadata names a checkpoint
  image,        \* point -> the disk images in its directory
  vm,           \* the domain
  checkpoints,  \* points whose checkpoint libvirt has for the domain
  bitmaps,      \* disk -> points whose bitmap is in the image at its path
  detached,     \* disks replaced at their path while the machine ran
  content,      \* disk -> the point it was last restored from, 0 for none
  job,          \* the point of the running backup job, 0 for none
  op,           \* call -> where it is
  stale,        \* checkpoints left behind that need not have a bitmap on every disk
  power, crashes, faults  \* counters of the bounded environment

lib == <<made, phase, parent, anchored, image>>
dom == <<vm, checkpoints, bitmaps, detached, content, job>>
env == <<power, crashes, faults>>
vars == <<lib, dom, op, stale, env>>

Point == 1..MaxPoints
Disk  == 1..NumDisks
Call  == Backups \cup Deletes \cup Prunes \cup Restores

\* "removing": metadata.json is gone, the rest of the directory is not.
Phase == {"none", "writing", "complete", "removing", "deleted", "aborted", "leaked"}

Idle == [pc |-> "idle", point |-> 0, parent |-> 0, todo |-> {}]

OpState ==
  [pc : {"idle", "decided", "created", "polling", "verifying", "copying", "done",
         "picking", "removing", "emptying", "dropping", "restoring", "redefining"},
   point : 0..MaxPoints, parent : 0..MaxPoints, todo : SUBSET (Point \cup Disk)]

LibTypeOK ==
  /\ made \in 0..MaxPoints
  /\ phase \in [Point -> Phase]
  /\ parent \in [Point -> 0..MaxPoints]
  /\ anchored \subseteq Point
  /\ image \in [Point -> {"none", "partial", "whole", "removed"}]

DomTypeOK ==
  /\ vm \in {"running", "stopped", "absent"}
  /\ checkpoints \subseteq Point
  /\ bitmaps \in [Disk -> SUBSET Point]
  /\ detached \subseteq Disk
  /\ content \in [Disk -> 0..MaxPoints]
  /\ job \in 0..MaxPoints

EnvTypeOK == power \in 0..MaxPower /\ crashes \in 0..MaxCrashes /\ faults \in 0..MaxFaults

TypeOK == LibTypeOK /\ DomTypeOK /\ op \in [Call -> OpState] /\ stale \subseteq Point /\ EnvTypeOK

Init ==
  /\ made = 0
  /\ phase = [p \in Point |-> "none"]
  /\ parent = [p \in Point |-> 0]
  /\ anchored = {}
  /\ image = [p \in Point |-> "none"]
  /\ vm \in {"running", "stopped"}
  /\ checkpoints = {}
  /\ bitmaps = [d \in Disk |-> {}]
  /\ detached = {}
  /\ content = [d \in Disk |-> 0]
  /\ job = 0
  /\ op = [o \in Call |-> Idle]
  /\ stale = {}
  /\ power = 0 /\ crashes = 0 /\ faults = 0

-----------------------------------------------------------------------------
(***************************************************************************)
(* Reading the library                                                     *)
(***************************************************************************)

MutListed == {p \in Point : phase[p] \in {"writing", "complete"}}

\* Store.List: the points whose metadata.json says complete.
Listed == {p \in Point : phase[p] = "complete"}

\* The first entry of the list, newest first.
Newest == IF Listed = {} THEN 0 ELSE Max(Listed)

\* A point and its ancestors, by the parent recorded in the metadata.
Chain(p) ==
  LET up[n \in 0..MaxPoints] == IF n = 0 THEN {} ELSE {n} \cup up[parent[n]]
  IN  up[p]

\* restoreChain finds every ancestor.
ChainListed(p) == Chain(p) \subseteq Listed

\* backupChainParent: the newest point, if it has a checkpoint that the domain
\* still has.
Anchor == IF Newest \in anchored \cap checkpoints THEN Newest ELSE 0

\* A call moves on, or returns.
Step(o, pc)  == op' = [op EXCEPT ![o].pc = pc]
Return(o)    == op' = [op EXCEPT ![o] = Idle]

-----------------------------------------------------------------------------
(***************************************************************************)
(* BackupVirtualMachine                                                    *)
(***************************************************************************)

\* backupChainParent: an explicit full has no parent, an explicit incremental
\* fails without an anchor, auto takes the anchor if there is one.
BackupDecide(b, request) ==
  /\ op[b].pc = "idle"
  /\ made + Cardinality({c \in Backups : op[c].pc = "decided"}) < MaxPoints
  /\ vm # "absent"
  /\ request = "incremental" => Anchor # 0
  /\ op' = [op EXCEPT ![b].pc = "decided",
                      ![b].parent = IF request = "full" THEN 0 ELSE Anchor]
  /\ UNCHANGED <<lib, dom, stale, env>>

\* The domain's state is read and the point's directory created: an offline
\* copy is always a full without a checkpoint.
BackupCreate(b) ==
  /\ op[b].pc = "decided"
  /\ LET p == made + 1
         offline == vm = "stopped"
     IN  /\ made' = p
         /\ phase' = [phase EXCEPT ![p] = "writing"]
         /\ parent' = [parent EXCEPT ![p] = IF offline THEN 0 ELSE op[b].parent]
         /\ anchored' = IF offline THEN anchored ELSE anchored \cup {p}
         /\ op' = [op EXCEPT ![b].pc = IF offline THEN "copying" ELSE "created",
                             ![b].point = p]
  /\ UNCHANGED <<image, dom, stale, env>>

\* What libvirt needs to start a job that continues from point q.
CanContinueFrom(q) ==
  q = 0 \/ (q \in checkpoints /\ \A d \in Disk : d \in detached \/ q \in bitmaps[d])

\* BackupBegin succeeds: the job and the checkpoint of the point exist at once.
\* A disk that was replaced under the running machine gets no bitmap at its path.
JobBegin(b) ==
  /\ op[b].pc = "created"
  /\ vm = "running"
  /\ job = 0
  /\ CanContinueFrom(op[b].parent)
  /\ job' = op[b].point
  /\ checkpoints' = checkpoints \cup {op[b].point}
  /\ bitmaps' = [d \in Disk |-> IF d \in detached THEN bitmaps[d]
                                ELSE bitmaps[d] \cup {op[b].point}]
  /\ stale' = IF detached = {} THEN stale ELSE stale \cup {op[b].point}
  /\ Step(b, "polling")
  /\ UNCHANGED <<lib, vm, detached, content, env>>

\* The running job, if any, stops with its images in the given condition.
JobStops(result) ==
  /\ job' = 0
  /\ image' = IF job = 0 THEN image ELSE [image EXCEPT ![job] = result]

\* The job ends by itself: all copied, failed midway, or failed at once.
JobEnds(result) ==
  /\ job # 0
  /\ JobStops(result)
  /\ UNCHANGED <<made, phase, parent, anchored, vm, checkpoints, bitmaps, detached, content,
                 op, stale, env>>

MutBackupPoll(b) ==
  /\ op[b].pc = "polling"
  /\ job = 0 /\ image[op[b].point] = "whole"
  /\ Step(b, "verifying")
  /\ UNCHANGED <<lib, dom, stale, env>>

\* The poll sees no job, whosever job it was.
BackupPoll(b) ==
  /\ op[b].pc = "polling"
  /\ job = 0
  /\ Step(b, "verifying")
  /\ UNCHANGED <<lib, dom, stale, env>>

MutAbort(p) == phase' = [phase EXCEPT ![p] = "failed"]

\* Point.Abort: a failed point's directory is removed.
Abort(p) == phase' = [phase EXCEPT ![p] = "aborted"]

\* The poll sees its context cancelled: the domain's job is aborted, whoever's
\* it is, and the point's directory removed.
BackupCancel(b) ==
  /\ op[b].pc = "polling"
  /\ JobStops("partial")
  /\ Abort(op[b].point)
  /\ Return(b)
  /\ UNCHANGED <<made, parent, anchored, vm, checkpoints, bitmaps, detached, content, stale, env>>

\* Any call to libvirt or the file system fails before the point is complete.
BackupFails(b) ==
  /\ op[b].pc \in {"created", "polling", "verifying", "copying"}
  /\ Abort(op[b].point)
  /\ Return(b)
  /\ UNCHANGED <<made, parent, anchored, image, dom, stale, env>>

MutImagesThere(p) == TRUE

\* The check on a finished job: every image exists and is not empty.
ImagesThere(p) == image[p] \notin {"none", "removed"}

\* The point becomes visible: metadata.json is written last.
Complete(b) ==
  /\ phase' = [phase EXCEPT ![op[b].point] = "complete"]
  /\ Step(b, "done")

BackupFinish(b) ==
  /\ op[b].pc = "verifying"
  /\ ImagesThere(op[b].point)
  /\ Complete(b)
  /\ UNCHANGED <<made, parent, anchored, image, dom, stale, env>>

\* The download of every disk of a stopped machine has ended.
OfflineFinish(b) ==
  /\ op[b].pc = "copying"
  /\ image' = [image EXCEPT ![op[b].point] = IF @ = "partial" THEN @ ELSE "whole"]
  /\ Complete(b)
  /\ UNCHANGED <<made, parent, anchored, dom, stale, env>>

\* The call returns the newest listed point.
BackupReturn(b) ==
  /\ op[b].pc = "done"
  /\ Return(b)
  /\ UNCHANGED <<lib, dom, stale, env>>

-----------------------------------------------------------------------------
(***************************************************************************)
(* DeleteBackup, by itself or once for each point retention drops          *)
(***************************************************************************)

DeleteBegin(c, p) ==
  /\ op[c].pc = "idle"
  /\ op' = [op EXCEPT ![c].pc = "picking", ![c].todo = {p}]
  /\ UNCHANGED <<lib, dom, stale, env>>

MutExpired(points) ==
  {p \in points : Cardinality({q \in points : q > p}) >= KeepLast}

\* What retention drops: the points older than the KeepLast-th newest full.
Expired(points) ==
  {p \in points : Cardinality({q \in points : q > p /\ parent[q] = 0}) >= KeepLast}

\* prune lists the points of the machine and works through its list.
PruneBegin(c) ==
  /\ op[c].pc = "idle"
  /\ vm # "absent"
  /\ op' = [op EXCEPT ![c].pc = "picking", ![c].todo = Expired(Listed)]
  /\ UNCHANGED <<lib, dom, stale, env>>

MutNextDropped(points) == Min(points)

\* The list is newest first, and so is the deletion.
NextDropped(points) == Max(points)

\* DeleteBackup looks the next point up; one that is gone is skipped.
DeletePick(c) ==
  /\ op[c].pc = "picking"
  /\ IF op[c].todo = {} THEN Return(c)
     ELSE LET p == NextDropped(op[c].todo) IN
          op' = [op EXCEPT ![c].todo = @ \ {p}, ![c].point = p,
                           ![c].pc = IF p \in Listed THEN "removing" ELSE "picking"]
  /\ UNCHANGED <<lib, dom, stale, env>>

\* RemoveAll starts on a directory whose metadata is still there, in either
\* order: the images are gone first, or the metadata is.
DeleteEmpty(c) ==
  /\ op[c].pc = "removing"
  /\ LET p == op[c].point IN
       IF phase[p] # "complete" THEN Step(c, "picking") /\ UNCHANGED <<phase, image>>
       ELSE /\ Step(c, "emptying")
            /\ \/ image' = [image EXCEPT ![p] = "removed"] /\ UNCHANGED phase
               \/ phase' = [phase EXCEPT ![p] = "removing"] /\ UNCHANGED image
  /\ UNCHANGED <<made, parent, anchored, dom, stale, env>>

\* RemoveAll ends.
DeleteDone(c) ==
  /\ op[c].pc = "emptying"
  /\ phase' = [phase EXCEPT ![op[c].point] = "deleted"]
  /\ image' = [image EXCEPT ![op[c].point] = "removed"]
  /\ Step(c, IF op[c].point \in anchored THEN "dropping" ELSE "picking")
  /\ UNCHANGED <<made, parent, anchored, dom, stale, env>>

\* RemoveAll fails on some file: what is gone is gone, and the checkpoint stays.
DeleteFails(c) ==
  /\ op[c].pc = "emptying" /\ faults < MaxFaults
  /\ faults' = faults + 1
  /\ Step(c, "picking")
  /\ UNCHANGED <<lib, dom, stale, power, crashes>>

\* The point's checkpoint is dropped from the domain, if that works.
DropCheckpoint(c) ==
  /\ op[c].pc = "dropping"
  /\ \/ /\ checkpoints' = checkpoints \ {op[c].point}
        /\ bitmaps' = [d \in Disk |-> bitmaps[d] \ {op[c].point}]
     \/ UNCHANGED <<checkpoints, bitmaps>>
  /\ Step(c, "picking")
  /\ UNCHANGED <<lib, vm, detached, content, job, stale, env>>

-----------------------------------------------------------------------------
(***************************************************************************)
(* RestoreBackup                                                           *)
(***************************************************************************)

\* Offline copies that read the disks while they change may be torn.
CopiesDisturbed ==
  \E copies \in SUBSET {op[b].point : b \in {c \in Backups : op[c].pc = "copying"}} :
    image' = [p \in Point |-> IF p \in copies THEN "partial" ELSE image[p]]

\* Everything is checked once, before the first disk is replaced.
RestoreBegin(r, p) ==
  /\ op[r].pc = "idle"
  /\ p \in Listed
  /\ vm = "stopped"
  /\ ChainListed(p)
  /\ op' = [op EXCEPT ![r].pc = "restoring", ![r].point = p, ![r].todo = Disk]
  /\ UNCHANGED <<lib, dom, stale, env>>

\* restoreDiskChain: the chain is materialised beside the volume and renamed
\* over it.  The new file has no bitmaps.
RestoreDisk(r) ==
  /\ op[r].pc = "restoring"
  /\ op[r].todo # {}
  /\ \A q \in Chain(op[r].point) : q \in Listed /\ ImagesThere(q)
  /\ LET d == Min(op[r].todo) IN
       /\ content' = [content EXCEPT ![d] = op[r].point]
       /\ bitmaps' = [bitmaps EXCEPT ![d] = {}]
       /\ detached' = IF vm = "running" THEN detached \cup {d} ELSE detached
       /\ op' = [op EXCEPT ![r].todo = @ \ {d}]
  /\ CopiesDisturbed
  /\ UNCHANGED <<made, phase, parent, anchored, vm, checkpoints, job, stale, env>>

MutRestoreFails(r) ==
  /\ op[r].pc = "restoring"
  /\ op[r].todo # {}
  /\ op' = [op EXCEPT ![r].todo = @ \ {Min(@)}]
  /\ UNCHANGED <<lib, dom, stale, env>>

\* A disk cannot be restored, or the task is cancelled: the disks restored so
\* far stay replaced and the checkpoints stay.
RestoreFails(r) ==
  /\ op[r].pc = "restoring"
  /\ op[r].todo # {}
  /\ Return(r)
  /\ stale' = IF op[r].todo = Disk THEN stale ELSE stale \cup checkpoints
  /\ UNCHANGED <<lib, dom, env>>

MutDropCheckpoints == UNCHANGED <<checkpoints, bitmaps, stale>>

\* deleteUltravCheckpoints: nobody hears of a listing or a deletion that fails.
DropCheckpoints ==
  \E kept \in SUBSET checkpoints :
    /\ checkpoints' = kept
    /\ bitmaps' = [d \in Disk |-> bitmaps[d] \cap kept]
    /\ stale' = kept

\* All disks are restored: the checkpoints are dropped, as far as that works.
RestoreDrop(r) ==
  /\ op[r].pc = "restoring"
  /\ op[r].todo = {}
  /\ DropCheckpoints
  /\ Step(r, "redefining")
  /\ UNCHANGED <<lib, vm, detached, content, job, env>>

\* The domain is undefined and defined again from the saved configuration; a
\* define that fails is logged, and the domain is gone.
RestoreRedefine(r) ==
  /\ op[r].pc = "redefining"
  /\ vm' \in {vm, "absent"}
  /\ Return(r)
  /\ UNCHANGED <<lib, checkpoints, bitmaps, detached, content, job, stale, env>>

-----------------------------------------------------------------------------
(***************************************************************************)
(* The machine and the server                                              *)
(***************************************************************************)

\* A started machine writes to the disks an offline copy is still reading.
PowerOn ==
  /\ vm = "stopped" /\ power < MaxPower
  /\ vm' = "running" /\ power' = power + 1
  /\ CopiesDisturbed
  /\ UNCHANGED <<made, phase, parent, anchored, checkpoints, bitmaps, detached, content, job,
                 op, stale, crashes, faults>>

\* A stopped machine takes its backup job with it.
PowerOff ==
  /\ vm = "running" /\ power < MaxPower
  /\ vm' = "stopped" /\ power' = power + 1
  /\ JobStops("partial")
  /\ detached' = {}
  /\ UNCHANGED <<made, phase, parent, anchored, checkpoints, bitmaps, content, op, stale,
                 crashes, faults>>

\* The server dies with its calls; directories being written stay behind, and
\* libvirt finishes the job it has.
Crash ==
  /\ crashes < MaxCrashes
  /\ crashes' = crashes + 1
  /\ op' = [o \in Call |-> Idle]
  /\ stale' = IF \E r \in Restores : op[r].pc = "restoring" /\ op[r].todo # Disk
               THEN stale \cup checkpoints ELSE stale
  /\ phase' = [p \in Point |-> IF phase[p] = "writing" THEN "leaked" ELSE phase[p]]
  /\ UNCHANGED <<made, parent, anchored, image, dom, power, faults>>

-----------------------------------------------------------------------------
BackupSteps(b) ==
  \/ BackupCreate(b) \/ JobBegin(b) \/ BackupPoll(b) \/ BackupCancel(b) \/ BackupFails(b)
  \/ BackupFinish(b) \/ OfflineFinish(b) \/ BackupReturn(b)

DeleteSteps(c) ==
  DeletePick(c) \/ DeleteEmpty(c) \/ DeleteDone(c) \/ DeleteFails(c) \/ DropCheckpoint(c)

RestoreSteps(r) == RestoreDisk(r) \/ RestoreFails(r) \/ RestoreDrop(r) \/ RestoreRedefine(r)

Next ==
  \/ \E b \in Backups : BackupSteps(b) \/ \E q \in Requests : BackupDecide(b, q)
  \/ \E c \in Deletes : \E p \in Listed : DeleteBegin(c, p)
  \/ \E c \in Prunes : PruneBegin(c)
  \/ \E c \in Deletes \cup Prunes : DeleteSteps(c)
  \/ \E r \in Restores : RestoreSteps(r) \/ \E p \in Point : RestoreBegin(r, p)
  \/ \E result \in {"whole", "partial", "none"} : JobEnds(result)
  \/ PowerOn \/ PowerOff \/ Crash

Spec == Init /\ [][Next]_vars

\* What a call does of its own accord: cancellation and the failure of a
\* running job come from outside, everything else follows from its last step.
Progress(o) ==
  \/ BackupCreate(o) \/ JobBegin(o) \/ BackupPoll(o) \/ BackupFinish(o)
  \/ OfflineFinish(o) \/ BackupReturn(o)
  \/ op[o].pc # "polling" /\ BackupFails(o)
  \/ DeleteSteps(o) \/ RestoreSteps(o)

\* Calls run in goroutines that the Go scheduler does not starve, and a libvirt
\* backup job ends.
Fairness ==
  /\ \A o \in Call : WF_vars(Progress(o))
  /\ WF_vars(\E result \in {"whole", "partial", "none"} : JobEnds(result))

FairSpec == Spec /\ Fairness

-----------------------------------------------------------------------------
(***************************************************************************)
(* Properties                                                              *)
(***************************************************************************)

\* Every listed point can be traced to a full that is listed too: retention
\* (prune) never takes an ancestor from under a point it keeps, whatever it has
\* done when the server dies.
ListedChainsUnbroken == \A p \in Listed : ChainListed(p)

\* A point is only listed if its job or copy produced images: a job that failed
\* at once leaves nothing behind that looks like a backup (BackupOnline's check).
ListedImagesMade == \A p \in Listed : image[p] # "none"

\* The anchor the next automatic backup would continue from is usable: its
\* bitmap is on every disk, because a restore that replaces disks drops the
\* checkpoints (RestoreBackup).  The exceptions are single checkpoints, not what
\* comes after them: those a restore left because it stopped half-way or libvirt
\* refused to drop them, and one made while the machine ran on replaced disks.
AnchorUsable ==
  Anchor \notin {0} \cup stale /\ (\A r \in Restores : op[r].pc # "restoring") =>
    \A d \in Disk : Anchor \in bitmaps[d]

\* What the catalogue of points shows of the directories.
PointState ==
  [p \in Point |-> CASE p \in Listed -> "visible"
                     [] phase[p] \in {"removing", "deleted"} -> "withdrawn"
                     [] OTHER -> "absent"]

PointOrigin == [p \in Point |-> IF PointState[p] = "absent" THEN 0 ELSE parent[p]]

\* The library is a catalogue: points appear once, whole, after the point they
\* continue from, never change, and once withdrawn never come back.
Catalog == INSTANCE BackupCatalog WITH state <- PointState, origin <- PointOrigin

ImplementsCatalog == Catalog!Spec

\* Every backup, delete, retention pass and restore returns in the end, also a
\* backup that polls a job which is another's, as long as the machine's backups
\* are finitely many (MaxPoints).
CallsReturn == \A o \in Call : []<>(op[o].pc = "idle")

-----------------------------------------------------------------------------
(***************************************************************************)
(* What documents and comments say, and the code does not do               *)
(***************************************************************************)

\* A listed point still has its images unless it is being deleted.
ListedImagesKept ==
  \A p \in Listed : image[p] = "removed" =>
    \E c \in Deletes \cup Prunes : op[c].pc = "emptying" /\ op[c].point = p

\* A failed or interrupted backup job is never listed as a point.
OnlineCopiesWhole == \A p \in Listed \cap anchored : image[p] # "partial"

\* The copy of a stopped machine is consistent.
OfflineCopiesConsistent == \A p \in Listed \ anchored : image[p] # "partial"

\* A restore only replaces disks of a stopped machine.
RestoreLeavesRunningAlone == detached = {}

\* After a restore has replaced a disk and returned, no checkpoint remains that
\* the disk has no bitmap for.
NoStaleCheckpoints ==
  (\A r \in Restores : op[r].pc = "idle") =>
    \A d \in Disk \ detached : checkpoints \subseteq bitmaps[d]

\* A restore overwrites the disks with the images of its point.
RestoredWhole ==
  \A r \in Restores : op[r].pc = "redefining" => \A d \in Disk : content[d] = op[r].point

\* A failed redefinition is not fatal to the machine.
RestoreKeepsDomain == vm # "absent"

\* A backup call returns the point it made.
ReturnsOwnPoint == [][\A b \in Backups : BackupReturn(b) => Newest = op[b].point]_vars

=============================================================================

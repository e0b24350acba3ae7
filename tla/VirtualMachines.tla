--------------------------- MODULE VirtualMachines ---------------------------
(***************************************************************************)
(* Virtual machines over libvirt (internal/hypervisor/libvirt/vms.go and   *)
(* update.go): creation, deletion, power and configuration changes.        *)
(*                                                                         *)
(* withConn hands every request the shared connection and holds no lock    *)
(* while it is used, so the requests interleave at each libvirt call.  A   *)
(* request looks a domain up by name and keeps a handle to its UUID.       *)
(* Reads that follow each other without a write between them are one step, *)
(* and a request that is refused before it changed anything is no step.    *)
(***************************************************************************)
EXTENDS Naturals, FiniteSets

CONSTANTS
  Names,       \* names of virtual machines
  Formats,     \* disk formats; a volume is called <name>.<format>
  MaxDomains,  \* bound: domains ever defined
  Changes,     \* what updates ask for
  Creates, Deletes, Updates  \* the concurrent requests of each kind

VARIABLES
  dom,      \* UUID -> domain
  vols,     \* the volumes that exist
  made,     \* domains defined so far
  op,       \* request -> where it is
  left,     \* history: volumes that a request left behind
  revived   \* history: domains defined again after they were gone

vars == <<dom, vols, made, op, left, revived>>

Uuid    == 1..MaxDomains
Volume  == Names \X Formats
Request == Creates \cup Deletes \cup Updates

\* The persistent configuration: whether vCPUs, memory or network were changed,
\* whether media are attached, and the boot order: of the domain, or per device.
Config == [settings : BOOLEAN, media : BOOLEAN, boot : {"hd", "cdrom", "device"}]

\* stateToModel: running or blocked, paused or suspended, stopped or crashed.
Power == {"running", "paused", "stopped"}

Domain == [vol : Volume, defined : BOOLEAN, power : Power, cfg : Config]
NoDomain == [defined |-> FALSE, power |-> "stopped"]

\* What an update asks for; an empty isoId detaches.
Change == [settings : BOOLEAN, iso : {"keep", "attach", "detach"}]

ASSUME VirtualMachinesAssumption == MaxDomains \in Nat \ {0} /\ Changes \subseteq Change

Idle == [pc |-> "idle"]

OpState ==
  {Idle}
    \cup [pc : {"named", "volume", "cleanup"}, vol : Volume]
    \cup [pc : {"defined"}, uuid : Uuid]
    \cup [pc : {"checked", "undefined"}, uuid : Uuid, disks : BOOLEAN]
    \cup [pc : {"settings", "media", "attach", "order"}, uuid : Uuid, req : Changes]
    \cup [pc : {"define"}, uuid : Uuid, copy : Config]

TypeOK ==
  /\ \A u \in Uuid : dom[u] \in Domain \cup {NoDomain}
  /\ vols \subseteq Volume /\ left \subseteq Volume
  /\ made \in 0..MaxDomains
  /\ \A r \in Request : op[r] \in OpState
  /\ revived \subseteq Uuid

Init ==
  /\ dom = [u \in Uuid |-> NoDomain]
  /\ vols = {} /\ made = 0
  /\ op = [r \in Request |-> Idle]
  /\ left = {} /\ revived = {}

-----------------------------------------------------------------------------
(***************************************************************************)
(* libvirt                                                                 *)
(***************************************************************************)

\* A domain exists while it is defined or active; active only, it is transient
\* and gone when it stops.
Exists(u) == dom[u].defined \/ dom[u].power # "stopped"

Called(name) == {u \in Uuid : Exists(u) /\ dom[u].vol[1] = name}

Done(r) == op' = [op EXCEPT ![r] = Idle]

SetDom(u, f, v) == dom' = [dom EXCEPT ![u][f] = v]

-----------------------------------------------------------------------------
(***************************************************************************)
(* CreateVirtualMachine                                                    *)
(***************************************************************************)

\* No domain has the name; the pool exists and has the space.
CreateLookup(c, v) ==
  /\ op[c] = Idle
  /\ made < MaxDomains
  /\ Called(v[1]) = {}
  /\ op' = [op EXCEPT ![c] = [pc |-> "named", vol |-> v]]
  /\ UNCHANGED <<dom, vols, made, left, revived>>

MutCreateVolume(c) ==
  /\ op[c].pc = "named"
  /\ vols' = vols \cup {op[c].vol} /\ op' = [op EXCEPT ![c].pc = "volume"]
  /\ UNCHANGED <<dom, made, left, revived>>

\* A volume of that name may exist, left behind or just made by another request.
CreateVolume(c) ==
  /\ op[c].pc = "named"
  /\ IF op[c].vol \in vols
     THEN Done(c) /\ UNCHANGED vols
     ELSE vols' = vols \cup {op[c].vol} /\ op' = [op EXCEPT ![c].pc = "volume"]
  /\ UNCHANGED <<dom, made, left, revived>>

\* The network or an ISO does not exist: the volume stays.
CreateRejected(c) ==
  /\ op[c].pc = "volume"
  /\ Done(c)
  /\ left' = left \cup {op[c].vol}
  /\ UNCHANGED <<dom, vols, made, revived>>

\* The XML carries no UUID, so libvirt refuses it when the name is taken by now.
CreateDefine(c) ==
  /\ op[c].pc = "volume"
  /\ made < MaxDomains
  /\ Called(op[c].vol[1]) = {}
  /\ made' = made + 1
  /\ \E boot \in {"hd", "device"} :
       dom' = [dom EXCEPT ![made + 1] =
                 [vol |-> op[c].vol, defined |-> TRUE, power |-> "stopped",
                  cfg |-> [settings |-> FALSE, media |-> boot = "device", boot |-> boot]]]
  /\ op' = [op EXCEPT ![c] = [pc |-> "defined", uuid |-> made + 1]]
  /\ UNCHANGED <<vols, left, revived>>

MutDefineRefused(c) ==
  /\ op[c].pc = "volume"
  /\ Done(c)
  /\ UNCHANGED <<dom, vols, made, left, revived>>

DefineRefused(c) ==
  /\ op[c].pc = "volume"
  /\ op' = [op EXCEPT ![c].pc = "cleanup"]
  /\ UNCHANGED <<dom, vols, made, left, revived>>

\* The volume just allocated is deleted, at best.
CreateCleanup(c) ==
  /\ op[c].pc = "cleanup"
  /\ \/ vols' = vols \ {op[c].vol} /\ left' = left
     \/ vols' = vols /\ left' = left \cup {op[c].vol}
  /\ Done(c)
  /\ UNCHANGED <<dom, made, revived>>

\* Not asked for, done, or failed: the domain stays defined.
CreateStart(c) ==
  /\ op[c].pc = "defined"
  /\ LET u == op[c].uuid IN
       \/ UNCHANGED dom
       \/ dom[u].defined /\ dom[u].power = "stopped" /\ dom[u].vol \in vols
            /\ SetDom(u, "power", "running")
  /\ Done(c)
  /\ UNCHANGED <<vols, made, left, revived>>

-----------------------------------------------------------------------------
(***************************************************************************)
(* DeleteVirtualMachine                                                    *)
(***************************************************************************)

\* Stopped, and its disks collected if they are to go.
DeleteCheck(d, name) ==
  /\ op[d] = Idle
  /\ \E u \in Called(name), disks \in BOOLEAN :
       /\ dom[u].power = "stopped"
       /\ op' = [op EXCEPT ![d] = [pc |-> "checked", uuid |-> u, disks |-> disks]]
  /\ UNCHANGED <<dom, vols, made, left, revived>>

\* An active domain becomes transient; one that is not defined is an error.
DeleteUndefine(d) ==
  /\ op[d].pc = "checked"
  /\ LET u == op[d].uuid IN
       IF dom[u].defined
       THEN /\ SetDom(u, "defined", FALSE)
            /\ IF op[d].disks
               THEN op' = [op EXCEPT ![d].pc = "undefined"] /\ UNCHANGED left
               ELSE Done(d) /\ left' = left \cup {dom[u].vol}
       ELSE Done(d) /\ UNCHANGED <<dom, left>>
  /\ UNCHANGED <<vols, made, revived>>

\* An undefined domain that still runs can be deleting its disks too.
DeleteVolume(d) ==
  /\ op[d].pc = "undefined"
  /\ LET v == dom[op[d].uuid].vol IN
       \/ vols' = vols \ {v} /\ UNCHANGED left
       \/ v \in vols /\ UNCHANGED vols /\ left' = left \cup {v}
  /\ Done(d)
  /\ UNCHANGED <<dom, made, revived>>

-----------------------------------------------------------------------------
(***************************************************************************)
(* Start, ForceStop, Shutdown, Reboot                                      *)
(***************************************************************************)

\* Start boots a stopped domain and resumes a paused one.  The state is read
\* first, but libvirt refuses again what the state does not allow any more.
Start(u) ==
  /\ \/ dom[u].defined /\ dom[u].power = "stopped" /\ dom[u].vol \in vols
     \/ dom[u].power = "paused"
  /\ SetDom(u, "power", "running")
  /\ UNCHANGED <<vols, made, op, left, revived>>

MutForceStop(u) ==
  /\ dom[u].power # "stopped"
  /\ SetDom(u, "power", "error")
  /\ UNCHANGED <<vols, made, op, left, revived>>

ForceStop(u) ==
  /\ dom[u].power # "stopped"
  /\ SetDom(u, "power", "stopped")
  /\ UNCHANGED <<vols, made, op, left, revived>>

\* The guest powers off, asked by Shutdown or not, or suspends; a reboot leaves
\* it running.
GuestPower(u, p) ==
  /\ dom[u].power = "running"
  /\ SetDom(u, "power", p)
  /\ UNCHANGED <<vols, made, op, left, revived>>

-----------------------------------------------------------------------------
(***************************************************************************)
(* UpdateVirtualMachine                                                    *)
(***************************************************************************)

\* vCPUs, memory and network are only changed of a domain found stopped.
UpdateLookup(q, name) ==
  /\ op[q] = Idle
  /\ \E u \in Called(name), req \in Changes :
       /\ req.settings => dom[u].power = "stopped"
       /\ op' = [op EXCEPT ![q] = [pc |-> "settings", uuid |-> u, req |-> req]]
  /\ UNCHANGED <<dom, vols, made, left, revived>>

\* A change of the persistent configuration needs one.
Configure(u, f, v) == dom[u].defined /\ dom' = [dom EXCEPT ![u].cfg[f] = v]

\* Each of them is set by a call of its own, and one that is refused leaves
\* those before it in place.
UpdateSettings(q) ==
  /\ op[q].pc = "settings"
  /\ LET asked == op[q].req.settings IN
       \/ ~asked /\ UNCHANGED dom /\ op' = [op EXCEPT ![q].pc = "media"]
       \/ /\ asked /\ Configure(op[q].uuid, "settings", TRUE)
          /\ Done(q) \/ op' = [op EXCEPT ![q].pc = "media"]
       \/ asked /\ UNCHANGED dom /\ Done(q)
  /\ UNCHANGED <<vols, made, left, revived>>

\* The media in the drive are detached, unless that fails; the ISO asked for
\* may not exist, and then nothing is.
UpdateMedia(q) ==
  /\ op[q].pc = "media"
  /\ \/ op[q].req.iso \in {"keep", "attach"} /\ Done(q) /\ UNCHANGED dom
     \/ /\ op[q].req.iso # "keep"
        /\ Configure(op[q].uuid, "media", FALSE) \/ UNCHANGED dom
        /\ op' = [op EXCEPT ![q].pc = IF op[q].req.iso = "attach" THEN "attach" ELSE "order"]
  /\ UNCHANGED <<vols, made, left, revived>>

UpdateAttach(q) ==
  /\ op[q].pc = "attach"
  /\ \/ /\ ~dom[op[q].uuid].cfg.media /\ Configure(op[q].uuid, "media", TRUE)
        /\ op' = [op EXCEPT ![q].pc = "order"]
     \/ Done(q) /\ UNCHANGED dom
  /\ UNCHANGED <<vols, made, left, revived>>

\* The boot order is set in a copy of the configuration, if it is the domain's
\* own.  An order that is already the wanted one is defined again: it is put
\* right behind <os>, never where libvirt writes it, so the texts differ ...
OrderRead(q) ==
  /\ op[q].pc = "order"
  /\ LET u == op[q].uuid
         boot == IF op[q].req.iso = "attach" THEN "cdrom" ELSE "hd"
     IN  IF Exists(u) /\ dom[u].cfg.boot # "device"
         THEN op' = [op EXCEPT ![q] = [pc |-> "define", uuid |-> u,
                                       copy |-> [dom[u].cfg EXCEPT !.boot = boot]]]
         ELSE Done(q)
  /\ UNCHANGED <<dom, vols, made, left, revived>>

\* ... and the copy is defined, whatever became of the domain in the meantime:
\* libvirt only refuses it if another domain has the name.
OrderDefine(q) ==
  /\ op[q].pc = "define"
  /\ LET u == op[q].uuid IN
       \/ /\ Called(dom[u].vol[1]) \subseteq {u}
          /\ dom' = [dom EXCEPT ![u].defined = TRUE, ![u].cfg = op[q].copy]
          /\ revived' = IF dom[u].defined THEN revived ELSE revived \cup {u}
       \/ UNCHANGED <<dom, revived>>
  /\ Done(q)
  /\ UNCHANGED <<vols, made, left>>

-----------------------------------------------------------------------------
\* The server dies with its requests; libvirt goes on.
Crash ==
  /\ \E r \in Request : op[r] # Idle
  /\ op' = [r \in Request |-> Idle]
  /\ left' = left \cup {op[c].vol : c \in {x \in Creates : op[x].pc \in {"volume", "cleanup"}}}
                  \cup {dom[op[d].uuid].vol : d \in {x \in Deletes : op[x].pc = "undefined"}}
  /\ UNCHANGED <<dom, vols, made, revived>>

CreateSteps(c) ==
  \/ \E v \in Volume : CreateLookup(c, v)
  \/ CreateVolume(c) \/ CreateRejected(c) \/ CreateDefine(c) \/ DefineRefused(c)
  \/ CreateCleanup(c) \/ CreateStart(c)

DeleteSteps(d) ==
  (\E n \in Names : DeleteCheck(d, n)) \/ DeleteUndefine(d) \/ DeleteVolume(d)

PowerSteps(u) ==
  Start(u) \/ ForceStop(u) \/ GuestPower(u, "stopped") \/ GuestPower(u, "paused")

UpdateSteps(q) ==
  \/ \E n \in Names : UpdateLookup(q, n)
  \/ UpdateSettings(q)
  \/ UpdateMedia(q) \/ UpdateAttach(q) \/ OrderRead(q) \/ OrderDefine(q)

Next ==
  \/ \E c \in Creates : CreateSteps(c)
  \/ \E d \in Deletes : DeleteSteps(d)
  \/ \E u \in Uuid : PowerSteps(u)
  \/ \E q \in Updates : UpdateSteps(q)
  \/ Crash

Spec == Init /\ [][Next]_vars

-----------------------------------------------------------------------------
(***************************************************************************)
(* Properties                                                              *)
(***************************************************************************)

\* A defined domain has its disk, however creations and deletions of the same
\* name interleave: a cleanup only takes the volume its own request allocated,
\* and a deletion undefines first.  The exception is what follows when an update
\* has defined a domain again after its deletion.
DefinedHasVolume ==
  revived = {} => \A u \in Uuid : dom[u].defined => dom[u].vol \in vols

\* Creates that hold a volume, deletes that are about to remove one.
Holds(v) ==
  \/ \E c \in Creates : op[c].pc \in {"volume", "cleanup"} /\ op[c].vol = v
  \/ \E d \in Deletes : op[d].pc = "undefined" /\ dom[op[d].uuid].vol = v

\* Every volume belongs to a domain or to a request at work on it, or was left
\* behind where the code gives up: no other interleaving leaks one, which would
\* make every later creation of that name fail.
NoOtherOrphans ==
  \A v \in vols \ left : Holds(v) \/ \E u \in Uuid : dom[u].defined /\ dom[u].vol = v

\* An undefined domain that does not run is not defined again.
DeletedStaysGone == revived = {}

=============================================================================

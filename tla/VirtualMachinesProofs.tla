------------------------ MODULE VirtualMachinesProofs ------------------------
(***************************************************************************)
(* Theorems about virtual machines, for any names, formats, changes and    *)
(* number of requests of each kind.                                        *)
(***************************************************************************)
EXTENDS VirtualMachines, TLAPS

\* A handle is to a domain that was defined at some time.
WithHandle ==
  {"defined", "checked", "undefined", "settings", "media", "attach", "order", "define"}

HandleInv == \A r \in Request : op[r].pc \in WithHandle => op[r].uuid \in 1..made

MadeInv == \A u \in Uuid : IF u <= made THEN dom[u] \in Domain ELSE dom[u] = NoDomain

TypeInv ==
  /\ dom \in [Uuid -> Domain \cup {NoDomain}]
  /\ op \in [Request -> OpState]
  /\ TypeOK /\ MadeInv /\ HandleInv

\* Who holds a volume: a create that has allocated it, a deletion that has
\* undefined its domain, and the domain.
Creating(c, v) == op[c].pc \in {"volume", "cleanup"} /\ op[c].vol = v
Removing(d, v) == op[d].pc = "undefined" /\ dom[op[d].uuid].vol = v
Owning(u, v)   == dom[u].defined /\ dom[u].vol = v

\* A volume has at most one holder, and exists as long as it has one.
OneHolder(v) ==
  /\ \A c, e \in Creates : Creating(c, v) /\ Creating(e, v) => c = e
  /\ \A d, e \in Deletes : Removing(d, v) /\ Removing(e, v) => d = e
  /\ \A u, w \in Uuid : Owning(u, v) /\ Owning(w, v) => u = w
  /\ \A c \in Creates, d \in Deletes : ~(Creating(c, v) /\ Removing(d, v))
  /\ \A c \in Creates, u \in Uuid : ~(Creating(c, v) /\ Owning(u, v))
  /\ \A d \in Deletes, u \in Uuid : ~(Removing(d, v) /\ Owning(u, v))
  /\ \A c \in Creates : Creating(c, v) => v \in vols
  /\ \A d \in Deletes : Removing(d, v) => v \in vols
  /\ \A u \in Uuid : Owning(u, v) => v \in vols

HolderInv == revived = {} => \A v \in Volume : OneHolder(v)

IInv == TypeInv /\ HolderInv /\ NoOtherOrphans

-----------------------------------------------------------------------------
(***************************************************************************)
(* Types                                                                   *)
(***************************************************************************)

\* A step that moves one request and changes domains that are there.
Places(r) ==
  /\ op' \in [Request -> OpState]
  /\ \A x \in Request \ {r} : op'[x] = op[x]
  /\ op'[r].pc \in WithHandle => op'[r].uuid \in 1..made

Domains ==
  /\ dom' \in [Uuid -> Domain \cup {NoDomain}]
  /\ \A u \in Uuid : IF u <= made THEN dom'[u] \in Domain ELSE dom'[u] = NoDomain

LEMMA KeepsTypes ==
  ASSUME TypeInv, NEW r \in Request, Places(r), Domains, made' = made,
         vols' \subseteq Volume, left' \subseteq Volume, revived' \subseteq Uuid
  PROVE  TypeInv'
  <1>1. TypeOK'
    BY DEF TypeInv, TypeOK, Places, Domains
  <1>2. HandleInv'
    BY DEF TypeInv, HandleInv, Places
  <1>3. QED
    BY <1>1, <1>2 DEF TypeInv, MadeInv, Places, Domains

\* A request moves to a place of its own kind.
LEMMA MovesTo ==
  ASSUME TypeInv, NEW r \in Request, NEW o \in OpState, op' = [op EXCEPT ![r] = o],
         o.pc \in WithHandle => o.uuid \in 1..made
  PROVE  Places(r)
  BY DEF TypeInv, Places

LEMMA Ends ==
  ASSUME TypeInv, NEW r \in Request, Done(r)
  PROVE  Places(r) /\ op'[r].pc = "idle"
  <1>1. Idle \in OpState /\ Idle.pc = "idle"
    BY DEF OpState, Idle
  <1>2. QED
    BY <1>1, MovesTo DEF Done, WithHandle, TypeInv

LEMMA SameDomains == ASSUME TypeInv, UNCHANGED dom PROVE Domains
  BY DEF TypeInv, MadeInv, Domains

\* What a request holds, by its place.
LEMMA Held ==
  ASSUME TypeInv, NEW r \in Request
  PROVE  /\ op[r] \in OpState
         /\ op[r].pc \in {"named", "volume", "cleanup"} => op[r].vol \in Volume
         /\ op[r].pc \in WithHandle =>
              op[r].uuid \in Uuid /\ op[r].uuid <= made /\ dom[op[r].uuid] \in Domain
  <1>1. op[r] \in OpState
    BY DEF TypeInv
  <1>2. op[r].pc \in {"named", "volume", "cleanup"} => op[r].vol \in Volume
    BY <1>1 DEF OpState, Idle
  <1>3. op[r].pc \in WithHandle => op[r].uuid \in Uuid
    BY <1>1 DEF OpState, Idle, WithHandle
  <1>4. op[r].pc \in WithHandle => op[r].uuid <= made
    BY DEF TypeInv, HandleInv
  <1>5. QED
    BY <1>1, <1>2, <1>3, <1>4 DEF TypeInv, MadeInv

\* Domains that exist are there.
LEMMA CalledMade ==
  ASSUME TypeInv, NEW n, NEW u \in Called(n)
  PROVE  u \in Uuid /\ u \in 1..made /\ dom[u] \in Domain
  <1>1. u \in Uuid /\ Exists(u)
    BY DEF Called
  <1>2. dom[u] # NoDomain
    BY <1>1 DEF Exists, NoDomain
  <1>3. QED
    BY <1>1, <1>2, VirtualMachinesAssumption DEF TypeInv, MadeInv, Uuid, TypeOK

\* A change of a field of a domain.
LEMMA DomainChanges ==
  ASSUME TypeInv, NEW u \in Uuid, dom[u] \in Domain, NEW d \in Domain,
         d.vol = dom[u].vol, dom' = [dom EXCEPT ![u] = d]
  PROVE  Domains /\ \A w \in Uuid : dom[w] \in Domain => dom'[w].vol = dom[w].vol
  <1>1. u <= made
    BY DEF TypeInv, MadeInv, Domain, NoDomain
  <1>2. QED
    BY <1>1 DEF TypeInv, MadeInv, Domains

-----------------------------------------------------------------------------

LEMMA CreateKeepsTypes ==
  ASSUME TypeInv, NEW c \in Creates, CreateSteps(c)
  PROVE  TypeInv'
  <1>1. c \in Request /\ vols \subseteq Volume /\ left \subseteq Volume /\ revived \subseteq Uuid
    BY DEF Request, TypeInv, TypeOK
  <1>2. ASSUME NEW v \in Volume, CreateLookup(c, v) PROVE TypeInv'
    <2>1. [pc |-> "named", vol |-> v] \in OpState
      BY DEF OpState
    <2>2. Places(c)
      BY <1>1, <1>2, <2>1, MovesTo DEF CreateLookup, WithHandle
    <2>3. QED
      BY <1>1, <1>2, <2>2, SameDomains, KeepsTypes DEF CreateLookup
  <1>3. CASE CreateVolume(c)
    <2>1. op[c].vol \in Volume /\ [op[c] EXCEPT !.pc = "volume"] \in OpState
      BY <1>1, <1>3, Held DEF CreateVolume, OpState, Idle
    <2>2. [op[c] EXCEPT !.pc = "volume"].pc = "volume"
      BY <1>1, Held DEF OpState, Idle
    <2>3. Places(c)
      BY <1>1, <1>3, <2>1, <2>2, MovesTo, Ends DEF CreateVolume, WithHandle
    <2>4. QED
      BY <1>1, <1>3, <2>1, <2>3, SameDomains, KeepsTypes DEF CreateVolume
  <1>4. CASE CreateRejected(c)
    BY <1>1, <1>4, Held, Ends, SameDomains, KeepsTypes DEF CreateRejected
  <1>5. CASE CreateDefine(c)
    <2>1. op[c].vol \in Volume /\ made + 1 \in Uuid /\ made \in Nat
      BY <1>1, <1>5, Held, VirtualMachinesAssumption DEF CreateDefine, TypeInv, TypeOK, Uuid
    <2>2. PICK boot \in {"hd", "device"} :
            dom' = [dom EXCEPT ![made + 1] =
                      [vol |-> op[c].vol, defined |-> TRUE, power |-> "stopped",
                       cfg |-> [settings |-> FALSE, media |-> boot = "device", boot |-> boot]]]
      BY <1>5 DEF CreateDefine
    <2>3. [vol |-> op[c].vol, defined |-> TRUE, power |-> "stopped",
           cfg |-> [settings |-> FALSE, media |-> boot = "device", boot |-> boot]] \in Domain
      BY <2>1 DEF Domain, Power, Config
    <2>4. dom' \in [Uuid -> Domain \cup {NoDomain}] /\ made' \in 0..MaxDomains
      BY <1>5, <2>1, <2>2, <2>3 DEF TypeInv, CreateDefine, Uuid
    <2>5. MadeInv'
      BY <1>5, <2>1, <2>2, <2>3 DEF TypeInv, MadeInv, CreateDefine, Uuid
    <2>6. [pc |-> "defined", uuid |-> made + 1] \in OpState
      BY <2>1 DEF OpState
    <2>7. op' \in [Request -> OpState] /\ HandleInv'
      BY <1>1, <1>5, <2>1, <2>6 DEF TypeInv, HandleInv, CreateDefine
    <2>8. QED
      BY <1>1, <1>5, <2>4, <2>5, <2>7 DEF TypeInv, TypeOK, CreateDefine
  <1>6. CASE DefineRefused(c)
    <2>1. [op[c] EXCEPT !.pc = "cleanup"] \in OpState /\ [op[c] EXCEPT !.pc = "cleanup"].pc = "cleanup"
      BY <1>1, <1>6, Held DEF DefineRefused, OpState, Idle
    <2>2. Places(c)
      BY <1>1, <1>6, <2>1, MovesTo DEF DefineRefused, WithHandle
    <2>3. QED
      BY <1>1, <1>6, <2>2, SameDomains, KeepsTypes DEF DefineRefused
  <1>7. CASE CreateCleanup(c)
    BY <1>1, <1>7, Held, Ends, SameDomains, KeepsTypes DEF CreateCleanup
  <1>8. CASE CreateStart(c)
    <2>1. op[c].uuid \in Uuid /\ dom[op[c].uuid] \in Domain
      BY <1>1, <1>8, Held DEF CreateStart, WithHandle
    <2>2. [dom[op[c].uuid] EXCEPT !.power = "running"] \in Domain
      BY <2>1 DEF Domain, Power
    <2>3. Domains
      BY <1>8, <2>1, <2>2, SameDomains, DomainChanges DEF CreateStart, SetDom, Domain
    <2>4. QED
      BY <1>1, <1>8, <2>3, Ends, KeepsTypes DEF CreateStart
  <1>9. QED
    BY <1>2, <1>3, <1>4, <1>5, <1>6, <1>7, <1>8 DEF CreateSteps

LEMMA DeleteKeepsTypes ==
  ASSUME TypeInv, NEW d \in Deletes, DeleteSteps(d)
  PROVE  TypeInv'
  <1>1. d \in Request /\ vols \subseteq Volume /\ left \subseteq Volume /\ revived \subseteq Uuid
    BY DEF Request, TypeInv, TypeOK
  <1>2. ASSUME NEW n \in Names, DeleteCheck(d, n) PROVE TypeInv'
    <2>1. PICK u \in Called(n), disks \in BOOLEAN :
            op' = [op EXCEPT ![d] = [pc |-> "checked", uuid |-> u, disks |-> disks]]
      BY <1>2 DEF DeleteCheck
    <2>2. u \in Uuid /\ u \in 1..made
      BY <2>1, CalledMade
    <2>3. [pc |-> "checked", uuid |-> u, disks |-> disks] \in OpState
      BY <2>2 DEF OpState
    <2>4. Places(d)
      BY <1>1, <2>1, <2>2, <2>3, MovesTo
    <2>5. QED
      BY <1>1, <1>2, <2>4, SameDomains, KeepsTypes DEF DeleteCheck
  <1>3. CASE DeleteUndefine(d)
    <2>1. op[d].uuid \in Uuid /\ dom[op[d].uuid] \in Domain /\ op[d].uuid \in 1..made
      BY <1>1, <1>3, Held DEF DeleteUndefine, WithHandle, TypeInv, HandleInv
    <2>2. [dom[op[d].uuid] EXCEPT !.defined = FALSE] \in Domain /\ dom[op[d].uuid].vol \in Volume
      BY <2>1 DEF Domain
    <2>3. Domains
      BY <1>3, <2>1, <2>2, SameDomains, DomainChanges DEF DeleteUndefine, SetDom, Domain
    <2>4. [op[d] EXCEPT !.pc = "undefined"] \in OpState /\ [op[d] EXCEPT !.pc = "undefined"].uuid = op[d].uuid
      BY <1>1, <1>3, Held DEF DeleteUndefine, OpState, Idle
    <2>5. Places(d)
      BY <1>1, <1>3, <2>1, <2>4, MovesTo, Ends DEF DeleteUndefine
    <2>6. left' \subseteq Volume
      BY <1>1, <1>3, <2>2 DEF DeleteUndefine
    <2>7. QED
      BY <1>1, <1>3, <2>3, <2>5, <2>6, KeepsTypes DEF DeleteUndefine
  <1>4. CASE DeleteVolume(d)
    <2>1. dom[op[d].uuid] \in Domain
      BY <1>1, <1>4, Held DEF DeleteVolume, WithHandle
    <2>2. vols' \subseteq Volume /\ left' \subseteq Volume
      BY <1>1, <1>4, <2>1 DEF DeleteVolume, Domain
    <2>3. QED
      BY <1>1, <1>4, <2>2, Ends, SameDomains, KeepsTypes DEF DeleteVolume
  <1>5. QED
    BY <1>2, <1>3, <1>4 DEF DeleteSteps

LEMMA PowerKeepsTypes ==
  ASSUME TypeInv, NEW u \in Uuid, PowerSteps(u)
  PROVE  TypeInv'
  <1>1. PICK p \in Power : SetDom(u, "power", p) /\ UNCHANGED <<vols, made, op, left, revived>>
    BY DEF PowerSteps, Start, ForceStop, GuestPower, Power
  <1>2. dom[u].power # "stopped" \/ dom[u].defined
    BY DEF PowerSteps, Start, ForceStop, GuestPower
  <1>3. dom[u] \in Domain
    BY <1>2 DEF TypeInv, NoDomain
  <1>4. [dom[u] EXCEPT !.power = p] \in Domain
    BY <1>1, <1>3 DEF Domain
  <1>5. Domains
    BY <1>1, <1>3, <1>4, DomainChanges DEF SetDom, Domain
  <1>6. QED
    BY <1>1, <1>5 DEF TypeInv, TypeOK, Domains, MadeInv, HandleInv

LEMMA UpdateKeepsTypes ==
  ASSUME TypeInv, NEW q \in Updates, UpdateSteps(q)
  PROVE  TypeInv'
  <1>1. q \in Request /\ vols \subseteq Volume /\ left \subseteq Volume /\ revived \subseteq Uuid
    BY DEF Request, TypeInv, TypeOK
  <1>2. ASSUME NEW n \in Names, UpdateLookup(q, n) PROVE TypeInv'
    <2>1. PICK u \in Called(n), req \in Changes :
            op' = [op EXCEPT ![q] = [pc |-> "settings", uuid |-> u, req |-> req]]
      BY <1>2 DEF UpdateLookup
    <2>2. u \in Uuid /\ u \in 1..made
      BY <2>1, CalledMade
    <2>3. [pc |-> "settings", uuid |-> u, req |-> req] \in OpState
      BY <2>2 DEF OpState
    <2>4. Places(q)
      BY <1>1, <2>1, <2>2, <2>3, MovesTo
    <2>5. QED
      BY <1>1, <1>2, <2>4, SameDomains, KeepsTypes DEF UpdateLookup
  <1> DEFINE u == op[q].uuid
             o(pc) == [op[q] EXCEPT !.pc = pc]
  <1>3. ASSUME op[q].pc \in {"settings", "media", "attach", "order", "define"}
        PROVE  u \in Uuid /\ dom[u] \in Domain /\ u \in 1..made
    BY <1>1, <1>3, Held DEF WithHandle, TypeInv, HandleInv
  <1>4. ASSUME op[q].pc \in {"settings", "media", "attach"}, NEW pc \in {"media", "attach", "order"}
        PROVE  o(pc) \in OpState /\ o(pc).uuid = u
    BY <1>1, <1>4, Held DEF OpState, Idle
  <1>5. ASSUME dom[u] \in Domain, u \in Uuid, NEW b \in BOOLEAN,
               Configure(u, "settings", b) \/ Configure(u, "media", b)
        PROVE  Domains
    <2>1. [dom[u] EXCEPT !.cfg = [@ EXCEPT !.settings = b]] \in Domain
          /\ [dom[u] EXCEPT !.cfg = [@ EXCEPT !.media = b]] \in Domain
      BY <1>5 DEF Domain, Config
    <2>2. QED
      BY <1>5, <2>1, DomainChanges DEF Configure, Domain
  <1>6. CASE UpdateSettings(q)
    <2>1. Domains
      BY <1>3, <1>5, <1>6, SameDomains DEF UpdateSettings
    <2>2. Places(q)
      BY <1>1, <1>3, <1>4, <1>6, MovesTo, Ends DEF UpdateSettings
    <2>3. QED
      BY <1>1, <1>6, <2>1, <2>2, KeepsTypes DEF UpdateSettings
  <1>7. CASE UpdateMedia(q)
    <2>1. Domains
      BY <1>3, <1>5, <1>7, SameDomains DEF UpdateMedia
    <2>2. Places(q)
      BY <1>1, <1>3, <1>4, <1>7, MovesTo, Ends DEF UpdateMedia
    <2>3. QED
      BY <1>1, <1>7, <2>1, <2>2, KeepsTypes DEF UpdateMedia
  <1>8. CASE UpdateAttach(q)
    <2>1. Domains
      BY <1>3, <1>5, <1>8, SameDomains DEF UpdateAttach
    <2>2. Places(q)
      BY <1>1, <1>3, <1>4, <1>8, MovesTo, Ends DEF UpdateAttach
    <2>3. QED
      BY <1>1, <1>8, <2>1, <2>2, KeepsTypes DEF UpdateAttach
  <1>9. CASE OrderRead(q)
    <2>1. ASSUME NEW boot \in {"cdrom", "hd"}
          PROVE  op[q].pc = "order" =>
                   [pc |-> "define", uuid |-> u, copy |-> [dom[u].cfg EXCEPT !.boot = boot]] \in OpState
      BY <1>3, <2>1 DEF OpState, Domain, Config
    <2>2. Places(q)
      BY <1>1, <1>3, <1>9, <2>1, MovesTo, Ends DEF OrderRead
    <2>3. QED
      BY <1>1, <1>9, <2>2, SameDomains, KeepsTypes DEF OrderRead
  <1>10. CASE OrderDefine(q)
    <2>1. u \in Uuid /\ dom[u] \in Domain /\ op[q].copy \in Config
      BY <1>1, <1>3, <1>10, Held DEF OrderDefine, OpState, Idle
    <2>2. [dom[u] EXCEPT !.defined = TRUE, !.cfg = op[q].copy] \in Domain
      BY <2>1 DEF Domain
    <2>3. Domains
      <3>1. CASE UNCHANGED dom
        BY <3>1, SameDomains
      <3>2. CASE dom' = [dom EXCEPT ![u].defined = TRUE, ![u].cfg = op[q].copy]
        <4>1. dom' = [dom EXCEPT ![u] = [dom[u] EXCEPT !.defined = TRUE, !.cfg = op[q].copy]]
          BY <3>2, <2>1 DEF TypeInv
        <4>2. QED
          BY <4>1, <2>1, <2>2, DomainChanges DEF Domain
      <3>3. QED
        BY <1>10, <3>1, <3>2 DEF OrderDefine
    <2>4. revived' \subseteq Uuid
      BY <1>1, <1>10, <2>1 DEF OrderDefine
    <2>5. QED
      BY <1>1, <1>10, <2>3, <2>4, Ends, KeepsTypes DEF OrderDefine
  <1>11. QED
    BY <1>2, <1>6, <1>7, <1>8, <1>9, <1>10 DEF UpdateSteps

LEMMA CrashKeepsTypes ==
  ASSUME TypeInv, Crash
  PROVE  TypeInv'
  <1>1. Idle \in OpState /\ Idle.pc \notin WithHandle
    BY DEF OpState, Idle, WithHandle
  <1>2. \A r \in Request : op[r].pc \in {"volume", "cleanup"} => op[r].vol \in Volume
    BY Held
  <1>3. \A r \in Request : op[r].pc = "undefined" => dom[op[r].uuid].vol \in Volume
    BY Held DEF WithHandle, Domain
  <1>4. left' \subseteq Volume
    BY <1>2, <1>3 DEF Crash, TypeInv, TypeOK, Request
  <1>5. QED
    BY <1>1, <1>4 DEF Crash, TypeInv, TypeOK, MadeInv, HandleInv

LEMMA InitTyped == Init => TypeInv
  BY VirtualMachinesAssumption
  DEF Init, TypeInv, TypeOK, MadeInv, HandleInv, OpState, Idle, WithHandle, Uuid

LEMMA StepKeepsTypes == TypeInv /\ [Next]_vars => TypeInv'
  <1> SUFFICES ASSUME TypeInv, [Next]_vars PROVE TypeInv'
    OBVIOUS
  <1>1. CASE UNCHANGED vars
    BY <1>1 DEF vars, TypeInv, TypeOK, MadeInv, HandleInv
  <1>2. QED
    BY <1>1, CreateKeepsTypes, DeleteKeepsTypes, PowerKeepsTypes, UpdateKeepsTypes, CrashKeepsTypes
    DEF Next

\* Every reachable state of domains, volumes and requests is typed; a handle is
\* always to a domain that was defined.
THEOREM TypeCorrect == Spec => []TypeOK
  BY InitTyped, StepKeepsTypes, PTL DEF Spec, TypeInv

-----------------------------------------------------------------------------
(***************************************************************************)
(* Who holds a volume                                                      *)
(***************************************************************************)

Holding == {"volume", "cleanup", "undefined"}

\* Steps that neither change who holds a volume nor the volumes.
Quiet ==
  /\ UNCHANGED vols /\ left \subseteq left' /\ revived \subseteq revived'
  /\ \A x \in Request : op'[x] = op[x] \/ (op[x].pc \notin Holding /\ op'[x].pc \notin Holding)
  /\ \A u \in Uuid : /\ dom[u] \in Domain => dom'[u].vol = dom[u].vol
                     /\ dom[u].defined => dom'[u].defined
                     /\ dom'[u].defined => dom[u].defined \/ revived' # {}

\* A domain that is defined, and one whose disks are being deleted, is there.
LEMMA DefinedMade ==
  ASSUME TypeInv, NEW u \in Uuid, dom[u].defined
  PROVE  dom[u] \in Domain /\ u <= made /\ dom[u].vol \in Volume
  BY DEF TypeInv, MadeInv, NoDomain, Domain

LEMMA HolderKinds == Creates \subseteq Request /\ Deletes \subseteq Request /\ "undefined" \in WithHandle
  BY DEF Request, WithHandle

\* Fewer holders of a volume are still at most one.
LEMMA FewerHolders ==
  ASSUME NEW v \in Volume, OneHolder(v),
         \A c \in Creates : Creating(c, v)' => Creating(c, v) /\ v \in vols',
         \A d \in Deletes : Removing(d, v)' => Removing(d, v) /\ v \in vols',
         \A u \in Uuid : Owning(u, v)' => Owning(u, v) /\ v \in vols'
  PROVE  OneHolder(v)'
  BY DEF OneHolder

LEMMA QuietSameHolders ==
  ASSUME TypeInv, Quiet, NEW v \in Volume
  PROVE  /\ \A c \in Creates : Creating(c, v)' = Creating(c, v)
         /\ \A d \in Deletes : Removing(d, v)' = Removing(d, v)
         /\ \A u \in Uuid : Owning(u, v) => Owning(u, v)'
         /\ revived' = {} => \A u \in Uuid : Owning(u, v)' => Owning(u, v)
  <1>1. \A c \in Creates : Creating(c, v)' = Creating(c, v)
    BY HolderKinds DEF Quiet, Creating, Holding
  <1>2. \A d \in Deletes : op[d].pc = "undefined" => op[d].uuid \in Uuid /\ dom[op[d].uuid] \in Domain
    BY Held, HolderKinds
  <1>3. \A d \in Deletes : Removing(d, v)' = Removing(d, v)
    BY <1>2, HolderKinds DEF Quiet, Removing, Holding
  <1>4. QED
    BY <1>1, <1>3, DefinedMade DEF Quiet, Owning

LEMMA QuietKeepsHolders ==
  ASSUME TypeInv, HolderInv, NoOtherOrphans, Quiet
  PROVE  HolderInv' /\ NoOtherOrphans'
  <1>1. ASSUME revived' = {}, NEW v \in Volume PROVE OneHolder(v)'
    <2>1. OneHolder(v) /\ vols' = vols
      BY <1>1 DEF HolderInv, Quiet
    <2>2. QED
      BY <1>1, <2>1, QuietSameHolders, FewerHolders DEF OneHolder
  <1>2. ASSUME NEW v \in vols' \ left'
        PROVE  Holds(v)' \/ \E u \in Uuid : Owning(u, v)'
    <2>1. v \in vols \ left /\ v \in Volume
      BY DEF Quiet, TypeInv, TypeOK
    <2>2. Holds(v) \/ \E u \in Uuid : Owning(u, v)
      BY <2>1 DEF NoOtherOrphans, Owning
    <2>3. QED
      BY <2>1, <2>2, QuietSameHolders DEF Holds, Creating, Removing
  <1>3. QED
    BY <1>1, <1>2 DEF HolderInv, NoOtherOrphans, Owning

LEMMA QuietSteps ==
  ASSUME TypeInv,
         \/ \E c \in Creates : (\E v \in Volume : CreateLookup(c, v)) \/ CreateStart(c)
         \/ \E d \in Deletes, n \in Names : DeleteCheck(d, n)
         \/ \E u \in Uuid : PowerSteps(u)
         \/ \E q \in Updates : UpdateSteps(q)
         \/ UNCHANGED vars
  PROVE  Quiet
  <1> USE DEF Quiet, Holding, Request
  <1>0. /\ op \in [Request -> OpState] /\ Idle.pc = "idle" /\ dom \in [Uuid -> Domain \cup {NoDomain}]
        /\ UNCHANGED dom => \A u \in Uuid : /\ dom[u] \in Domain => dom'[u].vol = dom[u].vol
                                            /\ dom'[u].defined = dom[u].defined
    BY DEF Idle, TypeInv
  <1>1. ASSUME NEW c \in Creates, NEW v \in Volume, CreateLookup(c, v) PROVE Quiet
    BY <1>0, <1>1 DEF CreateLookup
  <1>2. ASSUME NEW u \in Uuid, NEW p \in Power, SetDom(u, "power", p),
               dom[u].defined \/ dom[u].power # "stopped"
        PROVE  \A w \in Uuid : /\ dom[w] \in Domain => dom'[w].vol = dom[w].vol
                               /\ dom'[w].defined = dom[w].defined
    <2>1. dom[u] \in Domain
      BY <1>0, <1>2 DEF NoDomain
    <2>2. QED
      BY <1>0, <1>2, <2>1 DEF SetDom, Domain
  <1>3. ASSUME NEW c \in Creates, CreateStart(c) PROVE Quiet
    <2>1. op[c].uuid \in Uuid
      BY <1>3, Held DEF CreateStart, WithHandle
    <2>2. QED
      BY <1>0, <1>2, <1>3, <2>1 DEF CreateStart, Done, Power
  <1>4. ASSUME NEW d \in Deletes, NEW n \in Names, DeleteCheck(d, n) PROVE Quiet
    BY <1>0, <1>4 DEF DeleteCheck
  <1>5. ASSUME NEW u \in Uuid, PowerSteps(u) PROVE Quiet
    BY <1>0, <1>2, <1>5 DEF PowerSteps, Start, ForceStop, GuestPower, Power
  <1>6. ASSUME NEW q \in Updates, UpdateSteps(q) PROVE Quiet
    <2>1. ASSUME NEW u \in Uuid, NEW b \in BOOLEAN,
                 Configure(u, "settings", b) \/ Configure(u, "media", b)
          PROVE  \A w \in Uuid : /\ dom[w] \in Domain => dom'[w].vol = dom[w].vol
                                 /\ dom'[w].defined = dom[w].defined
      <3>1. dom[u] \in Domain
        BY <2>1, DefinedMade DEF Configure
      <3>2. QED
        BY <1>0, <2>1, <3>1 DEF Configure, Domain
    <2>2. op[q].pc \in {"settings", "media", "attach", "order", "define"} =>
            op[q].uuid \in Uuid /\ dom[op[q].uuid] \in Domain /\ op[q] \in OpState
      BY Held DEF WithHandle
    <2>3. ASSUME NEW n \in Names, UpdateLookup(q, n) PROVE Quiet
      BY <1>0, <2>3 DEF UpdateLookup
    <2>4. \A pc \in {"media", "attach", "order"} :
            op[q].pc \in {"settings", "media", "attach"} => [op[q] EXCEPT !.pc = pc].pc = pc
      BY <2>2 DEF OpState, Idle
    <2>5. CASE UpdateSettings(q)
      BY <1>0, <2>1, <2>2, <2>4, <2>5 DEF UpdateSettings, Done
    <2>6. CASE UpdateMedia(q)
      BY <1>0, <2>1, <2>2, <2>4, <2>6 DEF UpdateMedia, Done
    <2>7. CASE UpdateAttach(q)
      BY <1>0, <2>1, <2>2, <2>4, <2>7 DEF UpdateAttach, Done
    <2>8. CASE OrderRead(q)
      BY <1>0, <2>8 DEF OrderRead, Done
    <2>9. CASE OrderDefine(q)
      <3>1. dom[op[q].uuid] \in Domain /\ op[q].uuid \in Uuid
        BY <2>2, <2>9 DEF OrderDefine
      <3>2. \A w \in Uuid : /\ dom[w] \in Domain => dom'[w].vol = dom[w].vol
                            /\ dom[w].defined => dom'[w].defined
                            /\ dom'[w].defined => dom[w].defined \/ revived' # {}
        BY <1>0, <2>9, <3>1 DEF OrderDefine, Domain
      <3>3. QED
        BY <1>0, <2>9, <3>2 DEF OrderDefine, Done
    <2>10. QED
      BY <1>6, <2>3, <2>5, <2>6, <2>7, <2>8, <2>9 DEF UpdateSteps
  <1>7. CASE UNCHANGED vars
    BY <1>0, <1>7 DEF vars
  <1>8. QED
    BY <1>1, <1>3, <1>4, <1>5, <1>6, <1>7

-----------------------------------------------------------------------------

\* A step of one request that leaves the domains alone.
LEMMA OthersSame ==
  ASSUME TypeInv, NEW r \in Request, op' \in [Request -> OpState],
         \A x \in Request \ {r} : op'[x] = op[x],
         UNCHANGED dom, NEW v \in Volume
  PROVE  /\ \A c \in Creates \ {r} : Creating(c, v)' = Creating(c, v)
         /\ \A d \in Deletes \ {r} : Removing(d, v)' = Removing(d, v)
         /\ \A u \in Uuid : Owning(u, v)' = Owning(u, v)
  BY HolderKinds DEF Creating, Removing, Owning

\* A create allocates the volume of a name that nobody holds.
LEMMA VolumeKeepsHolders ==
  ASSUME TypeInv, TypeInv', HolderInv, NoOtherOrphans, NEW c \in Creates, CreateVolume(c)
  PROVE  HolderInv' /\ NoOtherOrphans'
  <1> c \in Request /\ op \in [Request -> OpState] /\ op[c].vol \in Volume /\ op[c].pc = "named"
    BY Held, HolderKinds DEF CreateVolume, TypeInv
  <1>1. CASE op[c].vol \in vols
    BY <1>1, QuietKeepsHolders DEF CreateVolume, Quiet, Done, Holding, Idle
  <1>2. CASE op[c].vol \notin vols
    <2>1. /\ vols' = vols \cup {op[c].vol} /\ UNCHANGED <<dom, left, revived>>
          /\ op' = [op EXCEPT ![c].pc = "volume"]
      BY <1>2 DEF CreateVolume
    <2>2. op'[c].pc = "volume" /\ op'[c].vol = op[c].vol /\ op' \in [Request -> OpState]
      BY <2>1, Held DEF OpState, Idle, TypeInv
    <2>3. ASSUME NEW v \in Volume
          PROVE  /\ \A x \in Creates : Creating(x, v)' <=> Creating(x, v) \/ (x = c /\ v = op[c].vol)
                 /\ \A d \in Deletes : Removing(d, v)' = Removing(d, v)
                 /\ \A u \in Uuid : Owning(u, v)' = Owning(u, v)
      BY <2>1, <2>2, OthersSame DEF Creating, Removing
    <2>4. ASSUME revived' = {}, NEW v \in Volume PROVE OneHolder(v)'
      BY <1>2, <2>1, <2>3, <2>4 DEF HolderInv, OneHolder
    <2>5. ASSUME NEW v \in vols' \ left'
          PROVE  Holds(v)' \/ \E u \in Uuid : Owning(u, v)'
      <3>1. v \in Volume /\ (v = op[c].vol \/ v \in vols \ left)
        BY <2>1 DEF TypeInv, TypeOK
      <3>2. v = op[c].vol \/ Holds(v) \/ \E u \in Uuid : Owning(u, v)
        BY <3>1 DEF NoOtherOrphans, Owning
      <3>3. QED
        BY <2>3, <3>1, <3>2 DEF Holds, Creating, Removing
    <2>6. QED
      BY <2>4, <2>5 DEF HolderInv, NoOtherOrphans, Owning
  <1>3. QED
    BY <1>1, <1>2

\* A create gives up or goes on to its cleanup: what it holds is left behind,
\* removed, or held on.
LEMMA CreateEndsKeepsHolders ==
  ASSUME TypeInv, TypeInv', HolderInv, NoOtherOrphans, NEW c \in Creates,
         CreateRejected(c) \/ DefineRefused(c) \/ CreateCleanup(c)
  PROVE  HolderInv' /\ NoOtherOrphans'
  <1>1. /\ c \in Request /\ op \in [Request -> OpState] /\ op[c].vol \in Volume
        /\ Creating(c, op[c].vol) /\ op[c].pc # "undefined"
    BY Held, HolderKinds DEF CreateRejected, DefineRefused, CreateCleanup, TypeInv, Creating
  <1>2. /\ op'[c].pc \in {"idle", "cleanup"} /\ (op'[c].pc = "cleanup" => op'[c].vol = op[c].vol)
        /\ \A x \in Request \ {c} : op'[x] = op[x]
    BY <1>1, Held DEF CreateRejected, DefineRefused, CreateCleanup, Done, OpState, Idle
  <1>3. /\ UNCHANGED <<dom, revived>> /\ vols \ {op[c].vol} \subseteq vols' /\ vols' \subseteq vols
        /\ left \subseteq left'
        /\ op[c].vol \in vols \ vols' => op'[c].pc = "idle"
        /\ op[c].vol \in vols' => op[c].vol \in left' \/ op'[c].pc = "cleanup"
    BY <1>1, Held DEF CreateRejected, DefineRefused, CreateCleanup, Done, OpState, Idle
  <1>4. ASSUME NEW v \in Volume
        PROVE  /\ \A x \in Creates : Creating(x, v)' => Creating(x, v)
               /\ \A x \in Creates : Creating(x, v) /\ v # op[c].vol => Creating(x, v)'
               /\ \A d \in Deletes : Removing(d, v)' = Removing(d, v)
               /\ \A u \in Uuid : Owning(u, v)' = Owning(u, v)
    BY <1>1, <1>2, <1>3, HolderKinds DEF Creating, Removing, Owning
  <1>5. ASSUME revived' = {}, NEW v \in Volume PROVE OneHolder(v)'
    <2>1. OneHolder(v)
      BY <1>3, <1>5 DEF HolderInv
    <2>2. CASE v # op[c].vol
      BY <1>3, <1>4, <2>1, <2>2, FewerHolders DEF OneHolder
    <2>3. CASE v = op[c].vol
      <3>1. \A x \in Creates : Creating(x, v)' => v \in vols'
        BY <1>1, <1>2, <1>3, <1>4, <2>1, <2>3 DEF OneHolder, Creating
      <3>2. \A d \in Deletes : ~Removing(d, v)
        BY <1>1, <2>1, <2>3 DEF OneHolder
      <3>3. \A u \in Uuid : ~Owning(u, v)
        BY <1>1, <2>1, <2>3 DEF OneHolder
      <3>4. QED
        BY <1>4, <2>1, <3>1, <3>2, <3>3, FewerHolders
    <2>4. QED
      BY <2>2, <2>3
  <1>6. ASSUME NEW v \in vols' \ left'
        PROVE  Holds(v)' \/ \E u \in Uuid : Owning(u, v)'
    <2>1. v \in Volume /\ v \in vols \ left
      BY <1>3 DEF TypeInv, TypeOK
    <2>2. Holds(v) \/ \E u \in Uuid : Owning(u, v)
      BY <2>1 DEF NoOtherOrphans, Owning
    <2>3. CASE v = op[c].vol
      BY <1>2, <1>3, <1>6, <2>3 DEF Holds
    <2>4. CASE v # op[c].vol
      BY <1>4, <2>1, <2>2, <2>4 DEF Holds, Creating, Removing
    <2>5. QED
      BY <2>3, <2>4
  <1>7. QED
    BY <1>5, <1>6 DEF HolderInv, NoOtherOrphans, Owning

\* A create hands its volume to the domain that it defines.
LEMMA DefineKeepsHolders ==
  ASSUME TypeInv, TypeInv', HolderInv, NoOtherOrphans, NEW c \in Creates, CreateDefine(c)
  PROVE  HolderInv' /\ NoOtherOrphans'
  <1> DEFINE w == made + 1
  <1>1. /\ c \in Request /\ op \in [Request -> OpState] /\ op[c].vol \in Volume
        /\ Creating(c, op[c].vol) /\ op[c].pc # "undefined"
    BY Held, HolderKinds DEF CreateDefine, TypeInv, Creating
  <1>2. w \in Uuid /\ dom[w] = NoDomain /\ made \in Nat
    BY VirtualMachinesAssumption DEF CreateDefine, TypeInv, TypeOK, MadeInv, Uuid
  <1>3. /\ dom'[w].defined /\ dom'[w].vol = op[c].vol /\ \A u \in Uuid \ {w} : dom'[u] = dom[u]
        /\ op'[c].pc = "defined" /\ \A x \in Request \ {c} : op'[x] = op[x]
        /\ UNCHANGED <<vols, left, revived>>
    BY <1>1, <1>2 DEF CreateDefine, TypeInv
  <1>4. \A d \in Deletes : op[d].pc = "undefined" => op[d].uuid \in Uuid /\ op[d].uuid # w
    BY <1>2, Held, HolderKinds
  <1>5. ASSUME NEW v \in Volume
        PROVE  /\ \A x \in Creates : Creating(x, v)' = (Creating(x, v) /\ x # c)
               /\ \A d \in Deletes : Removing(d, v)' = Removing(d, v)
               /\ \A u \in Uuid : Owning(u, v)' <=> Owning(u, v) \/ (u = w /\ v = op[c].vol)
    <2>1. \A x \in Creates : Creating(x, v)' = (Creating(x, v) /\ x # c)
      BY <1>3, HolderKinds DEF Creating
    <2>2. \A d \in Deletes : Removing(d, v)' = Removing(d, v)
      BY <1>1, <1>3, <1>4, HolderKinds DEF Removing
    <2>3. \A u \in Uuid : Owning(u, v)' <=> Owning(u, v) \/ (u = w /\ v = op[c].vol)
      BY <1>2, <1>3 DEF Owning, NoDomain
    <2>4. QED
      BY <2>1, <2>2, <2>3
  <1> HIDE DEF w
  <1>6. ASSUME revived' = {}, NEW v \in Volume PROVE OneHolder(v)'
    <2>1. OneHolder(v)
      BY <1>3, <1>6 DEF HolderInv
    <2>2. CASE v # op[c].vol
      BY <1>3, <1>5, <2>1, <2>2, FewerHolders DEF OneHolder
    <2>3. CASE v = op[c].vol
      <3>1. /\ \A x \in Creates : ~Creating(x, v)'
            /\ \A d \in Deletes : ~Removing(d, v)'
            /\ \A u \in Uuid : Owning(u, v)' => u = w
            /\ v \in vols'
        BY <1>1, <1>3, <1>5, <2>1, <2>3 DEF OneHolder
      <3>2. QED
        BY <3>1 DEF OneHolder
    <2>4. QED
      BY <2>2, <2>3
  <1>7. ASSUME NEW v \in vols' \ left'
        PROVE  Holds(v)' \/ \E u \in Uuid : Owning(u, v)'
    <2>1. v \in Volume /\ v \in vols \ left
      BY <1>3 DEF TypeInv, TypeOK
    <2>2. Holds(v) \/ \E u \in Uuid : Owning(u, v)
      BY <2>1 DEF NoOtherOrphans, Owning
    <2>3. CASE v = op[c].vol
      BY <1>2, <1>5, <2>1, <2>3
    <2>4. CASE v # op[c].vol
      BY <1>1, <1>5, <2>1, <2>2, <2>4 DEF Holds, Creating, Removing
    <2>5. QED
      BY <2>3, <2>4
  <1>8. QED
    BY <1>6, <1>7 DEF HolderInv, NoOtherOrphans, Owning

\* A deletion takes the volume over from the domain that it undefines, unless
\* the disks are to stay.
LEMMA UndefineKeepsHolders ==
  ASSUME TypeInv, TypeInv', HolderInv, NoOtherOrphans, NEW d \in Deletes, DeleteUndefine(d)
  PROVE  HolderInv' /\ NoOtherOrphans'
  <1> DEFINE w == op[d].uuid
  <1>1. /\ d \in Request /\ op \in [Request -> OpState] /\ w \in Uuid /\ dom[w] \in Domain
        /\ op[d].pc = "checked"
    BY Held, HolderKinds DEF DeleteUndefine, TypeInv, WithHandle
  <1>2. CASE ~dom[w].defined
    BY <1>1, <1>2, QuietKeepsHolders DEF DeleteUndefine, Quiet, Done, Holding, Idle
  <1>3. CASE dom[w].defined
    <2>1. /\ ~dom'[w].defined /\ dom'[w].vol = dom[w].vol /\ \A u \in Uuid \ {w} : dom'[u] = dom[u]
          /\ UNCHANGED <<vols, revived>> /\ left \subseteq left'
      BY <1>1, <1>3 DEF DeleteUndefine, SetDom, TypeInv, Domain
    <2>2. /\ \A x \in Request \ {d} : op'[x] = op[x]
          /\ \/ op'[d].pc = "undefined" /\ op'[d].uuid = w
             \/ op'[d].pc = "idle" /\ dom[w].vol \in left'
      BY <1>1, <1>3, Held DEF DeleteUndefine, Done, OpState, Idle
    <2>3. \A x \in Deletes : op[x].pc = "undefined" => op[x].uuid \in Uuid
      BY Held, HolderKinds
    <2> HIDE DEF w
    <2>4. ASSUME NEW v \in Volume
          PROVE  /\ \A x \in Creates : Creating(x, v)' = Creating(x, v)
                 /\ \A x \in Deletes : Removing(x, v)' =>
                      Removing(x, v) \/ (x = d /\ v = dom[w].vol)
                 /\ \A x \in Deletes : Removing(x, v) => Removing(x, v)'
                 /\ \A u \in Uuid : Owning(u, v)' = (Owning(u, v) /\ u # w)
      <3>1. \A x \in Creates : Creating(x, v)' = Creating(x, v)
        BY <1>1, <2>2, HolderKinds DEF Creating
      <3>2. \A x \in Deletes \ {d} : Removing(x, v)' = Removing(x, v)
        BY <2>1, <2>2, <2>3, HolderKinds DEF Removing
      <3>3. Removing(d, v)' => v = dom[w].vol
        BY <2>1, <2>2 DEF Removing
      <3>4. ~Removing(d, v)
        BY <1>1 DEF Removing
      <3>5. \A u \in Uuid : Owning(u, v)' = (Owning(u, v) /\ u # w)
        BY <2>1 DEF Owning
      <3>6. QED
        BY <3>1, <3>2, <3>3, <3>4, <3>5
    <2>5. dom[w].vol \in Volume /\ Owning(w, dom[w].vol)
      BY <1>1, <1>3 DEF Domain, Owning
    <2>6. ASSUME revived' = {}, NEW v \in Volume PROVE OneHolder(v)'
      <3>1. OneHolder(v)
        BY <2>1, <2>6 DEF HolderInv
      <3>2. CASE v # dom[w].vol
        BY <2>1, <2>4, <3>1, <3>2, FewerHolders DEF OneHolder
      <3>3. CASE v = dom[w].vol
        <4>1. /\ \A x \in Creates : ~Creating(x, v)'
              /\ \A x \in Deletes : Removing(x, v)' => x = d
              /\ \A u \in Uuid : ~Owning(u, v)'
              /\ v \in vols'
          BY <1>1, <2>1, <2>4, <2>5, <3>1, <3>3 DEF OneHolder
        <4>2. QED
          BY <4>1 DEF OneHolder
      <3>4. QED
        BY <3>2, <3>3
    <2>7. ASSUME NEW v \in vols' \ left'
          PROVE  Holds(v)' \/ \E u \in Uuid : Owning(u, v)'
      <3>1. v \in Volume /\ v \in vols \ left
        BY <2>1 DEF TypeInv, TypeOK
      <3>2. Holds(v) \/ \E u \in Uuid : Owning(u, v)
        BY <3>1 DEF NoOtherOrphans, Owning
      <3>3. CASE v = dom[w].vol
        BY <2>1, <2>2, <2>7, <3>3 DEF Holds
      <3>4. CASE v # dom[w].vol
        BY <2>4, <3>1, <3>2, <3>4 DEF Holds, Creating, Removing, Owning
      <3>5. QED
        BY <3>3, <3>4
    <2>8. QED
      BY <2>6, <2>7 DEF HolderInv, NoOtherOrphans, Owning
  <1>4. QED
    BY <1>2, <1>3

\* A deletion removes the volume it took over, or leaves it behind.
LEMMA RemovalKeepsHolders ==
  ASSUME TypeInv, TypeInv', HolderInv, NoOtherOrphans, NEW d \in Deletes, DeleteVolume(d)
  PROVE  HolderInv' /\ NoOtherOrphans'
  <1> DEFINE w == dom[op[d].uuid].vol
  <1>1. /\ d \in Request /\ op \in [Request -> OpState] /\ w \in Volume /\ Removing(d, w)
        /\ op[d].pc = "undefined"
    BY Held, HolderKinds DEF DeleteVolume, TypeInv, WithHandle, Domain, Removing
  <1>2. /\ op'[d].pc = "idle" /\ \A x \in Request \ {d} : op'[x] = op[x]
        /\ UNCHANGED <<dom, revived>> /\ vols \ {w} \subseteq vols' /\ vols' \subseteq vols
        /\ left \subseteq left' /\ (w \in vols' => w \in left')
    BY <1>1 DEF DeleteVolume, Done, Idle
  <1>3. ASSUME NEW v \in Volume
        PROVE  /\ \A x \in Creates : Creating(x, v)' = Creating(x, v)
               /\ \A x \in Deletes : Removing(x, v)' = (Removing(x, v) /\ x # d)
               /\ \A u \in Uuid : Owning(u, v)' = Owning(u, v)
    BY <1>1, <1>2, HolderKinds DEF Creating, Removing, Owning
  <1> HIDE DEF w
  <1>4. ASSUME revived' = {}, NEW v \in Volume PROVE OneHolder(v)'
    <2>1. OneHolder(v)
      BY <1>2, <1>4 DEF HolderInv
    <2>2. CASE v # w
      BY <1>2, <1>3, <2>1, <2>2, FewerHolders DEF OneHolder
    <2>3. CASE v = w
      <3>1. /\ \A x \in Creates : ~Creating(x, v)'
            /\ \A x \in Deletes : ~Removing(x, v)'
            /\ \A u \in Uuid : ~Owning(u, v)'
        BY <1>1, <1>3, <2>1, <2>3 DEF OneHolder
      <3>2. QED
        BY <3>1 DEF OneHolder
    <2>4. QED
      BY <2>2, <2>3
  <1>5. ASSUME NEW v \in vols' \ left'
        PROVE  Holds(v)' \/ \E u \in Uuid : Owning(u, v)'
    <2>1. v \in Volume /\ v \in vols \ left /\ v # w
      BY <1>2 DEF TypeInv, TypeOK
    <2>2. Holds(v) \/ \E u \in Uuid : Owning(u, v)
      BY <2>1 DEF NoOtherOrphans, Owning
    <2>3. \A x \in Deletes : Removing(x, v) => x # d
      BY <2>1 DEF Removing, w
    <2>4. QED
      BY <1>3, <2>1, <2>2, <2>3 DEF Holds, Creating, Removing
  <1>6. QED
    BY <1>4, <1>5 DEF HolderInv, NoOtherOrphans, Owning

\* A crash leaves behind what requests held.
LEMMA CrashKeepsHolders ==
  ASSUME TypeInv, TypeInv', HolderInv, NoOtherOrphans, Crash
  PROVE  HolderInv' /\ NoOtherOrphans'
  <1>1. /\ UNCHANGED <<dom, vols, revived>> /\ left \subseteq left'
        /\ \A x \in Request : op'[x].pc = "idle"
    BY DEF Crash, Idle
  <1>2. ASSUME NEW v \in Volume
        PROVE  /\ \A c \in Creates : ~Creating(c, v)'
               /\ \A d \in Deletes : ~Removing(d, v)'
               /\ \A u \in Uuid : Owning(u, v)' = Owning(u, v)
    BY <1>1, HolderKinds DEF Creating, Removing, Owning
  <1>3. ASSUME revived' = {}, NEW v \in Volume PROVE OneHolder(v)'
    BY <1>1, <1>2, <1>3 DEF HolderInv, OneHolder
  <1>4. ASSUME NEW v, Holds(v) PROVE v \in left'
    BY <1>4 DEF Crash, Holds
  <1>5. ASSUME NEW v \in vols' \ left' PROVE \E u \in Uuid : Owning(u, v)'
    <2>1. v \in Volume /\ v \in vols \ left /\ ~Holds(v)
      BY <1>1, <1>4 DEF TypeInv, TypeOK
    <2>2. \E u \in Uuid : Owning(u, v)
      BY <2>1 DEF NoOtherOrphans, Owning
    <2>3. QED
      BY <1>2, <2>1, <2>2
  <1>6. QED
    BY <1>3, <1>5 DEF HolderInv, NoOtherOrphans, Owning

-----------------------------------------------------------------------------
(***************************************************************************)
(* The theorems                                                            *)
(***************************************************************************)

LEMMA InitHolders == Init => IInv
  <1> SUFFICES ASSUME Init PROVE HolderInv /\ NoOtherOrphans
    BY InitTyped DEF IInv
  <1>1. \A u \in Uuid : ~dom[u].defined
    BY DEF Init, NoDomain
  <1>2. \A r \in Request : op[r].pc = "idle"
    BY DEF Init, Idle
  <1>3. QED
    BY <1>1, <1>2, HolderKinds
    DEF Init, HolderInv, OneHolder, Creating, Removing, Owning, NoOtherOrphans

LEMMA StepKeepsHolders == IInv /\ [Next]_vars => IInv'
  <1> SUFFICES ASSUME IInv, [Next]_vars PROVE HolderInv' /\ NoOtherOrphans'
    BY StepKeepsTypes DEF IInv
  <1>1. TypeInv /\ TypeInv' /\ HolderInv /\ NoOtherOrphans
    BY StepKeepsTypes DEF IInv
  <1>2. ASSUME Quiet PROVE HolderInv' /\ NoOtherOrphans'
    BY <1>1, <1>2, QuietKeepsHolders
  <1>3. CASE UNCHANGED vars
    BY <1>1, <1>2, <1>3, QuietSteps
  <1>4. ASSUME NEW c \in Creates, CreateSteps(c) PROVE HolderInv' /\ NoOtherOrphans'
    BY <1>1, <1>2, <1>4, QuietSteps, VolumeKeepsHolders, CreateEndsKeepsHolders, DefineKeepsHolders
    DEF CreateSteps
  <1>5. ASSUME NEW d \in Deletes, DeleteSteps(d) PROVE HolderInv' /\ NoOtherOrphans'
    BY <1>1, <1>2, <1>5, QuietSteps, UndefineKeepsHolders, RemovalKeepsHolders DEF DeleteSteps
  <1>6. CASE (\E u \in Uuid : PowerSteps(u)) \/ \E q \in Updates : UpdateSteps(q)
    BY <1>1, <1>2, <1>6, QuietSteps
  <1>7. CASE Crash
    BY <1>1, <1>7, CrashKeepsHolders
  <1>8. QED
    BY <1>3, <1>4, <1>5, <1>6, <1>7 DEF Next

LEMMA HoldersAreUnique == Spec => []IInv
  BY InitHolders, StepKeepsHolders, PTL DEF Spec

\* However creations, deletions, updates, power changes and crashes interleave,
\* a defined machine has its disk, until an update defines a deleted one again.
THEOREM DiskStays == Spec => []DefinedHasVolume
  <1>1. IInv => DefinedHasVolume
    <2> SUFFICES ASSUME IInv, revived = {}, NEW u \in Uuid, dom[u].defined PROVE dom[u].vol \in vols
      BY DEF DefinedHasVolume
    <2>1. dom[u].vol \in Volume /\ Owning(u, dom[u].vol)
      BY DefinedMade DEF IInv, Owning
    <2>2. QED
      BY <2>1 DEF IInv, HolderInv, OneHolder
  <1>2. QED
    BY <1>1, HoldersAreUnique, PTL

\* Every volume belongs to a domain or to a request at work on it, or was left
\* behind at one of the places where the code gives up.
THEOREM NothingElseLeaks == Spec => []NoOtherOrphans
  BY HoldersAreUnique, PTL DEF IInv

==============================================================================

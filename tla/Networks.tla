------------------------------- MODULE Networks -------------------------------
(***************************************************************************)
(* Virtual networks of the libvirt provider                                *)
(* (internal/hypervisor/libvirt/pools_networks.go): create, start, stop,   *)
(* update and delete, each a sequence of libvirt calls that nothing        *)
(* serialises, and the subnet arithmetic of the definitions they write.    *)
(*                                                                         *)
(* An address is a sequence of Octets octets of OctetBits bits.  Whether   *)
(* the network starts with the host is left out.                           *)
(***************************************************************************)
EXTENDS Integers, Sequences

CONSTANTS
  OctetBits, Octets,
  Names,      \* names of networks
  Bridges,    \* bridges of the host
  Cidrs,      \* the subnets requests name: [addr, prefix]
  Callers,
  MaxNets,    \* bound: networks ever defined
  MaxFaults,  \* bound: calls libvirt refuses
  MaxCrashes  \* bound: restarts of the server

VARIABLES
  net,    \* name -> what libvirt has under it
  op,     \* caller -> where it is
  made,   \* networks defined so far
  left,   \* networks that lie there without having been stopped
  faults, crashes

vars == <<net, op, made, left, faults, crashes>>

Bits == OctetBits * Octets
Base == 2 ^ OctetBits
Octet == 0..(Base - 1)
Addr == [1..Octets -> Octet]

-----------------------------------------------------------------------------
(***************************************************************************)
(* Subnets                                                                 *)
(***************************************************************************)

\* The values an octet takes when its host bits vary.
Span(i, prefix) ==
  LET fixed == prefix - (i - 1) * OctetBits
  IN  IF fixed <= 0 THEN Base ELSE IF fixed >= OctetBits THEN 1 ELSE 2 ^ (OctetBits - fixed)

Masked(a, prefix) == [i \in DOMAIN a |-> (a[i] \div Span(i, prefix)) * Span(i, prefix)]

Broadcast(a, prefix) == [i \in DOMAIN a |-> Masked(a, prefix)[i] + Span(i, prefix) - 1]

\* addToIP with -1: the borrow reaches an octet when those after it are zero.
Decrement(a) ==
  [i \in DOMAIN a |-> IF \A j \in DOMAIN a : j > i => a[j] = 0 THEN (a[i] - 1) % Base ELSE a[i]]

MutFirstHost(a, prefix) == [i \in DOMAIN a |-> Masked(a, prefix)[i] + 1]

\* subnetFirstAndLastHost: the lowest bit of every octet is set.
FirstHost(a, prefix) ==
  [i \in DOMAIN a |-> LET m == Masked(a, prefix)[i] IN IF m % 2 = 0 THEN m + 1 ELSE m]

MutLastHost(a, prefix) == Broadcast(a, prefix)

LastHost(a, prefix) == Decrement(Broadcast(a, prefix))

-----------------------------------------------------------------------------
(***************************************************************************)
(* Definitions                                                             *)
(***************************************************************************)

\* A field of a request is a set: empty when the request leaves it out.
Optional(S) == {{}} \cup {{x} : x \in S}

The(field) == CHOOSE x \in field : TRUE

Or(field, value) == IF field = {} THEN value ELSE The(field)

\* The bridge libvirt makes for a network that has a subnet.
OwnBridge == "virbr"

Request ==
  [mode : {"nat", "isolated"}, cidr : {{s} : s \in Cidrs}, dhcp : Optional(BOOLEAN), bridge : {{}}]
    \cup [mode : {"bridge"}, cidr : {{}}, dhcp : {{}}, bridge : {{b} : b \in Bridges}]

Change ==
  [mode : Optional({"nat", "isolated", "bridge"}), cidr : Optional(Cidrs),
   dhcp : Optional(BOOLEAN), bridge : Optional(Bridges)]
    \ {[mode |-> {}, cidr |-> {}, dhcp |-> {}, bridge |-> {}]}

\* networkCreateXML refuses a request without what its mode needs.
Accepted(r) == IF r.mode = "bridge" THEN r.bridge # {} ELSE r.cidr # {}

Bridged(b) == [mode |-> "bridge", bridge |-> b, addr |-> <<>>, prefix |-> 0, dhcp |-> FALSE, last |-> <<>>]

Routed(mode, s, dhcp) ==
  [mode |-> mode, bridge |-> OwnBridge, addr |-> FirstHost(s.addr, s.prefix), prefix |-> s.prefix,
   dhcp |-> dhcp, last |-> IF dhcp THEN LastHost(s.addr, s.prefix) ELSE <<>>]

Definition(r) ==
  IF r.mode = "bridge" THEN Bridged(The(r.bridge))
  ELSE Routed(r.mode, The(r.cidr), Or(r.dhcp, TRUE))

\* cidrFromIPPrefix, if the definition has an address; it refuses the prefix 0.
Current(x) == {s \in {[addr |-> x.addr, prefix |-> x.prefix]} : x.addr # <<>> /\ x.prefix > 0}

MutMerged(x, u) ==
  LET mode == Or(u.mode, x.mode)
  IN  IF mode = "bridge"
      THEN [mode |-> mode, cidr |-> {}, dhcp |-> {}, bridge |-> {Or(u.bridge, x.bridge)}]
      ELSE [mode |-> mode, cidr |-> IF u.cidr # {} THEN u.cidr ELSE Current(x),
            dhcp |-> u.dhcp, bridge |-> {}]

\* The current definition with the requested changes, as a request to create it.
Merged(x, u) ==
  LET mode == Or(u.mode, x.mode)
  IN  IF mode = "bridge"
      THEN [mode |-> mode, cidr |-> {}, dhcp |-> {}, bridge |-> {Or(u.bridge, x.bridge)}]
      ELSE [mode |-> mode, cidr |-> IF u.cidr # {} THEN u.cidr ELSE Current(x),
            dhcp |-> {Or(u.dhcp, x.dhcp)}, bridge |-> {}]

-----------------------------------------------------------------------------
(***************************************************************************)
(* The state                                                               *)
(***************************************************************************)

Nowhere == [uuid |-> 0, persistent |-> FALSE, active |-> FALSE, xml |-> Bridged("")]
Idle == [pc |-> "idle"]

Subnet == [addr : Addr, prefix : 0..Bits]
Xml ==
  {Bridged(b) : b \in Bridges \cup {OwnBridge}}
    \cup {Routed(m, s, d) : m \in {"nat", "isolated"}, s \in Subnet, d \in BOOLEAN}

\* What an update may ask libvirt to define.
Merges == {Merged(x, u) : x \in Xml, u \in Change}

OpState ==
  {Idle}
    \cup [pc : {"named"}, name : Names, req : Request]
    \cup [pc : {"defined", "undo", "start", "stop", "delete"}, name : Names, uuid : 1..MaxNets]
    \cup [pc : {"checked"}, name : Names, uuid : 1..MaxNets, req : Change]
    \cup [pc : {"merged"}, name : Names, req : Merges]

ASSUME NetworksAssumption ==
  /\ {OctetBits, Octets, MaxNets} \subseteq Nat \ {0}
  /\ {MaxFaults, MaxCrashes} \subseteq Nat
  /\ Cidrs \subseteq Subnet

TypeOK ==
  /\ \A n \in Names :
       \/ net[n] = Nowhere
       \/ /\ net[n].uuid \in 1..made /\ net[n].xml \in Xml
          /\ net[n].persistent \/ net[n].active
  /\ \A c \in Callers : op[c] \in OpState
  /\ made \in 0..MaxNets
  /\ left \subseteq Names
  /\ faults \in 0..MaxFaults /\ crashes \in 0..MaxCrashes

Init ==
  /\ net = [n \in Names |-> Nowhere]
  /\ op = [c \in Callers |-> Idle]
  /\ made = 0 /\ left = {} /\ faults = 0 /\ crashes = 0

-----------------------------------------------------------------------------
(***************************************************************************)
(* libvirt                                                                 *)
(***************************************************************************)

\* A network exists while it is defined or active; active only, it is gone when
\* it stops.
Exists(n) == net[n].persistent \/ net[n].active

\* A handle names the network it was got from.
Valid(o) == Exists(o.name) /\ net[o.name].uuid = o.uuid

Set(n, new) == net' = [net EXCEPT ![n] = IF new.persistent \/ new.active THEN new ELSE Nowhere]

\* NetworkDefineXML: an existing name keeps its identity.
DefineXML(n, x) ==
  IF Exists(n)
  THEN Set(n, [net[n] EXCEPT !.persistent = TRUE, !.xml = x]) /\ UNCHANGED made
  ELSE /\ made < MaxNets
       /\ made' = made + 1
       /\ Set(n, [uuid |-> made + 1, persistent |-> TRUE, active |-> FALSE, xml |-> x])

Works == UNCHANGED <<faults, crashes>>
Fault == faults < MaxFaults /\ faults' = faults + 1 /\ UNCHANGED crashes

Goto(c, o) == op' = [op EXCEPT ![c] = o]
Goes(c, pc) == Goto(c, [pc |-> pc, name |-> op[c].name, uuid |-> net[op[c].name].uuid])
Return(c) == Goto(c, Idle)

-----------------------------------------------------------------------------
(***************************************************************************)
(* CreateNetwork                                                           *)
(***************************************************************************)

CreateLookup(c, n, r) ==
  /\ op[c].pc = "idle"
  /\ Accepted(r)
  /\ ~Exists(n)
  /\ Goto(c, [pc |-> "named", name |-> n, req |-> r])
  /\ UNCHANGED <<net, made, left, faults, crashes>>

CreateDefine(c) ==
  /\ op[c].pc = "named"
  /\ DefineXML(op[c].name, Definition(op[c].req))
  /\ Goto(c, [pc |-> "defined", name |-> op[c].name, uuid |-> net'[op[c].name].uuid])
  /\ Works /\ UNCHANGED left

CreateStart(c) ==
  /\ op[c].pc = "defined"
  /\ LET n == op[c].name IN
       /\ Valid(op[c]) /\ ~net[n].active
       /\ Set(n, [net[n] EXCEPT !.active = TRUE])
       /\ left' = left \ {n}
  /\ Return(c)
  /\ Works /\ UNCHANGED made

MutCreateFails(c) ==
  /\ op[c].pc = "defined"
  /\ IF Valid(op[c]) /\ ~net[op[c].name].active THEN Fault ELSE Works
  /\ Return(c)
  /\ UNCHANGED <<net, made, left>>

\* A network that another call started, or that is gone, cannot be started either.
CreateFails(c) ==
  /\ op[c].pc = "defined"
  /\ IF Valid(op[c]) /\ ~net[op[c].name].active THEN Fault ELSE Works
  /\ Goto(c, [op[c] EXCEPT !.pc = "undo"])
  /\ UNCHANGED <<net, made, left>>

\* Undefine; of an active network it leaves the running one.
Undefine(n) == Set(n, [net[n] EXCEPT !.persistent = FALSE]) /\ left' = left \ {n}

CreateUndo(c) ==
  /\ op[c].pc = "undo"
  /\ IF Valid(op[c]) /\ net[op[c].name].persistent
     THEN Undefine(op[c].name)
     ELSE UNCHANGED <<net, left>>
  /\ Return(c)
  /\ Works /\ UNCHANGED made

\* libvirt refuses a definition.
CreateRefused(c) ==
  /\ op[c].pc = "named"
  /\ Return(c)
  /\ Works /\ UNCHANGED <<net, made, left>>

\* libvirt refuses to take a definition back.
UndoFails(c) ==
  /\ op[c].pc = "undo"
  /\ left' = left \cup {op[c].name}
  /\ Return(c)
  /\ Fault /\ UNCHANGED <<net, made>>

-----------------------------------------------------------------------------
(***************************************************************************)
(* StartNetwork, StopNetwork, DeleteNetwork                                *)
(***************************************************************************)

\* Each checks whether the network is active before it acts.
Check(c, n) ==
  /\ op[c].pc = "idle"
  /\ Exists(n)
  /\ \E pc \in IF net[n].active THEN {"stop"} ELSE {"start", "delete"} :
       Goto(c, [pc |-> pc, name |-> n, uuid |-> net[n].uuid])
  /\ UNCHANGED <<net, made, left, faults, crashes>>

Start(c) ==
  /\ op[c].pc = "start"
  /\ LET n == op[c].name IN
       /\ Valid(op[c]) /\ ~net[n].active
       /\ Set(n, [net[n] EXCEPT !.active = TRUE])
       /\ left' = left \ {n}
  /\ Return(c)
  /\ Works /\ UNCHANGED made

Stop(c) ==
  /\ op[c].pc = "stop"
  /\ LET n == op[c].name IN
       /\ Valid(op[c]) /\ net[n].active
       /\ Set(n, [net[n] EXCEPT !.active = FALSE])
       /\ left' = IF net[n].persistent THEN left \cup {n} ELSE left \ {n}
  /\ Return(c)
  /\ Works /\ UNCHANGED made

Delete(c) ==
  /\ op[c].pc = "delete"
  /\ Valid(op[c]) /\ net[op[c].name].persistent
  /\ Undefine(op[c].name)
  /\ Return(c)
  /\ Works /\ UNCHANGED made

\* What the call found is no longer so, or libvirt refuses.
Fails(c) ==
  /\ op[c].pc \in {"start", "stop", "delete"}
  /\ LET n == op[c].name
         able == Valid(op[c]) /\ CASE op[c].pc = "start"  -> ~net[n].active
                                   [] op[c].pc = "stop"   -> net[n].active
                                   [] op[c].pc = "delete" -> net[n].persistent
     IN  IF able THEN Fault ELSE Works
  /\ Return(c)
  /\ UNCHANGED <<net, made, left>>

-----------------------------------------------------------------------------
(***************************************************************************)
(* UpdateNetwork                                                           *)
(***************************************************************************)

UpdateCheck(c, n, u) ==
  /\ op[c].pc = "idle"
  /\ Exists(n) /\ ~net[n].active
  /\ Goto(c, [pc |-> "checked", name |-> n, uuid |-> net[n].uuid, req |-> u])
  /\ UNCHANGED <<net, made, left, faults, crashes>>

\* The definition is read and merged; a request that cannot be met, or a network
\* that is gone, ends the call.
UpdateRead(c) ==
  /\ op[c].pc = "checked"
  /\ LET r == Merged(net[op[c].name].xml, op[c].req) IN
       IF Valid(op[c]) /\ Accepted(r)
       THEN Goto(c, [pc |-> "merged", name |-> op[c].name, req |-> r])
       ELSE Return(c)
  /\ UNCHANGED <<net, made, left, faults, crashes>>

\* A network that was deleted meanwhile is defined again.
UpdateDefine(c) ==
  /\ op[c].pc = "merged"
  /\ \/ /\ DefineXML(op[c].name, Definition(op[c].req))
        /\ left' = IF Exists(op[c].name) THEN left ELSE left \cup {op[c].name}
     \/ UNCHANGED <<net, made, left>>
  /\ Return(c)
  /\ Works

-----------------------------------------------------------------------------
\* The server dies with its calls; libvirt keeps what it has.
Crash ==
  /\ crashes < MaxCrashes
  /\ crashes' = crashes + 1
  /\ left' = left \cup {op[c].name : c \in {d \in Callers : op[d].pc \in {"defined", "undo"}}}
  /\ op' = [c \in Callers |-> Idle]
  /\ UNCHANGED <<net, made, faults>>

Next ==
  \/ \E c \in Callers :
       \/ \E n \in Names : Check(c, n)
       \/ \E n \in Names : \E r \in Request : CreateLookup(c, n, r)
       \/ \E n \in Names : \E u \in Change : UpdateCheck(c, n, u)
       \/ CreateDefine(c) \/ CreateStart(c) \/ CreateFails(c) \/ CreateUndo(c) \/ CreateRefused(c)
       \/ UndoFails(c)
       \/ Start(c) \/ Stop(c) \/ Delete(c) \/ Fails(c)
       \/ UpdateRead(c) \/ UpdateDefine(c)
  \/ Crash

Spec == Init /\ [][Next]_vars

-----------------------------------------------------------------------------
(***************************************************************************)
(* Properties                                                              *)
(***************************************************************************)

Defining == {c \in Callers : op[c].pc \in {"named", "merged"} /\ op[c].req.mode # "bridge"}

Value(a) == LET sum[i \in 0..Octets] == IF i = 0 THEN 0 ELSE sum[i - 1] * Base + a[i] IN sum[Octets]

NetworkOf(s) == (Value(s.addr) \div 2 ^ (Bits - s.prefix)) * 2 ^ (Bits - s.prefix)

\* The comment of subnetFirstAndLastHost: the DHCP range of every definition
\* handed to libvirt ends at the last usable host of the subnet it was asked for,
\* one below the broadcast address, as numbers of the address width.  This is
\* about the subnets the error of networkCreateXML allows, "at least /30"; the
\* code also takes those that are smaller, which have no such host.
RangeEndsAtLastHost ==
  \A c \in Defining :
    LET s == The(op[c].req.cidr)
        x == Definition(op[c].req)
    IN  x.dhcp /\ s.prefix <= Bits - 2 => Value(x.last) = NetworkOf(s) + 2 ^ (Bits - s.prefix) - 2

\* The comment of subnetFirstAndLastHost: the gateway is the first usable host
\* of the subnet.
GatewayIsFirstHost ==
  \A c \in Defining :
    LET s == The(op[c].req.cidr)
    IN  s.prefix <= Bits - 2 => Value(Definition(op[c].req).addr) = NetworkOf(s) + 1

\* The gateway lies in the subnet that the DHCP range ends in.
GatewayInRange(x) == Masked(x.addr, x.prefix) = Masked(x.last, x.prefix)

\* Fields left nil keep their current value: what an update that goes through
\* defines has the mode, the address, the DHCP setting and the bridge of the
\* definition it read, save those it names, although they go through a
\* rendering, a parse and the arithmetic of subnets.  The DHCP range ends where
\* it did if the gateway lies in its subnet; a gateway outside of it, which
\* GatewayIsFirstHost is about, is taken for the subnet, and the range moves.
UpdateKeepsRest ==
  [][\A c \in Callers :
       op[c].pc = "checked" /\ op'[c].pc = "merged" =>
         LET x == net[op[c].name].xml
             u == op[c].req
             new == Definition(op'[c].req)
         IN  /\ u.mode = {} => new.mode = x.mode
             /\ new.mode # "bridge" /\ x.mode # "bridge" =>
                  /\ u.cidr = {} => new.addr = x.addr /\ new.prefix = x.prefix
                  /\ u.dhcp = {} => new.dhcp = x.dhcp
                  /\ u.cidr = {} /\ x.dhcp /\ new.dhcp /\ x.prefix < Bits /\ GatewayInRange(x)
                       => new.last = x.last
             /\ new.mode = "bridge" /\ u.bridge = {} => new.bridge = x.bridge]_vars

\* A network that lies there inactive while no call is at work on it was stopped,
\* or its update defined it after a deletion, or libvirt refused to take it back
\* or the server died in its creation: a creation that fails leaves nothing,
\* whatever ran meanwhile.
NothingLeftBehind ==
  \A n \in Names :
    net[n].persistent /\ ~net[n].active /\ (\A c \in Callers : op[c].pc # "idle" => op[c].name # n)
      => n \in left

=============================================================================

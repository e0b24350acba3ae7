--------------------------- MODULE NetworksProofs ---------------------------
(***************************************************************************)
(* Theorems about the networks and their definitions, for addresses of any *)
(* width and any networks, subnets, callers, faults and restarts.          *)
(***************************************************************************)
EXTENDS Networks, FiniteSetTheorems, WellFoundedInduction, TLAPS

\* What exists is defined or active, and was made.
Made(m) ==
  {x \in [uuid : 1..m, persistent : BOOLEAN, active : BOOLEAN, xml : Xml] : x.persistent \/ x.active}

NetTyped == made \in 0..MaxNets /\ net \in [Names -> {Nowhere} \cup Made(made)]

\* What is about to be defined was accepted.
OpTyped ==
  /\ op \in [Callers -> OpState]
  /\ \A c \in Callers : op[c].pc \in {"named", "merged"} => Accepted(op[c].req)

RestTyped == left \subseteq Names /\ faults \in 0..MaxFaults /\ crashes \in 0..MaxCrashes

TypeInv == NetTyped /\ OpTyped /\ RestTyped

\* A creation that has defined a network and has not started it yet.
Creating(c, n) == op[c].pc \in {"defined", "undo"} /\ op[c].name = n /\ op[c].uuid = net[n].uuid

\* Only its creation leaves a network inactive: the one that defined this very
\* network is still at work on it.
WorkerInv ==
  \A n \in Names \ left :
    net[n].persistent /\ ~net[n].active => \E c \in Callers : Creating(c, n)

IInv == TypeInv /\ WorkerInv

-----------------------------------------------------------------------------
(***************************************************************************)
(* Powers of two.  No prover here reasons about an exponent, so they are   *)
(* counted: 2 ^ n is the number of subsets of 1..n.                        *)
(***************************************************************************)

LEMMA SubsetsCounted ==
  ASSUME NEW n \in Nat
  PROVE  IsFiniteSet(SUBSET (1..n)) /\ Cardinality(SUBSET (1..n)) = 2 ^ n
  <1>1. IsFiniteSet(1..n) /\ Cardinality(1..n) = n
    BY FS_Interval
  <1>2. QED
    BY <1>1, FS_SUBSET

LEMMA PowPositive ==
  ASSUME NEW n \in Nat
  PROVE  2 ^ n \in Nat \ {0}
  <1>1. Cardinality(SUBSET (1..n)) \in Nat
    BY SubsetsCounted, FS_CardinalityType
  <1>2. Cardinality(SUBSET (1..n)) # 0
    <2>1. {} \in SUBSET (1..n)
      OBVIOUS
    <2>2. SUBSET (1..n) # {}
      BY <2>1
    <2>3. QED
      BY <2>2, SubsetsCounted, FS_EmptySet
  <1>3. QED
    BY <1>1, <1>2, SubsetsCounted

\* The subsets of 1..(n + 1) without n + 1 and those with it.
LEMMA PowSucc ==
  ASSUME NEW n \in Nat
  PROVE  2 ^ (n + 1) = 2 ^ n + 2 ^ n
  <1> DEFINE S == SUBSET (1..n)
             W == {s \cup {n + 1} : s \in S}
             f == [s \in S |-> s \cup {n + 1}]
  <1>1. f \in Bijection(S, W)
    <2>1. f \in Surjection(S, W)
      BY DEF Surjection
    <2>2. ASSUME NEW s \in S, NEW t \in S, f[s] = f[t]
          PROVE  s = t
      <3>1. n + 1 \notin s /\ n + 1 \notin t
        OBVIOUS
      <3>2. QED
        BY <3>1, <2>2
    <2>3. f \in Injection(S, W)
      <3>1. f \in [S -> W] /\ DOMAIN f = S
        OBVIOUS
      <3> HIDE DEF S, W, f
      <3>2. QED
        BY <3>1, <2>2 DEF Injection, IsInjective
    <2>4. QED
      BY <2>1, <2>3 DEF Bijection
  <1>2. IsFiniteSet(S) /\ Cardinality(S) = 2 ^ n
    BY SubsetsCounted
  <1>3. IsFiniteSet(W) /\ Cardinality(W) = 2 ^ n
    <2>1. ExistsBijection(S, W)
      BY <1>1 DEF ExistsBijection
    <2>2. QED
      BY <1>2, <2>1, FS_Bijection
  <1>4. S \cap W = {}
    <2>1. ASSUME NEW w \in S, w \in W
          PROVE  FALSE
      <3>1. n + 1 \in w
        BY <2>1
      <3>2. QED
        BY <3>1, <2>1
    <2>2. QED
      BY <2>1
  <1>5. SUBSET (1..(n + 1)) = S \cup W
    <2>1. 1..(n + 1) = (1..n) \cup {n + 1}
      OBVIOUS
    <2>2. ASSUME NEW w \in SUBSET (1..(n + 1))
          PROVE  w \in S \cup W
      <3>1. CASE n + 1 \in w
        <4>1. w \ {n + 1} \in S /\ w = (w \ {n + 1}) \cup {n + 1}
          BY <3>1, <2>1, <2>2
        <4>2. QED
          BY <4>1
      <3>2. CASE n + 1 \notin w
        BY <3>2, <2>1, <2>2
      <3>3. QED
        BY <3>1, <3>2
    <2>3. S \cup W \subseteq SUBSET (1..(n + 1))
      BY <2>1
    <2>4. QED
      BY <2>2, <2>3
  <1>6. Cardinality(SUBSET (1..(n + 1))) = 2 ^ (n + 1)
    BY n + 1 \in Nat, SubsetsCounted
  <1>7. Cardinality(S \cap W) = 0
    BY <1>4, FS_EmptySet
  <1>8. 2 ^ n \in Nat
    BY PowPositive
  <1>9. Cardinality(S \cup W) = Cardinality(S) + Cardinality(W) - Cardinality(S \cap W)
    BY <1>2, <1>3, FS_Union
  <1>10. Cardinality(S \cup W) = 2 ^ n + 2 ^ n
    <2> HIDE DEF S, W
    <2>1. QED
      BY <1>2, <1>3, <1>7, <1>8, <1>9
  <1>11. QED
    BY <1>5, <1>6, <1>10

LEMMA PowEven ==
  ASSUME NEW n \in Nat \ {0}
  PROVE  \E k \in Nat \ {0} : 2 ^ n = 2 * k
  <1>1. n - 1 \in Nat /\ n = (n - 1) + 1
    OBVIOUS
  <1>2. 2 ^ n = 2 ^ (n - 1) + 2 ^ (n - 1)
    BY <1>1, PowSucc
  <1>3. 2 ^ (n - 1) \in Nat \ {0}
    BY <1>1, PowPositive
  <1>4. QED
    BY <1>2, <1>3

-----------------------------------------------------------------------------
(***************************************************************************)
(* The arithmetic of subnets                                               *)
(***************************************************************************)

LEMMA Numbers ==
  /\ OctetBits \in Nat \ {0} /\ Octets \in Nat \ {0} /\ MaxNets \in Nat \ {0}
  /\ MaxFaults \in Nat /\ MaxCrashes \in Nat /\ Cidrs \subseteq Subnet
  BY NetworksAssumption

LEMMA BitsNat == Bits \in Nat
  BY Numbers DEF Bits

LEMMA BaseEven ==
  /\ Base \in Nat \ {0}
  /\ \E k \in Nat \ {0} : Base = 2 * k
  BY PowEven, Numbers DEF Base

LEMMA AddrShape ==
  ASSUME NEW a \in Addr
  PROVE  DOMAIN a = 1..Octets /\ \A i \in 1..Octets : a[i] \in Nat /\ a[i] < Base
  BY BaseEven DEF Addr, Octet

LEMMA OctetBelow ==
  ASSUME NEW n \in Nat, n < Base
  PROVE  n \in Octet
  BY BaseEven DEF Octet

\* An octet is fixed whole, or an even number of its values remain.
LEMMA SpanEven ==
  ASSUME NEW i \in 1..Octets, NEW p \in 0..Bits
  PROVE  \/ Span(i, p) = 1
         \/ \E k \in Nat \ {0} : Span(i, p) = 2 * k
  <1> DEFINE fixed == p - (i - 1) * OctetBits
  <1>1. fixed \in Int
    BY Numbers, BitsNat
  <1> HIDE DEF fixed
  <1>2. Span(i, p) = IF fixed <= 0 THEN Base ELSE IF fixed >= OctetBits THEN 1 ELSE 2 ^ (OctetBits - fixed)
    BY DEF Span, fixed
  <1>3. CASE fixed <= 0
    BY <1>2, <1>3, BaseEven
  <1>4. CASE ~(fixed <= 0) /\ fixed >= OctetBits
    BY <1>2, <1>4
  <1>5. CASE ~(fixed <= 0) /\ ~(fixed >= OctetBits)
    <2>1. OctetBits - fixed \in Nat \ {0}
      BY <1>1, <1>5, Numbers
    <2>2. QED
      BY <1>2, <1>5, <2>1, PowEven
  <1>6. QED
    BY <1>3, <1>4, <1>5

\* Numbers that are cut to a multiple of s and then made odd.
Cut(n, s) == (n \div s) * s
Odd(n) == IF n % 2 = 0 THEN n + 1 ELSE n

LEMMA CutAtMost ==
  ASSUME NEW n \in Nat, NEW s \in Nat \ {0}
  PROVE  Cut(n, s) \in Nat /\ Cut(n, s) <= n
  BY DEF Cut

LEMMA CutToOne ==
  ASSUME NEW n \in Nat
  PROVE  Cut(n, 1) = n
  BY DEF Cut

LEMMA CutOfCut ==
  ASSUME NEW q \in Nat, NEW s \in Nat \ {0}, NEW r \in 0..(s - 1)
  PROVE  Cut(q * s + r, s) = q * s
  <1>1. (q * s + r) \div s = q
    OBVIOUS
  <1>2. QED
    BY <1>1 DEF Cut

LEMMA EvenCut ==
  ASSUME NEW q \in Nat, NEW k \in Nat
  PROVE  (q * (2 * k)) % 2 = 0
  <1>1. q * (2 * k) = (q * k) * 2 /\ q * k \in Nat
    OBVIOUS
  <1>2. ASSUME NEW m \in Nat PROVE (m * 2) % 2 = 0
    OBVIOUS
  <1>3. QED
    BY <1>1, <1>2

LEMMA OddBelow ==
  ASSUME NEW n \in Nat, NEW k \in Nat, n < 2 * k
  PROVE  Odd(n) \in Nat /\ Odd(n) < 2 * k /\ Odd(n) % 2 = 1
  <1>1. CASE n % 2 = 0
    <2>1. n + 1 # 2 * k /\ (n + 1) % 2 = 1
      BY <1>1
    <2>2. QED
      BY <1>1, <2>1 DEF Odd
  <1>2. CASE n % 2 # 0
    BY <1>2 DEF Odd
  <1>3. QED
    BY <1>1, <1>2

\* The first host of its own subnet is the first host.
LEMMA OddCutTwice ==
  ASSUME NEW n \in Nat, NEW s \in Nat, s = 1 \/ \E k \in Nat \ {0} : s = 2 * k
  PROVE  Odd(Cut(Odd(Cut(n, s)), s)) = Odd(Cut(n, s))
  <1>1. CASE s = 1
    <2>1. Odd(n) \in Nat /\ Odd(n) % 2 = 1
      BY DEF Odd
    <2>2. Cut(n, s) = n /\ Cut(Odd(n), s) = Odd(n)
      BY <1>1, <2>1, CutToOne
    <2>3. ASSUME NEW m \in Nat, m % 2 = 1 PROVE Odd(m) = m
      BY <2>3 DEF Odd
    <2>4. Odd(Odd(n)) = Odd(n)
      BY <2>1, <2>3
    <2>5. QED
      BY <2>2, <2>4
  <1>2. CASE \E k \in Nat \ {0} : s = 2 * k
    <2>1. PICK k \in Nat \ {0} : s = 2 * k
      BY <1>2
    <2> DEFINE q == n \div s
    <2>2. q \in Nat /\ s \in Nat \ {0} /\ Cut(n, s) = q * s
      BY <2>1 DEF Cut
    <2> HIDE DEF q
    <2>3. (q * s) % 2 = 0 /\ q * s \in Nat
      BY <2>1, <2>2, EvenCut
    <2>4. Odd(Cut(n, s)) = q * s + 1
      BY <2>2, <2>3 DEF Odd
    <2>5. 1 \in 0..(s - 1)
      BY <2>1
    <2>6. Cut(q * s + 1, s) = q * s
      BY <2>2, <2>5, CutOfCut
    <2>7. QED
      BY <2>2, <2>3, <2>4, <2>6
  <1>3. QED
    BY <1>1, <1>2

LEMMA FirstHostShape ==
  ASSUME NEW a \in Addr, NEW p \in 0..Bits
  PROVE  FirstHost(a, p) = [i \in 1..Octets |-> Odd(Cut(a[i], Span(i, p)))]
  BY AddrShape DEF FirstHost, Masked, Odd, Cut

LEMMA FirstHostAddr ==
  ASSUME NEW a \in Addr, NEW p \in 0..Bits
  PROVE  FirstHost(a, p) \in Addr
  <1>1. ASSUME NEW i \in 1..Octets
        PROVE  Odd(Cut(a[i], Span(i, p))) \in Octet
    <2>1. a[i] \in Nat /\ a[i] < Base
      BY AddrShape
    <2>2. Span(i, p) \in Nat \ {0}
      BY SpanEven
    <2>3. Cut(a[i], Span(i, p)) \in Nat /\ Cut(a[i], Span(i, p)) < Base
      BY <2>1, <2>2, CutAtMost, BaseEven
    <2>4. Odd(Cut(a[i], Span(i, p))) \in Nat /\ Odd(Cut(a[i], Span(i, p))) < Base
      BY <2>3, BaseEven, OddBelow
    <2>5. QED
      BY <2>4, OctetBelow
  <1>2. FirstHost(a, p) = [i \in 1..Octets |-> Odd(Cut(a[i], Span(i, p)))]
    BY FirstHostShape
  <1>3. QED
    BY <1>1, <1>2 DEF Addr

LEMMA FirstHostTwice ==
  ASSUME NEW a \in Addr, NEW p \in 0..Bits
  PROVE  FirstHost(FirstHost(a, p), p) = FirstHost(a, p)
  <1> DEFINE f == FirstHost(a, p)
  <1>1. f \in Addr /\ FirstHost(f, p) = [i \in 1..Octets |-> Odd(Cut(f[i], Span(i, p)))]
    BY FirstHostAddr, FirstHostShape
  <1>2. f = [i \in 1..Octets |-> Odd(Cut(a[i], Span(i, p)))]
    BY FirstHostShape
  <1>3. ASSUME NEW i \in 1..Octets
        PROVE  Odd(Cut(f[i], Span(i, p))) = f[i]
    <2>1. f[i] = Odd(Cut(a[i], Span(i, p)))
      BY <1>2
    <2>2. a[i] \in Nat /\ Span(i, p) \in Nat
      BY AddrShape, SpanEven
    <2>3. QED
      BY <2>1, <2>2, SpanEven, OddCutTwice
  <1> HIDE DEF f
  <1>4. QED
    BY <1>1, <1>2, <1>3 DEF f

-----------------------------------------------------------------------------
(***************************************************************************)
(* Definitions and requests                                                *)
(***************************************************************************)

LEMMA TheOne ==
  ASSUME NEW x
  PROVE  The({x}) = x
  BY DEF The

LEMMA OptionalField ==
  ASSUME NEW S, NEW f \in Optional(S), f # {}
  PROVE  The(f) \in S /\ f = {The(f)}
  <1>1. PICK x \in S : f = {x}
    BY DEF Optional
  <1>2. QED
    BY <1>1, TheOne

LEMMA OrTyped ==
  ASSUME NEW S, NEW f \in Optional(S), NEW value \in S
  PROVE  Or(f, value) \in S
  BY OptionalField DEF Or

LEMMA XmlShape ==
  ASSUME NEW x \in Xml
  PROVE  \/ \E b \in Bridges \cup {OwnBridge} : x = Bridged(b)
         \/ \E m \in {"nat", "isolated"}, s \in Subnet, d \in BOOLEAN : x = Routed(m, s, d)
  BY DEF Xml

LEMMA BridgedXml ==
  ASSUME NEW b \in Bridges \cup {OwnBridge}
  PROVE  Bridged(b) \in Xml
  BY DEF Xml

LEMMA RoutedXml ==
  ASSUME NEW m \in {"nat", "isolated"}, NEW s \in Subnet, NEW d \in BOOLEAN
  PROVE  Routed(m, s, d) \in Xml
  BY DEF Xml

\* What is read back from a definition.
LEMMA XmlFields ==
  ASSUME NEW x \in Xml
  PROVE  /\ x.mode \in {"nat", "isolated", "bridge"}
         /\ x.bridge \in Bridges \cup {OwnBridge}
         /\ x.dhcp \in BOOLEAN
         /\ x.mode = "bridge" => x.addr = <<>>
         /\ x.mode # "bridge" =>
              /\ x.prefix \in 0..Bits
              /\ \E a \in Addr : x.addr = FirstHost(a, x.prefix)
  <1>1. CASE \E b \in Bridges \cup {OwnBridge} : x = Bridged(b)
    BY <1>1 DEF Bridged
  <1>2. CASE \E m \in {"nat", "isolated"}, s \in Subnet, d \in BOOLEAN : x = Routed(m, s, d)
    <2>1. PICK m \in {"nat", "isolated"}, s \in Subnet, d \in BOOLEAN : x = Routed(m, s, d)
      BY <1>2
    <2>2. /\ x.mode = m /\ x.bridge = OwnBridge /\ x.dhcp = d
          /\ x.prefix = s.prefix /\ x.addr = FirstHost(s.addr, s.prefix)
      BY <2>1 DEF Routed
    <2>3. s.addr \in Addr /\ s.prefix \in 0..Bits
      BY DEF Subnet
    <2>4. QED
      BY <2>2, <2>3
  <1>3. QED
    BY <1>1, <1>2, XmlShape

LEMMA XmlRange ==
  ASSUME NEW x \in Xml, x.mode # "bridge", x.dhcp
  PROVE  \E a \in Addr : x.addr = FirstHost(a, x.prefix) /\ x.last = LastHost(a, x.prefix)
  <1>1. PICK m \in {"nat", "isolated"}, s \in Subnet, d \in BOOLEAN : x = Routed(m, s, d)
    BY XmlShape DEF Bridged
  <1>2. x.dhcp = d /\ x.prefix = s.prefix /\ x.addr = FirstHost(s.addr, s.prefix)
    BY <1>1 DEF Routed
  <1>3. x.last = LastHost(s.addr, s.prefix)
    BY <1>1, <1>2 DEF Routed
  <1>4. s.addr \in Addr
    BY DEF Subnet
  <1>5. QED
    BY <1>2, <1>3, <1>4

LEMMA CurrentSubnet ==
  ASSUME NEW x \in Xml, Current(x) # {}
  PROVE  /\ Current(x) = {[addr |-> x.addr, prefix |-> x.prefix]}
         /\ [addr |-> x.addr, prefix |-> x.prefix] \in Subnet
  <1>1. x.addr # <<>> /\ Current(x) = {[addr |-> x.addr, prefix |-> x.prefix]}
    BY DEF Current
  <1>2. x.addr \in Addr /\ x.prefix \in 0..Bits
    BY <1>1, XmlFields, FirstHostAddr
  <1>3. QED
    BY <1>1, <1>2 DEF Subnet

\* A request that is accepted says what its mode needs.
LEMMA MergedShape ==
  ASSUME NEW x \in Xml, NEW u \in Change, Accepted(Merged(x, u))
  PROVE  LET r == Merged(x, u) IN
         /\ r.mode = Or(u.mode, x.mode)
         /\ r.mode \in {"nat", "isolated", "bridge"}
         /\ r.mode = "bridge" =>
              \E b \in Bridges \cup {OwnBridge} : r.bridge = {b} /\ b = Or(u.bridge, x.bridge)
         /\ r.mode # "bridge" =>
              /\ \E d \in BOOLEAN : r.dhcp = {d} /\ d = Or(u.dhcp, x.dhcp)
              /\ \E s \in Subnet : r.cidr = {s}
              /\ u.cidr = {} => r.cidr = {[addr |-> x.addr, prefix |-> x.prefix]}
  <1> DEFINE r == Merged(x, u)
             mode == Or(u.mode, x.mode)
  <1>1. /\ u.mode \in Optional({"nat", "isolated", "bridge"}) /\ u.cidr \in Optional(Cidrs)
        /\ u.dhcp \in Optional(BOOLEAN) /\ u.bridge \in Optional(Bridges)
    BY DEF Change
  <1>2. mode \in {"nat", "isolated", "bridge"}
    BY <1>1, XmlFields, OrTyped
  <1>3. r = IF mode = "bridge"
            THEN [mode |-> mode, cidr |-> {}, dhcp |-> {}, bridge |-> {Or(u.bridge, x.bridge)}]
            ELSE [mode |-> mode, cidr |-> IF u.cidr # {} THEN u.cidr ELSE Current(x),
                  dhcp |-> {Or(u.dhcp, x.dhcp)}, bridge |-> {}]
    BY DEF Merged
  <1> HIDE DEF r, mode
  <1>4. CASE mode = "bridge"
    <2>1. Or(u.bridge, x.bridge) \in Bridges \cup {OwnBridge}
      <3>1. CASE u.bridge = {}
        BY <3>1, XmlFields DEF Or
      <3>2. CASE u.bridge # {}
        BY <3>2, <1>1, OptionalField DEF Or
      <3>3. QED
        BY <3>1, <3>2
    <2>2. r.mode = mode /\ r.bridge = {Or(u.bridge, x.bridge)}
      BY <1>3, <1>4
    <2>3. QED
      BY <1>2, <1>4, <2>1, <2>2 DEF r, mode
  <1>5. CASE mode # "bridge"
    <2>1. Or(u.dhcp, x.dhcp) \in BOOLEAN
      BY <1>1, XmlFields, OrTyped
    <2>2. /\ r.mode = mode /\ r.dhcp = {Or(u.dhcp, x.dhcp)}
          /\ r.cidr = IF u.cidr # {} THEN u.cidr ELSE Current(x)
      BY <1>3, <1>5
    <2>3. r.cidr # {}
      BY <1>5, <2>2 DEF Accepted, r
    <2>4. \E s \in Subnet : r.cidr = {s}
      <3>1. CASE u.cidr # {}
        BY <3>1, <1>1, <2>2, OptionalField, Numbers
      <3>2. CASE u.cidr = {}
        BY <3>2, <2>2, <2>3, CurrentSubnet
      <3>3. QED
        BY <3>1, <3>2
    <2>5. u.cidr = {} => r.cidr = {[addr |-> x.addr, prefix |-> x.prefix]}
      BY <2>2, <2>3, CurrentSubnet
    <2>6. QED
      BY <1>2, <1>5, <2>1, <2>2, <2>4, <2>5 DEF r, mode
  <1>6. QED
    BY <1>4, <1>5

LEMMA DefinitionXml ==
  ASSUME NEW r \in Request \cup Merges, Accepted(r)
  PROVE  Definition(r) \in Xml
  <1>1. CASE r \in Request
    <2>1. CASE r.mode = "bridge"
      <3>1. PICK b \in Bridges : r.bridge = {b}
        BY <1>1, <2>1 DEF Request
      <3>2. QED
        BY <3>1, <2>1, TheOne, BridgedXml DEF Definition
    <2>2. CASE r.mode # "bridge"
      <3>1. /\ r.mode \in {"nat", "isolated"} /\ r.dhcp \in Optional(BOOLEAN)
            /\ \E s \in Cidrs : r.cidr = {s}
        BY <1>1, <2>2 DEF Request
      <3>2. The(r.cidr) \in Subnet
        BY <3>1, TheOne, Numbers
      <3>3. Or(r.dhcp, TRUE) \in BOOLEAN
        BY <3>1, OrTyped
      <3>4. QED
        BY <2>2, <3>1, <3>2, <3>3, RoutedXml DEF Definition
    <2>3. QED
      BY <2>1, <2>2
  <1>2. CASE r \in Merges
    <2>1. PICK x \in Xml, u \in Change : r = Merged(x, u)
      BY <1>2 DEF Merges
    <2>2. /\ r.mode \in {"nat", "isolated", "bridge"}
          /\ r.mode = "bridge" => \E b \in Bridges \cup {OwnBridge} : r.bridge = {b}
          /\ r.mode # "bridge" => (\E d \in BOOLEAN : r.dhcp = {d}) /\ (\E s \in Subnet : r.cidr = {s})
      BY <2>1, MergedShape
    <2>3. CASE r.mode = "bridge"
      BY <2>2, <2>3, TheOne, BridgedXml DEF Definition
    <2>4. CASE r.mode # "bridge"
      <3>1. PICK d \in BOOLEAN, s \in Subnet : r.dhcp = {d} /\ r.cidr = {s}
        BY <2>2, <2>4
      <3>2. The(r.cidr) = s /\ Or(r.dhcp, TRUE) = d
        BY <3>1, TheOne DEF Or
      <3>3. QED
        BY <2>2, <2>4, <3>2, RoutedXml DEF Definition
    <2>5. QED
      BY <2>3, <2>4
  <1>3. QED
    BY <1>1, <1>2

-----------------------------------------------------------------------------
(***************************************************************************)
(* Types                                                                   *)
(***************************************************************************)

Handles == {"defined", "undo", "start", "stop", "delete"}

LEMMA Held ==
  ASSUME TypeInv, NEW c \in Callers
  PROVE  /\ op[c] \in OpState
         /\ op[c].pc # "idle" => op[c].name \in Names
         /\ op[c].pc \in Handles => op[c].uuid \in 1..MaxNets
         /\ op[c].pc = "named" => op[c].req \in Request
         /\ op[c].pc = "checked" => op[c].req \in Change
         /\ op[c].pc = "merged" => op[c].req \in Merges
         /\ op[c].pc \in {"named", "merged"} => Accepted(op[c].req)
  <1>1. op[c] \in OpState
    BY DEF TypeInv, OpTyped
  <1>2. op[c].pc \in {"named", "merged"} => Accepted(op[c].req)
    BY DEF TypeInv, OpTyped
  <1>3. QED
    BY <1>1, <1>2 DEF OpState, Idle, Handles

LEMMA NowhereIs == Nowhere.persistent = FALSE /\ Nowhere.active = FALSE
  BY DEF Nowhere

LEMMA NetThere ==
  ASSUME TypeInv, NEW n \in Names, Exists(n)
  PROVE  /\ net[n] \in Made(made)
         /\ net[n].uuid \in 1..made /\ net[n].uuid \in 1..MaxNets
         /\ net[n].persistent \in BOOLEAN /\ net[n].active \in BOOLEAN
         /\ net[n].xml \in Xml
  <1>1. net[n] # Nowhere
    BY NowhereIs DEF Exists
  <1>2. net[n] \in Made(made) /\ made \in 0..MaxNets
    BY <1>1 DEF TypeInv, NetTyped
  <1>3. QED
    BY <1>2, Numbers DEF Made

\* A step that takes one call to another place.
Moves(c, o) == op' \in [Callers -> OpState] /\ op'[c] = o /\ \A d \in Callers \ {c} : op'[d] = op[d]

LEMMA GoesTo ==
  ASSUME TypeInv, NEW c \in Callers, NEW o \in OpState, Goto(c, o)
  PROVE  Moves(c, o)
  BY DEF TypeInv, OpTyped, Goto, Moves

LEMMA Returns ==
  ASSUME TypeInv, NEW c \in Callers, Return(c)
  PROVE  Moves(c, Idle)
  <1>1. Idle \in OpState
    BY DEF OpState
  <1>2. QED
    BY <1>1, GoesTo DEF Return

LEMMA MovesTyped ==
  ASSUME TypeInv, NEW c \in Callers, NEW o, Moves(c, o),
         o.pc \in {"named", "merged"} => Accepted(o.req)
  PROVE  OpTyped'
  <1>1. \A d \in Callers : op'[d].pc \in {"named", "merged"} => Accepted(op'[d].req)
    BY DEF TypeInv, OpTyped, Moves
  <1>2. QED
    BY <1>1 DEF OpTyped, Moves

LEMMA Stays ==
  ASSUME TypeInv, UNCHANGED net, UNCHANGED made
  PROVE  NetTyped'
  BY DEF TypeInv, NetTyped

LEMMA Counted ==
  ASSUME TypeInv, Works \/ Fault \/ UNCHANGED <<faults, crashes>>, left' \subseteq Names
  PROVE  RestTyped'
  BY Numbers DEF TypeInv, RestTyped, Works, Fault

\* The libvirt calls change one network.
Changes(n, new) ==
  /\ net'[n] = IF new.persistent \/ new.active THEN new ELSE Nowhere
  /\ \A m \in Names \ {n} : net'[m] = net[m]

LEMMA SetTyped ==
  ASSUME TypeInv, NEW n \in Names, NEW new, Set(n, new), UNCHANGED made,
         new \in [uuid : 1..made, persistent : BOOLEAN, active : BOOLEAN, xml : Xml]
  PROVE  NetTyped' /\ Changes(n, new)
  <1>1. new.persistent \/ new.active => new \in Made(made)
    BY DEF Made
  <1>2. QED
    BY <1>1 DEF TypeInv, NetTyped, Set, Changes

\* A definition: of a network that exists, which keeps its identity, or of a new one.
LEMMA Defines ==
  ASSUME TypeInv, NEW n \in Names, NEW x \in Xml, DefineXML(n, x)
  PROVE  /\ NetTyped'
         /\ \A m \in Names \ {n} : net'[m] = net[m]
         /\ net'[n].persistent /\ net'[n].uuid \in 1..MaxNets
         /\ Exists(n) => /\ net'[n].active = net[n].active /\ net'[n].uuid = net[n].uuid
  <1>0. made \in 0..MaxNets /\ MaxNets \in Nat
    BY Numbers DEF TypeInv, NetTyped
  <1>1. CASE Exists(n)
    <2> DEFINE new == [net[n] EXCEPT !.persistent = TRUE, !.xml = x]
    <2>1. /\ new \in [uuid : 1..made, persistent : BOOLEAN, active : BOOLEAN, xml : Xml]
          /\ new.persistent /\ new.active = net[n].active /\ new.uuid = net[n].uuid
      BY <1>1, NetThere DEF Made
    <2>2. Set(n, new) /\ UNCHANGED made
      BY <1>1 DEF DefineXML
    <2> HIDE DEF new
    <2>3. NetTyped' /\ Changes(n, new)
      BY <2>1, <2>2, SetTyped
    <2>4. QED
      BY <1>1, <2>1, <2>3, NetThere DEF Changes
  <1>2. CASE ~Exists(n)
    <2> DEFINE new == [uuid |-> made + 1, persistent |-> TRUE, active |-> FALSE, xml |-> x]
    <2>1. made < MaxNets /\ made' = made + 1 /\ Set(n, new)
      BY <1>2 DEF DefineXML
    <2>2. new \in Made(made + 1) /\ new.persistent /\ new.uuid = made + 1
      BY <1>0 DEF Made
    <2>3. Made(made) \subseteq Made(made + 1)
      BY <1>0 DEF Made
    <2> HIDE DEF new
    <2>4. net' = [net EXCEPT ![n] = new]
      BY <2>1, <2>2 DEF Set
    <2>5. net \in [Names -> {Nowhere} \cup Made(made)]
      BY DEF TypeInv, NetTyped
    <2>6. net' \in [Names -> {Nowhere} \cup Made(made + 1)]
      BY <2>2, <2>3, <2>4, <2>5
    <2>7. net'[n] = new /\ \A m \in Names \ {n} : net'[m] = net[m]
      BY <2>4, <2>5
    <2>8. NetTyped'
      BY <1>0, <2>1, <2>6 DEF NetTyped
    <2>9. QED
      BY <1>0, <1>2, <2>1, <2>2, <2>7, <2>8
  <1>3. QED
    BY <1>1, <1>2

LEMMA Starts ==
  ASSUME TypeInv, NEW n \in Names, Exists(n), UNCHANGED made,
         NEW b \in BOOLEAN, Set(n, [net[n] EXCEPT !.active = b])
  PROVE  /\ NetTyped' /\ \A m \in Names \ {n} : net'[m] = net[m]
         /\ net'[n].persistent = net[n].persistent
         /\ net'[n].active = b
  <1> DEFINE new == [net[n] EXCEPT !.active = b]
  <1>1. /\ new \in [uuid : 1..made, persistent : BOOLEAN, active : BOOLEAN, xml : Xml]
        /\ new.active = b /\ new.persistent = net[n].persistent
    BY NetThere DEF Made
  <1> HIDE DEF new
  <1>2. NetTyped' /\ Changes(n, new)
    BY <1>1, SetTyped DEF new
  <1>3. QED
    BY <1>1, <1>2, NetThere, NowhereIs DEF Changes

LEMMA Undefines ==
  ASSUME TypeInv, NEW n \in Names, Exists(n), UNCHANGED made, Undefine(n)
  PROVE  /\ NetTyped' /\ \A m \in Names \ {n} : net'[m] = net[m]
         /\ ~net'[n].persistent
         /\ left' = left \ {n}
  <1> DEFINE new == [net[n] EXCEPT !.persistent = FALSE]
  <1>1. /\ new \in [uuid : 1..made, persistent : BOOLEAN, active : BOOLEAN, xml : Xml]
        /\ new.persistent = FALSE
    BY NetThere DEF Made
  <1>2. Set(n, new) /\ left' = left \ {n}
    BY DEF Undefine
  <1> HIDE DEF new
  <1>3. NetTyped' /\ Changes(n, new)
    BY <1>1, <1>2, SetTyped
  <1>4. QED
    BY <1>1, <1>2, <1>3, NowhereIs DEF Changes

-----------------------------------------------------------------------------
(***************************************************************************)
(* Each step keeps the types, and some creation at work on what lies there *)
(***************************************************************************)

CreatingNext(n) ==
  \E d \in Callers : op'[d].pc \in {"defined", "undo"} /\ op'[d].name = n /\ op'[d].uuid = net'[n].uuid

\* A step of a call that works on n: only what becomes of n matters.
LEMMA OthersKept ==
  ASSUME TypeInv, WorkerInv, NEW c \in Callers, NEW n \in Names, NEW o, Moves(c, o),
         op[c].pc \in {"defined", "undo"} => op[c].name = n,
         \A m \in Names \ {n} : net'[m] = net[m],
         left \ {n} \subseteq left',
         n \in left' \/ ~net'[n].persistent \/ net'[n].active \/ CreatingNext(n)
  PROVE  WorkerInv'
  <1>1. ASSUME NEW m \in Names \ left', net'[m].persistent, ~net'[m].active
        PROVE  CreatingNext(m)
    <2>1. CASE m = n
      BY <1>1, <2>1
    <2>2. CASE m # n
      <3>1. m \in Names \ left /\ net'[m] = net[m]
        BY <1>1, <2>2
      <3>2. PICK d \in Callers : Creating(d, m)
        BY <1>1, <3>1 DEF WorkerInv
      <3>3. d # c
        BY <2>2, <3>2 DEF Creating
      <3>4. op'[d] = op[d]
        BY <3>3 DEF Moves
      <3>5. QED
        BY <3>1, <3>2, <3>4 DEF Creating, CreatingNext
    <2>3. QED
      BY <2>1, <2>2
  <1>2. QED
    BY <1>1 DEF WorkerInv, Creating, CreatingNext

\* A call that only takes note of something.
LEMMA Noted ==
  ASSUME TypeInv, WorkerInv, NEW c \in Callers, NEW o, Moves(c, o),
         o.pc \in {"named", "merged"} => Accepted(o.req),
         op[c].pc \notin {"defined", "undo"},
         UNCHANGED <<net, made, left>>, Works \/ Fault \/ UNCHANGED <<faults, crashes>>
  PROVE  TypeInv' /\ WorkerInv'
  <1>1. OpTyped' /\ NetTyped' /\ RestTyped'
    <2>1. left' \subseteq Names
      BY DEF TypeInv, RestTyped
    <2>2. QED
      BY <2>1, MovesTyped, Stays, Counted
  <1>2. ASSUME NEW m \in Names \ left', net'[m].persistent, ~net'[m].active
        PROVE  CreatingNext(m)
    <2>1. PICK d \in Callers : Creating(d, m)
      BY <1>2 DEF WorkerInv
    <2>2. d # c
      BY <2>1 DEF Creating
    <2>3. QED
      BY <2>1, <2>2 DEF Creating, CreatingNext, Moves
  <1>3. QED
    BY <1>1, <1>2 DEF TypeInv, WorkerInv, Creating, CreatingNext

LEMMA CheckKeeps ==
  ASSUME TypeInv, WorkerInv, NEW c \in Callers, NEW n \in Names, Check(c, n)
  PROVE  TypeInv' /\ WorkerInv'
  <1>1. Exists(n) /\ net[n].uuid \in 1..MaxNets
    BY NetThere DEF Check
  <1>2. PICK pc \in {"start", "stop", "delete"} : Goto(c, [pc |-> pc, name |-> n, uuid |-> net[n].uuid])
    BY DEF Check
  <1> DEFINE o == [pc |-> pc, name |-> n, uuid |-> net[n].uuid]
  <1>3. o \in OpState /\ o.pc \notin {"named", "merged"}
    BY <1>1 DEF OpState
  <1> HIDE DEF o
  <1>4. Moves(c, o)
    BY <1>2, <1>3, GoesTo DEF o
  <1>5. QED
    BY <1>3, <1>4, Noted DEF Check

LEMMA CreateLookupKeeps ==
  ASSUME TypeInv, WorkerInv, NEW c \in Callers, NEW n \in Names, NEW r \in Request, CreateLookup(c, n, r)
  PROVE  TypeInv' /\ WorkerInv'
  <1> DEFINE o == [pc |-> "named", name |-> n, req |-> r]
  <1>1. o \in OpState /\ o.req = r
    BY DEF OpState
  <1>2. Goto(c, o) /\ Accepted(r)
    BY DEF CreateLookup
  <1> HIDE DEF o
  <1>3. Moves(c, o)
    BY <1>1, <1>2, GoesTo
  <1>4. QED
    BY <1>1, <1>2, <1>3, Noted DEF CreateLookup

LEMMA UpdateCheckKeeps ==
  ASSUME TypeInv, WorkerInv, NEW c \in Callers, NEW n \in Names, NEW u \in Change, UpdateCheck(c, n, u)
  PROVE  TypeInv' /\ WorkerInv'
  <1> DEFINE o == [pc |-> "checked", name |-> n, uuid |-> net[n].uuid, req |-> u]
  <1>1. o \in OpState /\ o.pc = "checked"
    BY NetThere DEF OpState, UpdateCheck
  <1>2. Goto(c, o)
    BY DEF UpdateCheck
  <1> HIDE DEF o
  <1>3. Moves(c, o)
    BY <1>1, <1>2, GoesTo
  <1>4. QED
    BY <1>1, <1>3, Noted DEF UpdateCheck

LEMMA UpdateReadKeeps ==
  ASSUME TypeInv, WorkerInv, NEW c \in Callers, UpdateRead(c)
  PROVE  TypeInv' /\ WorkerInv'
  <1> DEFINE r == Merged(net[op[c].name].xml, op[c].req)
             o == [pc |-> "merged", name |-> op[c].name, req |-> r]
  <1>1. op[c].name \in Names /\ op[c].req \in Change
    BY Held DEF UpdateRead
  <1>2. CASE Valid(op[c]) /\ Accepted(r) /\ Goto(c, o)
    <2>1. net[op[c].name].xml \in Xml
      BY <1>1, <1>2, NetThere DEF Valid
    <2>2. r \in Merges
      BY <1>1, <2>1 DEF Merges
    <2>3. o \in OpState /\ o.req = r
      BY <1>1, <2>2 DEF OpState
    <2> HIDE DEF o, r
    <2>4. Moves(c, o)
      BY <1>2, <2>3, GoesTo
    <2>5. QED
      BY <1>2, <2>3, <2>4, Noted DEF UpdateRead
  <1>3. CASE Return(c)
    BY <1>3, Returns, Noted DEF UpdateRead, Idle
  <1>4. QED
    BY <1>2, <1>3 DEF UpdateRead

LEMMA CreateRefusedKeeps ==
  ASSUME TypeInv, WorkerInv, NEW c \in Callers, CreateRefused(c)
  PROVE  TypeInv' /\ WorkerInv'
  BY Returns, Noted DEF CreateRefused, Idle

LEMMA FailsKeeps ==
  ASSUME TypeInv, WorkerInv, NEW c \in Callers, Fails(c)
  PROVE  TypeInv' /\ WorkerInv'
  <1>1. Works \/ Fault
    BY DEF Fails
  <1>2. QED
    BY <1>1, Returns, Noted DEF Fails, Idle

LEMMA CreateDefineKeeps ==
  ASSUME TypeInv, WorkerInv, NEW c \in Callers, CreateDefine(c)
  PROVE  TypeInv' /\ WorkerInv'
  <1> DEFINE n == op[c].name
             o == [pc |-> "defined", name |-> n, uuid |-> net'[n].uuid]
  <1>1. n \in Names /\ Definition(op[c].req) \in Xml
    BY Held, DefinitionXml DEF CreateDefine
  <1>2. DefineXML(n, Definition(op[c].req)) /\ Goto(c, o)
    BY DEF CreateDefine
  <1>3. NetTyped' /\ (\A m \in Names \ {n} : net'[m] = net[m]) /\ net'[n].uuid \in 1..MaxNets
    BY <1>1, <1>2, Defines
  <1>4. o \in OpState /\ o.pc = "defined" /\ o.name = n /\ o.uuid = net'[n].uuid
    BY <1>1, <1>3 DEF OpState
  <1> HIDE DEF o
  <1>5. Moves(c, o)
    BY <1>2, <1>4, GoesTo
  <1>6. OpTyped' /\ RestTyped'
    <2>1. left' \subseteq Names /\ Works
      BY DEF TypeInv, RestTyped, CreateDefine
    <2>2. QED
      BY <1>4, <1>5, <2>1, MovesTyped, Counted
  <1>7. CreatingNext(n)
    BY <1>4, <1>5 DEF CreatingNext, Moves
  <1>8. WorkerInv'
    BY <1>1, <1>3, <1>5, <1>7, OthersKept DEF CreateDefine
  <1>9. QED
    BY <1>3, <1>6, <1>8 DEF TypeInv

\* A call that returns when it has changed its network, or has found it changed.
LEMMA ReturnKeeps ==
  ASSUME TypeInv, WorkerInv, NEW c \in Callers, Return(c),
         op[c].pc # "idle", NetTyped', left' \subseteq Names,
         \A m \in Names \ {op[c].name} : net'[m] = net[m],
         left \ {op[c].name} \subseteq left',
         Works \/ Fault,
         \/ op[c].name \in left' \/ ~net'[op[c].name].persistent \/ net'[op[c].name].active
         \/ CreatingNext(op[c].name)
  PROVE  TypeInv' /\ WorkerInv'
  <1>1. op[c].name \in Names /\ Moves(c, Idle)
    BY Held, Returns
  <1>2. OpTyped' /\ RestTyped'
    BY <1>1, MovesTyped, Counted DEF Idle
  <1>3. WorkerInv'
    BY <1>1, OthersKept
  <1>4. QED
    BY <1>2, <1>3 DEF TypeInv

LEMMA StartKeeps ==
  ASSUME TypeInv, WorkerInv, NEW c \in Callers, CreateStart(c) \/ Start(c)
  PROVE  TypeInv' /\ WorkerInv'
  <1> DEFINE n == op[c].name
  <1>1. /\ op[c].pc # "idle" /\ Exists(n) /\ Set(n, [net[n] EXCEPT !.active = TRUE])
        /\ left' = left \ {n} /\ Return(c) /\ Works /\ UNCHANGED made
    BY DEF CreateStart, Start, Valid
  <1>2. n \in Names
    BY <1>1, Held
  <1>3. NetTyped' /\ (\A m \in Names \ {n} : net'[m] = net[m]) /\ net'[n].active
    BY <1>1, <1>2, Starts
  <1>4. left' \subseteq Names /\ left \ {n} \subseteq left'
    BY <1>1 DEF TypeInv, RestTyped
  <1>5. QED
    BY <1>1, <1>3, <1>4, ReturnKeeps

LEMMA StopKeeps ==
  ASSUME TypeInv, WorkerInv, NEW c \in Callers, Stop(c)
  PROVE  TypeInv' /\ WorkerInv'
  <1> DEFINE n == op[c].name
  <1>1. /\ op[c].pc # "idle" /\ Exists(n) /\ Set(n, [net[n] EXCEPT !.active = FALSE])
        /\ left' = (IF net[n].persistent THEN left \cup {n} ELSE left \ {n})
        /\ Return(c) /\ Works /\ UNCHANGED made
    BY DEF Stop, Valid
  <1>2. n \in Names
    BY <1>1, Held
  <1>3. NetTyped' /\ (\A m \in Names \ {n} : net'[m] = net[m]) /\ net'[n].persistent = net[n].persistent
    BY <1>1, <1>2, Starts
  <1>4. left' \subseteq Names /\ left \ {n} \subseteq left' /\ (n \in left' \/ ~net'[n].persistent)
    BY <1>1, <1>2, <1>3 DEF TypeInv, RestTyped
  <1>5. QED
    BY <1>1, <1>3, <1>4, ReturnKeeps

LEMMA UndefineKeeps ==
  ASSUME TypeInv, WorkerInv, NEW c \in Callers, op[c].pc # "idle",
         Exists(op[c].name), Undefine(op[c].name), Return(c), Works, UNCHANGED made
  PROVE  TypeInv' /\ WorkerInv'
  <1> DEFINE n == op[c].name
  <1>1. n \in Names
    BY Held
  <1>2. /\ NetTyped' /\ (\A m \in Names \ {n} : net'[m] = net[m])
        /\ ~net'[n].persistent /\ left' = left \ {n}
    BY <1>1, Undefines
  <1>3. left' \subseteq Names /\ left \ {n} \subseteq left'
    BY <1>2 DEF TypeInv, RestTyped
  <1>4. QED
    BY <1>2, <1>3, ReturnKeeps

LEMMA DeleteKeeps ==
  ASSUME TypeInv, WorkerInv, NEW c \in Callers, Delete(c)
  PROVE  TypeInv' /\ WorkerInv'
  BY UndefineKeeps DEF Delete, Valid

\* An undo that finds its network gone leaves no work of its own behind.
LEMMA CreateUndoKeeps ==
  ASSUME TypeInv, WorkerInv, NEW c \in Callers, CreateUndo(c)
  PROVE  TypeInv' /\ WorkerInv'
  <1> DEFINE n == op[c].name
  <1>1. op[c].pc = "undo" /\ Return(c) /\ Works /\ UNCHANGED made
    BY DEF CreateUndo
  <1>2. CASE Valid(op[c]) /\ net[n].persistent
    BY <1>1, <1>2, UndefineKeeps DEF CreateUndo, Valid
  <1>3. CASE ~(Valid(op[c]) /\ net[n].persistent)
    <2>1. UNCHANGED <<net, left>>
      BY <1>3 DEF CreateUndo
    <2>2. n \in Names /\ Moves(c, Idle)
      BY <1>1, Held, Returns
    <2>3. ASSUME n \notin left, net[n].persistent, ~net[n].active
          PROVE  CreatingNext(n)
      <3>1. PICK d \in Callers : Creating(d, n)
        BY <2>2, <2>3 DEF WorkerInv
      <3>2. d # c
        BY <1>3, <2>3, <3>1 DEF Creating, Valid, Exists
      <3>3. QED
        BY <2>1, <2>2, <3>1, <3>2 DEF Creating, CreatingNext, Moves
    <2>4. NetTyped' /\ left' \subseteq Names
      BY <1>1, <2>1, Stays DEF TypeInv, RestTyped
    <2>5. QED
      BY <1>1, <2>1, <2>3, <2>4, ReturnKeeps
  <1>4. QED
    BY <1>2, <1>3

LEMMA UndoFailsKeeps ==
  ASSUME TypeInv, WorkerInv, NEW c \in Callers, UndoFails(c)
  PROVE  TypeInv' /\ WorkerInv'
  <1>1. /\ op[c].pc = "undo" /\ Return(c) /\ Fault /\ UNCHANGED <<net, made>>
        /\ left' = left \cup {op[c].name}
    BY DEF UndoFails
  <1>2. op[c].name \in Names
    BY <1>1, Held
  <1>3. NetTyped' /\ left' \subseteq Names
    BY <1>1, <1>2, Stays DEF TypeInv, RestTyped
  <1>4. QED
    BY <1>1, <1>3, ReturnKeeps

\* What cannot be started is still this creation's to take back.
LEMMA CreateFailsKeeps ==
  ASSUME TypeInv, WorkerInv, NEW c \in Callers, CreateFails(c)
  PROVE  TypeInv' /\ WorkerInv'
  <1> DEFINE o == [op[c] EXCEPT !.pc = "undo"]
  <1>1. /\ op[c].pc = "defined" /\ Goto(c, o) /\ (Works \/ Fault) /\ UNCHANGED <<net, made, left>>
    BY DEF CreateFails
  <1>2. o \in OpState /\ o.pc = "undo" /\ o.name = op[c].name /\ o.uuid = op[c].uuid
    <2>1. op[c] \in OpState
      BY Held
    <2>2. QED
      BY <1>1, <2>1 DEF OpState, Idle
  <1> HIDE DEF o
  <1>3. Moves(c, o)
    BY <1>1, <1>2, GoesTo
  <1>4. OpTyped' /\ NetTyped' /\ RestTyped'
    <2>1. left' \subseteq Names
      BY <1>1 DEF TypeInv, RestTyped
    <2>2. QED
      BY <1>1, <1>2, <1>3, <2>1, MovesTyped, Stays, Counted
  <1>5. ASSUME NEW m \in Names \ left', net'[m].persistent, ~net'[m].active
        PROVE  CreatingNext(m)
    <2>1. PICK d \in Callers : Creating(d, m)
      BY <1>1, <1>5 DEF WorkerInv
    <2>2. CASE d = c
      BY <1>1, <1>2, <1>3, <2>1, <2>2 DEF Creating, CreatingNext, Moves
    <2>3. CASE d # c
      BY <1>1, <1>3, <2>1, <2>3 DEF Creating, CreatingNext, Moves
    <2>4. QED
      BY <2>2, <2>3
  <1>6. QED
    BY <1>4, <1>5 DEF TypeInv, WorkerInv, Creating, CreatingNext

LEMMA UpdateDefineKeeps ==
  ASSUME TypeInv, WorkerInv, NEW c \in Callers, UpdateDefine(c)
  PROVE  TypeInv' /\ WorkerInv'
  <1> DEFINE n == op[c].name
  <1>1. n \in Names /\ Definition(op[c].req) \in Xml /\ Moves(c, Idle)
    BY Held, DefinitionXml, Returns DEF UpdateDefine
  <1>2. CASE /\ DefineXML(n, Definition(op[c].req))
             /\ left' = (IF Exists(n) THEN left ELSE left \cup {n})
    <2>1. /\ NetTyped' /\ (\A m \in Names \ {n} : net'[m] = net[m]) /\ net'[n].persistent
          /\ Exists(n) => net'[n].active = net[n].active /\ net'[n].uuid = net[n].uuid
      BY <1>1, <1>2, Defines
    <2>2. left' \subseteq Names /\ left \subseteq left'
      BY <1>1, <1>2 DEF TypeInv, RestTyped
    <2>3. ASSUME n \notin left', ~net'[n].active
          PROVE  CreatingNext(n)
      <3>1. Exists(n) /\ n \notin left /\ ~net[n].active
        BY <1>2, <2>1, <2>3
      <3>2. PICK d \in Callers : Creating(d, n)
        BY <1>1, <3>1 DEF WorkerInv, Exists
      <3>3. d # c
        BY <3>2 DEF Creating, UpdateDefine
      <3>4. QED
        BY <1>1, <2>1, <3>1, <3>2, <3>3 DEF Creating, CreatingNext, Moves
    <2>4. QED
      BY <2>1, <2>2, <2>3, ReturnKeeps DEF UpdateDefine
  <1>3. CASE UNCHANGED <<net, made, left>>
    BY <1>1, <1>3, Noted DEF UpdateDefine, Idle
  <1>4. QED
    BY <1>2, <1>3 DEF UpdateDefine

LEMMA CrashKeeps ==
  ASSUME TypeInv, WorkerInv, Crash
  PROVE  TypeInv' /\ WorkerInv'
  <1>1. Idle \in OpState /\ Idle.pc = "idle"
    BY DEF OpState, Idle
  <1>2. OpTyped'
    BY <1>1 DEF Crash, OpTyped
  <1>3. NetTyped'
    BY Stays DEF Crash
  <1> DEFINE Creators == {d \in Callers : op[d].pc \in {"defined", "undo"}}
  <1>4. left' = left \cup {op[c].name : c \in Creators} /\ \A d \in Creators : op[d].name \in Names
    BY Held DEF Crash
  <1>5. RestTyped'
    <2>1. left' \subseteq Names
      BY <1>4 DEF TypeInv, RestTyped
    <2>2. QED
      BY <2>1, Numbers DEF Crash, TypeInv, RestTyped
  <1>6. ASSUME NEW m \in Names \ left', net'[m].persistent, ~net'[m].active
        PROVE  FALSE
    <2>1. UNCHANGED net /\ m \notin left
      BY <1>4, <1>6 DEF Crash
    <2>2. PICK d \in Callers : Creating(d, m)
      BY <1>6, <2>1 DEF WorkerInv
    <2>3. QED
      BY <1>4, <1>6, <2>2 DEF Creating
  <1>7. QED
    BY <1>2, <1>3, <1>5, <1>6 DEF TypeInv, WorkerInv

-----------------------------------------------------------------------------
(***************************************************************************)
(* The inductive invariant                                                 *)
(***************************************************************************)

LEMMA InitHolds ==
  ASSUME Init
  PROVE  IInv
  <1>1. Idle \in OpState /\ Idle.pc = "idle"
    BY DEF OpState, Idle
  <1>2. NetTyped
    BY Numbers DEF Init, NetTyped
  <1>3. OpTyped /\ RestTyped
    BY <1>1, Numbers DEF Init, OpTyped, RestTyped
  <1>4. WorkerInv
    BY NowhereIs DEF Init, WorkerInv
  <1>5. QED
    BY <1>2, <1>3, <1>4 DEF IInv, TypeInv

LEMMA NextKeeps ==
  ASSUME IInv, [Next]_vars
  PROVE  IInv'
  <1> TypeInv /\ WorkerInv
    BY DEF IInv
  <1> SUFFICES TypeInv' /\ WorkerInv'
    BY DEF IInv
  <1>1. ASSUME NEW c \in Callers,
               \/ \E n \in Names : Check(c, n)
               \/ \E n \in Names : \E r \in Request : CreateLookup(c, n, r)
               \/ \E n \in Names : \E u \in Change : UpdateCheck(c, n, u)
               \/ UpdateRead(c)
        PROVE  TypeInv' /\ WorkerInv'
    BY <1>1, CheckKeeps, CreateLookupKeeps, UpdateCheckKeeps, UpdateReadKeeps
  <1>2. ASSUME NEW c \in Callers,
               \/ CreateDefine(c) \/ CreateStart(c) \/ CreateFails(c) \/ CreateUndo(c)
               \/ CreateRefused(c) \/ UndoFails(c)
        PROVE  TypeInv' /\ WorkerInv'
    BY <1>2, CreateDefineKeeps, StartKeeps, CreateFailsKeeps, CreateUndoKeeps, CreateRefusedKeeps,
       UndoFailsKeeps
  <1>3. ASSUME NEW c \in Callers,
               Start(c) \/ Stop(c) \/ Delete(c) \/ Fails(c) \/ UpdateDefine(c)
        PROVE  TypeInv' /\ WorkerInv'
    BY <1>3, StartKeeps, StopKeeps, DeleteKeeps, FailsKeeps, UpdateDefineKeeps
  <1>4. CASE Crash
    BY <1>4, CrashKeeps
  <1>5. CASE UNCHANGED vars
    BY <1>5 DEF vars, TypeInv, NetTyped, OpTyped, RestTyped, WorkerInv, Creating
  <1>6. QED
    BY <1>1, <1>2, <1>3, <1>4, <1>5 DEF Next

THEOREM Inductive == Spec => []IInv
  <1>1. Init => IInv
    BY InitHolds
  <1>2. IInv /\ [Next]_vars => IInv'
    BY NextKeeps
  <1>3. QED
    BY <1>1, <1>2, PTL DEF Spec

-----------------------------------------------------------------------------
(***************************************************************************)
(* What holds of every state                                               *)
(***************************************************************************)

\* Every network that exists was made, is defined or active, and has a
\* definition the code writes, with an address whose octets fit; every call
\* holds what its place in the code says.
THEOREM TypeCorrect == Spec => []TypeOK
  <1>1. ASSUME IInv PROVE TypeOK
    <2>1. TypeInv
      BY <1>1 DEF IInv
    <2>2. ASSUME NEW n \in Names, net[n] # Nowhere
          PROVE  /\ net[n].uuid \in 1..made /\ net[n].xml \in Xml
                 /\ net[n].persistent \/ net[n].active
      BY <2>1, <2>2 DEF TypeInv, NetTyped, Made
    <2>3. QED
      BY <2>1, <2>2 DEF TypeOK, TypeInv, NetTyped, OpTyped, RestTyped
  <1>2. QED
    BY <1>1, Inductive, PTL

\* A creation that fails leaves nothing behind, for any callers whose calls on
\* one network interleave in any way, with any refused calls and restarts: a
\* network that lies there inactive was stopped, defined again by an update, or
\* given up on by libvirt or with the server.
THEOREM NothingLeftOver == Spec => []NothingLeftBehind
  <1>1. ASSUME IInv PROVE NothingLeftBehind
    BY <1>1 DEF IInv, WorkerInv, NothingLeftBehind, Creating
  <1>2. QED
    BY <1>1, Inductive, PTL

-----------------------------------------------------------------------------
(***************************************************************************)
(* Addresses as numbers.  The sum that Value recurses over is reasoned     *)
(* about by induction over the set of octets for which a claim holds.      *)
(***************************************************************************)

LEMMA LeastExists ==
  ASSUME NEW T \in SUBSET Nat, T # {}
  PROVE  \E x \in T : \A y \in T : x <= y
  <1> DEFINE R == OpToRel(<, Nat)
  <1>1. \A x, y \in Nat : y < x => <<y, x>> \in R
    BY DEF OpToRel
  <1>2. IsWellFoundedOn(R, Nat)
    BY NatLessThanWellFounded
  <1> HIDE DEF R
  <1>3. PICK x \in T : \A y \in T : ~(<<y, x>> \in R)
    BY <1>2, WFMin
  <1>4. ASSUME NEW y \in T PROVE x <= y
    <2>1. x \in Nat /\ y \in Nat
      OBVIOUS
    <2>2. ~(y < x)
      BY <2>1, <1>1, <1>3
    <2>3. QED
      BY <2>1, <2>2
  <1>5. QED
    BY <1>4

LEMMA Inductively ==
  ASSUME NEW S, 0 \in S, \A n \in Nat : n \in S => n + 1 \in S
  PROVE  Nat \subseteq S
  <1> DEFINE T == Nat \ S
  <1>1. ASSUME T # {} PROVE FALSE
    <2>1. PICK x \in T : \A y \in T : x <= y
      BY <1>1, LeastExists
    <2>2. x # 0 /\ x - 1 \in Nat /\ x = (x - 1) + 1
      OBVIOUS
    <2>3. x - 1 \notin S
      BY <2>2
    <2>4. x - 1 \in T
      BY <2>2, <2>3
    <2>5. QED
      BY <2>1, <2>2, <2>4
  <1>2. QED
    BY <1>1

LEMMA PowAdd ==
  ASSUME NEW m \in Nat, NEW n \in Nat
  PROVE  2 ^ (m + n) = 2 ^ m * 2 ^ n
  <1> DEFINE S == {k \in Nat : 2 ^ (m + k) = 2 ^ m * 2 ^ k}
  <1>1. 0 \in S
    <2>1. m + 0 = m /\ 2 ^ 0 = 1 /\ 2 ^ m \in Nat
      BY PowPositive
    <2>2. QED
      BY <2>1
  <1>2. ASSUME NEW k \in Nat, k \in S PROVE k + 1 \in S
    <2>1. m + (k + 1) = (m + k) + 1 /\ m + k \in Nat
      OBVIOUS
    <2>2. 2 ^ ((m + k) + 1) = 2 ^ (m + k) + 2 ^ (m + k) /\ 2 ^ (k + 1) = 2 ^ k + 2 ^ k
      BY <2>1, PowSucc
    <2>3. 2 ^ (m + k) = 2 ^ m * 2 ^ k /\ 2 ^ m \in Nat /\ 2 ^ k \in Nat
      BY <1>2, PowPositive
    <2>4. 2 ^ m * (2 ^ k + 2 ^ k) = 2 ^ m * 2 ^ k + 2 ^ m * 2 ^ k
      BY <2>3
    <2>5. QED
      BY <2>1, <2>2, <2>3, <2>4
  <1> HIDE DEF S
  <1>3. n \in S
    BY <1>1, <1>2, Inductively
  <1>4. QED
    BY <1>3 DEF S

\* The sums that Value takes the last of.
Sums(a, f) == f = [i \in 0..Octets |-> IF i = 0 THEN 0 ELSE f[i - 1] * Base + a[i]]

SumsTo(n, a, f) == f = [i \in 0..n |-> IF i = 0 THEN 0 ELSE f[i - 1] * Base + a[i]]

LEMMA SumsExist ==
  ASSUME NEW a
  PROVE  \E f : Sums(a, f)
  <1> DEFINE S == {n \in Nat : \E f : SumsTo(n, a, f)}
  <1>1. 0 \in S
    <2>1. SumsTo(0, a, [i \in 0..0 |-> 0])
      BY DEF SumsTo
    <2>2. QED
      BY <2>1
  <1>2. ASSUME NEW n \in Nat, n \in S PROVE n + 1 \in S
    <2>1. PICK f : SumsTo(n, a, f)
      BY <1>2
    <2> DEFINE g == [i \in 0..(n + 1) |-> IF i = n + 1 THEN f[n] * Base + a[n + 1] ELSE f[i]]
    <2>2. ASSUME NEW i \in 0..(n + 1)
          PROVE  g[i] = IF i = 0 THEN 0 ELSE g[i - 1] * Base + a[i]
      <3>1. CASE i = n + 1
        <4>1. g[n] = f[n] /\ i - 1 = n /\ i # 0
          BY <3>1
        <4>2. g[i] = f[n] * Base + a[n + 1]
          BY <3>1
        <4> HIDE DEF g
        <4>3. QED
          BY <3>1, <4>1, <4>2
      <3>2. CASE i # n + 1
        <4>1. i \in 0..n /\ g[i] = f[i]
          BY <3>2
        <4>2. f[i] = IF i = 0 THEN 0 ELSE f[i - 1] * Base + a[i]
          BY <2>1, <4>1 DEF SumsTo
        <4>3. i # 0 => g[i - 1] = f[i - 1]
          BY <4>1
        <4> HIDE DEF g
        <4>4. QED
          BY <4>1, <4>2, <4>3
      <3>3. QED
        BY <3>1, <3>2
    <2>3. g = [i \in 0..(n + 1) |-> g[i]]
      OBVIOUS
    <2> HIDE DEF g
    <2>4. SumsTo(n + 1, a, g)
      BY <2>2, <2>3 DEF SumsTo
    <2>5. QED
      BY <2>4
  <1> HIDE DEF S
  <1>3. Octets \in S
    BY <1>1, <1>2, Inductively, Numbers
  <1>4. QED
    BY <1>3 DEF S, Sums, SumsTo

LEMMA ValueSums ==
  ASSUME NEW a
  PROVE  \E f : Sums(a, f) /\ Value(a) = f[Octets]
  <1>1. Sums(a, CHOOSE f : Sums(a, f))
    BY SumsExist
  <1>2. Value(a) = (CHOOSE f : Sums(a, f))[Octets]
    BY DEF Value, Sums
  <1>3. QED
    BY <1>1, <1>2

\* An address is a sequence of numbers with its sums.
LEMMA SumSteps ==
  ASSUME NEW a \in [1..Octets -> Nat], NEW f, Sums(a, f)
  PROVE  /\ f[0] = 0
         /\ \A i \in 1..Octets : f[i] = f[i - 1] * Base + a[i]
         /\ \A i \in 0..Octets : f[i] \in Nat
  <1>1. Octets \in Nat /\ Base \in Nat
    BY Numbers, BaseEven
  <1>2. \A i \in 0..Octets : f[i] = IF i = 0 THEN 0 ELSE f[i - 1] * Base + a[i]
    BY DEF Sums
  <1>3. f[0] = 0
    BY <1>1, <1>2
  <1>4. ASSUME NEW i \in 1..Octets
        PROVE  f[i] = f[i - 1] * Base + a[i]
    BY <1>1, <1>2
  <1> DEFINE S == {n \in Nat : n <= Octets => f[n] \in Nat}
  <1>5. 0 \in S
    BY <1>3
  <1>6. ASSUME NEW n \in Nat, n \in S PROVE n + 1 \in S
    <2> SUFFICES ASSUME n + 1 <= Octets PROVE f[n + 1] \in Nat
      OBVIOUS
    <2>1. f[n] \in Nat /\ a[n + 1] \in Nat /\ f[n + 1] = f[n] * Base + a[n + 1]
      BY <1>1, <1>4, <1>6
    <2>2. f[n] * Base \in Nat
      BY <1>1, <2>1
    <2>3. QED
      BY <2>1, <2>2
  <1>7. \A i \in 0..Octets : i \in S
    <2> HIDE DEF S
    <2>1. Nat \subseteq S
      BY <1>5, <1>6, Inductively
    <2>2. QED
      BY <1>1, <2>1
  <1>8. QED
    BY <1>1, <1>3, <1>4, <1>7

\* The host bits among the first i octets.
Hosts(i, p) == IF p >= i * OctetBits THEN 0 ELSE i * OctetBits - p

\* Where the prefix ends before, in or after an octet.
LEMMA SpanCases ==
  ASSUME NEW i \in 1..Octets, NEW p \in 0..Bits
  PROVE  /\ Hosts(i, p) \in Nat /\ Hosts(i - 1, p) \in Nat
         /\ \/ Span(i, p) = Base /\ Hosts(i, p) = Hosts(i - 1, p) + OctetBits
            \/ Span(i, p) = 1 /\ Hosts(i, p) = 0 /\ Hosts(i - 1, p) = 0
            \/ /\ Hosts(i - 1, p) = 0 /\ Span(i, p) = 2 ^ Hosts(i, p)
               /\ \E t \in Nat \ {0} : Base = t * 2 ^ Hosts(i, p)
  <1> DEFINE before == (i - 1) * OctetBits
             fixed == p - before
  <1>1. before \in Nat /\ fixed \in Int /\ p \in Nat /\ OctetBits \in Nat \ {0} /\ i \in Nat
    BY Numbers, BitsNat
  <1>2. i * OctetBits = before + OctetBits
    BY <1>1
  <1> HIDE DEF before
  <1>3. /\ Hosts(i, p) = IF p >= before + OctetBits THEN 0 ELSE before + OctetBits - p
        /\ Hosts(i - 1, p) = IF p >= before THEN 0 ELSE before - p
    <2>1. Hosts(i, p) = IF p >= before + OctetBits THEN 0 ELSE before + OctetBits - p
      BY <1>1, <1>2 DEF Hosts
    <2>2. Hosts(i - 1, p) = IF p >= before THEN 0 ELSE before - p
      BY DEF Hosts, before
    <2>3. QED
      BY <2>1, <2>2
  <1>4. Span(i, p) = IF fixed <= 0 THEN Base ELSE IF fixed >= OctetBits THEN 1 ELSE 2 ^ (OctetBits - fixed)
    BY DEF Span, before
  <1>5. Hosts(i, p) \in Nat /\ Hosts(i - 1, p) \in Nat
    BY <1>1, <1>3
  <1>6. CASE fixed <= 0
    BY <1>1, <1>3, <1>4, <1>5, <1>6
  <1>7. CASE ~(fixed <= 0) /\ fixed >= OctetBits
    BY <1>1, <1>3, <1>4, <1>5, <1>7
  <1>8. CASE ~(fixed <= 0) /\ ~(fixed >= OctetBits)
    <2>1. Hosts(i - 1, p) = 0 /\ Hosts(i, p) = OctetBits - fixed
      BY <1>1, <1>3, <1>8
    <2>2. fixed \in Nat /\ OctetBits - fixed \in Nat /\ OctetBits = fixed + (OctetBits - fixed)
      BY <1>1, <1>8
    <2>3. Base = 2 ^ fixed * 2 ^ (OctetBits - fixed)
      BY <2>2, PowAdd DEF Base
    <2>4. 2 ^ fixed \in Nat \ {0}
      BY <2>2, PowPositive
    <2> HIDE DEF fixed
    <2>5. QED
      BY <1>4, <1>5, <1>8, <2>1, <2>3, <2>4
  <1>9. QED
    BY <1>6, <1>7, <1>8

\* A cut below an octet, and one in it.
LEMMA CutScaled ==
  ASSUME NEW v \in Nat, NEW k \in Nat \ {0}, NEW b \in Nat \ {0}, NEW d \in 0..(b - 1)
  PROVE  Cut(v * b + d, k * b) = Cut(v, k) * b
  <1> DEFINE q == v \div k
             r == v % k
  <1>1. q \in Nat /\ r \in 0..(k - 1) /\ v = q * k + r /\ Cut(v, k) = q * k
    BY DEF Cut
  <1> HIDE DEF q, r
  <1>2. v * b + d = q * (k * b) + (r * b + d) /\ k * b \in Nat \ {0}
    BY <1>1
  <1>3. r * b + d \in 0..(k * b - 1)
    <2>1. (r + 1) * b <= k * b
      BY <1>1
    <2>2. (r + 1) * b = r * b + b /\ r * b \in Nat
      BY <1>1
    <2>3. QED
      BY <1>1, <1>2, <2>1, <2>2
  <1>4. Cut(q * (k * b) + (r * b + d), k * b) = q * (k * b)
    BY <1>1, <1>2, <1>3, CutOfCut
  <1>5. QED
    BY <1>1, <1>2, <1>4

LEMMA CutShifted ==
  ASSUME NEW x \in Nat, NEW s \in Nat \ {0}, NEW d \in Nat, \E k \in Nat : x = k * s
  PROVE  Cut(x + d, s) = x + Cut(d, s)
  <1> DEFINE q == d \div s
             r == d % s
  <1>1. q \in Nat /\ r \in 0..(s - 1) /\ d = q * s + r /\ Cut(d, s) = q * s
    BY DEF Cut
  <1> HIDE DEF q, r
  <1>2. PICK k \in Nat : x = k * s
    OBVIOUS
  <1>3. k + q \in Nat /\ x + d = (k + q) * s + r
    BY <1>1, <1>2
  <1>4. Cut((k + q) * s + r, s) = (k + q) * s
    BY <1>1, <1>3, CutOfCut
  <1>5. QED
    BY <1>1, <1>2, <1>3, <1>4

\* A cut leaves room for its remainder below a multiple of what it cuts to.
LEMMA CutRoom ==
  ASSUME NEW t \in Nat, NEW s \in Nat \ {0}, NEW d \in 0..(t * s - 1)
  PROVE  Cut(d, s) \in Nat /\ Cut(d, s) + s <= t * s
  <1> DEFINE q == d \div s
             r == d % s
  <1>1. q \in Nat /\ r \in 0..(s - 1) /\ d = q * s + r /\ Cut(d, s) = q * s
    BY DEF Cut
  <1> HIDE DEF q, r
  <1>2. q * s < t * s
    BY <1>1
  <1>3. q < t
    BY <1>1, <1>2
  <1>4. (q + 1) * s <= t * s
    BY <1>1, <1>3
  <1>5. QED
    BY <1>1, <1>4

LEMMA MaskedShape ==
  ASSUME NEW a \in Addr, NEW p \in 0..Bits
  PROVE  /\ Masked(a, p) = [i \in 1..Octets |-> Cut(a[i], Span(i, p))]
         /\ Broadcast(a, p) = [i \in 1..Octets |-> Masked(a, p)[i] + Span(i, p) - 1]
         /\ \A i \in 1..Octets : /\ Cut(a[i], Span(i, p)) \in Nat
                                 /\ Cut(a[i], Span(i, p)) + Span(i, p) - 1 \in Octet
  <1>1. DOMAIN a = 1..Octets
    BY AddrShape
  <1>2. /\ Masked(a, p) = [i \in 1..Octets |-> Cut(a[i], Span(i, p))]
        /\ Broadcast(a, p) = [i \in 1..Octets |-> Masked(a, p)[i] + Span(i, p) - 1]
    BY <1>1 DEF Masked, Broadcast, Cut
  <1>3. ASSUME NEW i \in 1..Octets
        PROVE  /\ Cut(a[i], Span(i, p)) \in Nat
               /\ Cut(a[i], Span(i, p)) + Span(i, p) - 1 \in Octet
    <2>1. Span(i, p) \in Nat \ {0}
      BY SpanEven
    <2>2. \E t \in Nat : Base = t * Span(i, p)
      <3>1. Base = 1 * Base /\ Base = Base * 1
        BY BaseEven
      <3>2. QED
        BY <3>1, SpanCases, BaseEven
    <2>3. PICK t \in Nat : Base = t * Span(i, p)
      BY <2>2
    <2>4. a[i] \in 0..(t * Span(i, p) - 1)
      BY <2>3, AddrShape, BaseEven
    <2>5. Cut(a[i], Span(i, p)) \in Nat /\ Cut(a[i], Span(i, p)) + Span(i, p) <= Base
      BY <2>1, <2>3, <2>4, CutRoom
    <2>6. QED
      BY <2>1, <2>5, BaseEven DEF Octet
  <1>4. QED
    BY <1>2, <1>3

\* The network and the broadcast address of the first octets are those of the
\* number they make.
LEMMA MaskedSums ==
  ASSUME NEW a \in Addr, NEW p \in 0..Bits, NEW f, NEW m, NEW b,
         Sums(a, f), Sums(Masked(a, p), m), Sums(Broadcast(a, p), b)
  PROVE  \A i \in 0..Octets : /\ f[i] \in Nat
                              /\ m[i] = Cut(f[i], 2 ^ Hosts(i, p))
                              /\ b[i] = m[i] + 2 ^ Hosts(i, p) - 1
  <1>0. Octets \in Nat /\ Base \in Nat \ {0} /\ p \in Nat /\ OctetBits \in Nat
    BY Numbers, BaseEven, BitsNat
  <1>1. a \in [1..Octets -> Nat]
    BY AddrShape DEF Addr, Octet
  <1>2. f[0] = 0 /\ \A i \in 1..Octets : f[i] = f[i - 1] * Base + a[i]
    BY <1>1, SumSteps
  <1>3. \A i \in 0..Octets : f[i] \in Nat
    BY <1>1, SumSteps
  <1>4. /\ Masked(a, p) \in [1..Octets -> Nat] /\ Broadcast(a, p) \in [1..Octets -> Nat]
        /\ \A i \in 1..Octets : /\ Masked(a, p)[i] = Cut(a[i], Span(i, p))
                                /\ Broadcast(a, p)[i] = Cut(a[i], Span(i, p)) + Span(i, p) - 1
    <2>1. Octet \subseteq Nat
      BY <1>0 DEF Octet
    <2>2. /\ Masked(a, p) = [i \in 1..Octets |-> Cut(a[i], Span(i, p))]
          /\ Broadcast(a, p) = [i \in 1..Octets |-> Masked(a, p)[i] + Span(i, p) - 1]
          /\ \A i \in 1..Octets : /\ Cut(a[i], Span(i, p)) \in Nat
                                  /\ Cut(a[i], Span(i, p)) + Span(i, p) - 1 \in Nat
      BY <2>1, MaskedShape
    <2>3. \A i \in 1..Octets : Masked(a, p)[i] = Cut(a[i], Span(i, p))
      BY <2>2
    <2>4. QED
      BY <2>2, <2>3
  <1>5. m[0] = 0 /\ \A i \in 1..Octets : m[i] = m[i - 1] * Base + Cut(a[i], Span(i, p))
    BY <1>4, SumSteps
  <1>6. b[0] = 0 /\ \A i \in 1..Octets : b[i] = b[i - 1] * Base + (Cut(a[i], Span(i, p)) + Span(i, p) - 1)
    BY <1>4, SumSteps
  <1> DEFINE Good(n) == m[n] = Cut(f[n], 2 ^ Hosts(n, p)) /\ b[n] = m[n] + 2 ^ Hosts(n, p) - 1
             S == {n \in Nat : n <= Octets => Good(n)}
  <1>7. 0 \in S
    <2>1. Hosts(0, p) = 0
      BY <1>0 DEF Hosts
    <2>2. 2 ^ 0 = 1 /\ Cut(0, 1) = 0
      BY CutToOne
    <2>3. 2 ^ Hosts(0, p) = 1
      BY <2>1, <2>2
    <2>4. Good(0)
      BY <1>2, <1>5, <1>6, <2>2, <2>3
    <2>5. QED
      BY <2>4
  <1>8. ASSUME NEW n \in Nat, n \in S PROVE n + 1 \in S
    <2> SUFFICES ASSUME n + 1 <= Octets PROVE Good(n + 1)
      OBVIOUS
    <2> DEFINE i == n + 1
               v == f[n]
               d == a[n + 1]
               k == 2 ^ Hosts(n, p)
               h == 2 ^ Hosts(n + 1, p)
               s == Span(n + 1, p)
    <2>1. i \in 1..Octets /\ i - 1 = n /\ n \in 0..Octets
      BY <1>0
    <2>2. v \in Nat /\ d \in Nat /\ d < Base
      BY <1>3, <2>1, AddrShape
    <2>3. m[n] = Cut(v, k) /\ b[n] = m[n] + k - 1
      BY <1>8, <2>1
    <2>4. /\ f[i] = v * Base + d
          /\ m[i] = m[n] * Base + Cut(d, s)
          /\ b[i] = b[n] * Base + (Cut(d, s) + s - 1)
      BY <1>2, <1>5, <1>6, <2>1
    <2>5. /\ Hosts(i, p) \in Nat /\ Hosts(n, p) \in Nat
          /\ \/ s = Base /\ Hosts(i, p) = Hosts(n, p) + OctetBits
             \/ s = 1 /\ Hosts(i, p) = 0 /\ Hosts(n, p) = 0
             \/ /\ Hosts(n, p) = 0 /\ s = h
                /\ \E t \in Nat \ {0} : Base = t * h
      BY <2>1, SpanCases
    <2>6. k \in Nat \ {0} /\ h \in Nat \ {0} /\ 2 ^ 0 = 1
      BY <2>5, PowPositive
    <2>7. Cut(v, k) \in Nat /\ Cut(v, 1) = v /\ Cut(d, 1) = d
      BY <2>2, <2>6, CutAtMost, CutToOne
    <2>8. CASE s = Base /\ Hosts(i, p) = Hosts(n, p) + OctetBits
      <3>1. h = k * Base
        <4>1. 2 ^ (Hosts(n, p) + OctetBits) = 2 ^ Hosts(n, p) * Base
          BY <1>0, <2>5, PowAdd DEF Base
        <4>2. QED
          BY <2>8, <4>1
      <3>2. Cut(d, Base) = 0
        <4>1. 0 \in Nat /\ d \in 0..(Base - 1) /\ 0 * Base + d = d /\ 0 * Base = 0
          BY <1>0, <2>2
        <4>2. QED
          BY <1>0, <4>1, CutOfCut
      <3> HIDE DEF v, d, k, h, s
      <3>3. Cut(v * Base + d, k * Base) = Cut(v, k) * Base
        <4>1. d \in 0..(Base - 1) /\ k \in Nat \ {0}
          BY <1>0, <2>2, <2>6
        <4>2. QED
          BY <1>0, <2>2, <4>1, CutScaled
      <3>4. m[i] = Cut(v, k) * Base /\ m[i] = Cut(f[i], h)
        BY <1>0, <2>3, <2>4, <2>7, <2>8, <3>1, <3>2, <3>3
      <3>5. (Cut(v, k) + k - 1) * Base + (Base - 1) = Cut(v, k) * Base + k * Base - 1
        BY <1>0, <2>6, <2>7
      <3>6. b[i] = m[i] + h - 1
        BY <2>3, <2>4, <2>8, <3>1, <3>2, <3>4, <3>5, <1>0
      <3>7. QED
        BY <3>4, <3>6 DEF h
    <2>9. CASE s = 1 /\ Hosts(i, p) = 0 /\ Hosts(n, p) = 0
      <3>1. k = 1 /\ h = 1
        BY <2>6, <2>9
      <3>2. v * Base + d \in Nat
        BY <1>0, <2>2
      <3>3. Cut(v * Base + d, 1) = v * Base + d
        BY <3>2, CutToOne
      <3> HIDE DEF v, d, k, h, s
      <3>4. m[i] = v * Base + d /\ b[i] = v * Base + d
        BY <1>0, <2>2, <2>3, <2>4, <2>7, <2>9, <3>1
      <3>5. QED
        BY <2>4, <3>1, <3>2, <3>3, <3>4 DEF h
    <2>10. CASE /\ Hosts(n, p) = 0 /\ s = h
                /\ \E t \in Nat \ {0} : Base = t * h
      <3>1. PICK t \in Nat \ {0} : Base = t * h
        BY <2>10
      <3>2. k = 1
        BY <2>6, <2>10
      <3> HIDE DEF v, d, k, h, s
      <3>3. Cut(v * Base + d, h) = v * Base + Cut(d, h)
        <4>1. v * Base \in Nat /\ d \in Nat /\ h \in Nat \ {0}
          BY <1>0, <2>2, <2>6
        <4>2. v * t \in Nat /\ v * Base = (v * t) * h
          BY <2>2, <2>6, <3>1
        <4>3. \E j \in Nat : v * Base = j * h
          BY <4>2
        <4>4. QED
          BY <4>1, <4>3, CutShifted
      <3>4. m[n] = v /\ b[n] = v
        BY <2>2, <2>3, <2>7, <3>2
      <3>5. m[i] = Cut(f[i], h)
        BY <2>4, <2>10, <3>1, <3>3, <3>4
      <3>6. b[i] = m[i] + h - 1
        <4>1. v * Base \in Nat /\ Cut(d, h) \in Nat
          BY <1>0, <2>2, <2>6, CutAtMost
        <4>2. QED
          BY <2>4, <2>6, <2>10, <3>4, <4>1
      <3>7. QED
        BY <3>5, <3>6 DEF h
    <2>11. QED
      BY <2>5, <2>8, <2>9, <2>10
  <1>9. \A n \in Nat : n <= Octets => Good(n)
    <2>1. Nat \subseteq S
      <3> HIDE DEF S
      <3>1. QED
        BY <1>7, <1>8, Inductively
    <2>2. QED
      BY <2>1
  <1>10. QED
    BY <1>0, <1>3, <1>9

LEMMA AllBits ==
  ASSUME NEW p \in 0..Bits
  PROVE  Hosts(Octets, p) = Bits - p /\ Octets * OctetBits = Bits
  <1>1. Octets * OctetBits = Bits /\ Bits \in Nat
    BY Numbers DEF Bits
  <1>2. QED
    BY <1>1 DEF Hosts

LEMMA BroadcastValue ==
  ASSUME NEW a \in Addr, NEW p \in 0..Bits
  PROVE  /\ Value(a) \in Nat
         /\ Value(Broadcast(a, p)) = Cut(Value(a), 2 ^ (Bits - p)) + 2 ^ (Bits - p) - 1
  <1>1. PICK f : Sums(a, f) /\ Value(a) = f[Octets]
    BY ValueSums
  <1>2. PICK m : Sums(Masked(a, p), m)
    BY ValueSums
  <1>3. PICK b : Sums(Broadcast(a, p), b) /\ Value(Broadcast(a, p)) = b[Octets]
    BY ValueSums
  <1>4. Octets \in 0..Octets
    BY Numbers
  <1>5. /\ f[Octets] \in Nat
        /\ m[Octets] = Cut(f[Octets], 2 ^ Hosts(Octets, p))
        /\ b[Octets] = m[Octets] + 2 ^ Hosts(Octets, p) - 1
    BY <1>1, <1>2, <1>3, <1>4, MaskedSums
  <1>6. QED
    BY <1>1, <1>3, <1>5, AllBits

\* The octets after the first i are zero, so that a borrow crosses them.
ZeroAfter(a, i) == \A j \in 1..Octets : j > i => a[j] = 0

\* One less, with what a borrow leaves of zero.
Less(n, size) == IF n = 0 THEN size - 1 ELSE n - 1

LEMMA LessIsMod ==
  ASSUME NEW size \in Nat \ {0}, NEW n \in 0..(size - 1)
  PROVE  (n - 1) % size = Less(n, size)
  <1>1. CASE n = 0
    <2>1. (0 - 1) % size = size - 1
      OBVIOUS
    <2>2. QED
      BY <1>1, <2>1 DEF Less
  <1>2. CASE n # 0
    <2>1. n - 1 \in 0..(size - 1)
      BY <1>2
    <2>2. (n - 1) % size = n - 1
      BY <2>1
    <2>3. QED
      BY <1>2, <2>2 DEF Less
  <1>3. QED
    BY <1>1, <1>2

LEMMA DecrementShape ==
  ASSUME NEW a \in Addr
  PROVE  /\ Decrement(a) = [i \in 1..Octets |-> IF ZeroAfter(a, i) THEN Less(a[i], Base) ELSE a[i]]
         /\ Decrement(a) \in [1..Octets -> Nat]
  <1>1. DOMAIN a = 1..Octets /\ \A i \in 1..Octets : a[i] \in 0..(Base - 1)
    BY AddrShape, BaseEven
  <1>2. Decrement(a) = [i \in 1..Octets |-> IF ZeroAfter(a, i) THEN (a[i] - 1) % Base ELSE a[i]]
    BY <1>1 DEF Decrement, ZeroAfter
  <1>3. \A i \in 1..Octets : (a[i] - 1) % Base = Less(a[i], Base)
    BY <1>1, BaseEven, LessIsMod
  <1>4. \A i \in 1..Octets : Less(a[i], Base) \in Nat
    BY <1>1, BaseEven DEF Less
  <1>5. QED
    BY <1>1, <1>2, <1>3, <1>4

\* The octets decremented so far make one less when the borrow comes from them.
LEMMA DecrementSums ==
  ASSUME NEW a \in Addr, NEW f, NEW g, Sums(a, f), Sums(Decrement(a), g)
  PROVE  \A i \in 0..Octets :
           /\ f[i] \in 0..(2 ^ (i * OctetBits) - 1)
           /\ g[i] = IF ZeroAfter(a, i) THEN Less(f[i], 2 ^ (i * OctetBits)) ELSE f[i]
  <1>0. Octets \in Nat /\ Base \in Nat \ {0} /\ OctetBits \in Nat
    BY Numbers, BaseEven
  <1>1. a \in [1..Octets -> Nat] /\ \A i \in 1..Octets : a[i] < Base
    BY AddrShape DEF Addr, Octet
  <1>2. f[0] = 0 /\ (\A i \in 1..Octets : f[i] = f[i - 1] * Base + a[i]) /\ \A i \in 0..Octets : f[i] \in Nat
    BY <1>1, SumSteps
  <1>3. g[0] = 0 /\ \A i \in 1..Octets : g[i] = g[i - 1] * Base + Decrement(a)[i]
    BY DecrementShape, SumSteps
  <1>4. \A i \in 1..Octets : Decrement(a)[i] = IF ZeroAfter(a, i) THEN Less(a[i], Base) ELSE a[i]
    BY DecrementShape
  <1> DEFINE Good(n) == /\ f[n] < 2 ^ (n * OctetBits)
                        /\ g[n] = IF ZeroAfter(a, n) THEN Less(f[n], 2 ^ (n * OctetBits)) ELSE f[n]
             S == {n \in Nat : n <= Octets => Good(n)}
  <1>5. 0 \in S
    <2>1. 2 ^ (0 * OctetBits) = 1
      <3>1. 0 * OctetBits = 0 /\ 2 ^ 0 = 1
        BY <1>0
      <3>2. QED
        BY <3>1
    <2>2. Good(0)
      BY <1>2, <1>3, <2>1 DEF Less
    <2>3. QED
      BY <2>2
  <1>6. ASSUME NEW n \in Nat, n \in S PROVE n + 1 \in S
    <2> SUFFICES ASSUME n + 1 <= Octets PROVE Good(n + 1)
      OBVIOUS
    <2> DEFINE i == n + 1
               v == f[n]
               d == a[n + 1]
               z == 2 ^ (n * OctetBits)
               y == 2 ^ ((n + 1) * OctetBits)
    <2>1. i \in 1..Octets /\ i - 1 = n /\ n \in 0..Octets
      BY <1>0
    <2>2. v \in Nat /\ d \in Nat /\ d < Base
      BY <1>1, <1>2, <2>1
    <2>3. v < z /\ g[n] = IF ZeroAfter(a, n) THEN Less(v, z) ELSE v
      BY <1>6, <2>1
    <2>4. /\ f[i] = v * Base + d
          /\ g[i] = g[n] * Base + (IF ZeroAfter(a, i) THEN Less(d, Base) ELSE d)
      BY <1>2, <1>3, <1>4, <2>1
    <2>5. z \in Nat \ {0} /\ y = z * Base
      <3>1. n * OctetBits \in Nat /\ (n + 1) * OctetBits = n * OctetBits + OctetBits
        BY <1>0
      <3>2. QED
        BY <1>0, <3>1, PowAdd, PowPositive DEF Base
    <2>6. ZeroAfter(a, n) <=> ZeroAfter(a, i) /\ d = 0
      <3>1. \A j \in 1..Octets : j > n <=> (j > i \/ j = i)
        BY <2>1
      <3>2. QED
        BY <2>1, <3>1 DEF ZeroAfter
    <2> HIDE DEF v, d, z, y
    <2>7. v * Base \in Nat /\ (v + 1) * Base <= z * Base /\ (v + 1) * Base = v * Base + Base
      BY <1>0, <2>2, <2>3, <2>5
    <2>8. f[i] < y
      BY <1>0, <2>2, <2>4, <2>5, <2>7
    <2>9. CASE ~ZeroAfter(a, i)
      <3>1. g[i] = f[i]
        BY <2>3, <2>4, <2>6, <2>9
      <3>2. QED
        BY <2>8, <2>9, <3>1 DEF y
    <2>10. CASE ZeroAfter(a, i) /\ d # 0
      <3>1. g[i] = v * Base + (d - 1)
        BY <2>3, <2>4, <2>6, <2>10 DEF Less
      <3>2. f[i] # 0 /\ f[i] - 1 = v * Base + (d - 1)
        BY <2>2, <2>4, <2>7, <2>10
      <3>3. QED
        BY <2>8, <2>10, <3>1, <3>2 DEF Less, y
    <2>11. CASE ZeroAfter(a, i) /\ d = 0 /\ v # 0
      <3>1. g[i] = (v - 1) * Base + (Base - 1)
        BY <2>3, <2>4, <2>6, <2>11 DEF Less
      <3>2. (v - 1) * Base = v * Base - Base /\ v * Base # 0
        BY <1>0, <2>2, <2>11
      <3>3. f[i] # 0 /\ g[i] = f[i] - 1
        BY <1>0, <2>2, <2>4, <2>7, <2>11, <3>1, <3>2
      <3>4. QED
        BY <2>8, <2>11, <3>3 DEF Less, y
    <2>12. CASE ZeroAfter(a, i) /\ d = 0 /\ v = 0
      <3>1. g[i] = (z - 1) * Base + (Base - 1)
        BY <2>3, <2>4, <2>6, <2>12 DEF Less
      <3>2. (z - 1) * Base = z * Base - Base
        BY <1>0, <2>5
      <3>3. f[i] = 0 /\ g[i] = y - 1
        BY <1>0, <2>4, <2>5, <2>12, <3>1, <3>2
      <3>4. QED
        BY <2>8, <2>12, <3>3 DEF Less, y
    <2>13. QED
      BY <2>9, <2>10, <2>11, <2>12
  <1>7. \A n \in Nat : n <= Octets => Good(n)
    <2>1. Nat \subseteq S
      <3> HIDE DEF S
      <3>1. QED
        BY <1>5, <1>6, Inductively
    <2>2. QED
      BY <2>1
  <1>8. \A i \in 0..Octets : 2 ^ (i * OctetBits) \in Nat
    BY <1>0, PowPositive
  <1>9. QED
    BY <1>0, <1>2, <1>7, <1>8

\* addToIP with -1 is one less, modulo the size of the address space.
LEMMA DecrementValue ==
  ASSUME NEW a \in Addr
  PROVE  Value(Decrement(a)) = (Value(a) - 1) % (2 ^ Bits)
  <1>1. PICK f : Sums(a, f) /\ Value(a) = f[Octets]
    BY ValueSums
  <1>2. PICK g : Sums(Decrement(a), g) /\ Value(Decrement(a)) = g[Octets]
    BY ValueSums
  <1>3. Octets \in 0..Octets /\ Octets * OctetBits = Bits /\ 2 ^ Bits \in Nat \ {0}
    BY Numbers, BitsNat, PowPositive DEF Bits
  <1>4. ZeroAfter(a, Octets)
    BY Numbers DEF ZeroAfter
  <1>5. f[Octets] \in 0..(2 ^ Bits - 1) /\ g[Octets] = Less(f[Octets], 2 ^ Bits)
    BY <1>1, <1>2, <1>3, <1>4, DecrementSums
  <1>6. QED
    BY <1>1, <1>2, <1>3, <1>5, LessIsMod

LEMMA BroadcastAddr ==
  ASSUME NEW a \in Addr, NEW p \in 0..Bits
  PROVE  Broadcast(a, p) \in Addr
  <1>1. /\ Masked(a, p) = [i \in 1..Octets |-> Cut(a[i], Span(i, p))]
        /\ Broadcast(a, p) = [i \in 1..Octets |-> Masked(a, p)[i] + Span(i, p) - 1]
        /\ \A i \in 1..Octets : Cut(a[i], Span(i, p)) + Span(i, p) - 1 \in Octet
    BY MaskedShape
  <1>2. \A i \in 1..Octets : Broadcast(a, p)[i] \in Octet
    BY <1>1
  <1>3. QED
    BY <1>1, <1>2 DEF Addr

LEMMA ValueBelow ==
  ASSUME NEW a \in Addr
  PROVE  Value(a) \in 0..(2 ^ Bits - 1)
  <1>1. PICK f : Sums(a, f) /\ Value(a) = f[Octets]
    BY ValueSums
  <1>2. PICK g : Sums(Decrement(a), g)
    BY ValueSums
  <1>3. Octets \in 0..Octets /\ Octets * OctetBits = Bits
    BY Numbers DEF Bits
  <1>4. QED
    BY <1>1, <1>2, <1>3, DecrementSums

\* Where the prefix leaves a host bit, no borrow crosses an octet.
LEMMA LastHostValue ==
  ASSUME NEW s \in Subnet, s.prefix < Bits
  PROVE  Value(LastHost(s.addr, s.prefix)) = NetworkOf(s) + 2 ^ (Bits - s.prefix) - 2
  <1>1. s.addr \in Addr /\ s.prefix \in 0..Bits
    BY DEF Subnet
  <1> DEFINE size == 2 ^ (Bits - s.prefix)
  <1>2. size \in Nat \ {0} /\ size # 1
    <2>1. Bits - s.prefix \in Nat \ {0}
      BY <1>1, BitsNat
    <2>2. QED
      BY <2>1, PowPositive, PowEven
  <1>3. Broadcast(s.addr, s.prefix) \in Addr
    BY <1>1, BroadcastAddr
  <1>4. /\ Value(s.addr) \in Nat
        /\ Value(Broadcast(s.addr, s.prefix)) = Cut(Value(s.addr), size) + size - 1
    BY <1>1, BroadcastValue
  <1>5. NetworkOf(s) = Cut(Value(s.addr), size)
    BY DEF NetworkOf, Cut
  <1>6. Cut(Value(s.addr), size) \in Nat
    BY <1>2, <1>4, CutAtMost
  <1> HIDE DEF size
  <1>7. Value(Broadcast(s.addr, s.prefix)) \in 1..(2 ^ Bits - 1)
    BY <1>2, <1>3, <1>4, <1>6, ValueBelow
  <1>8. Value(Decrement(Broadcast(s.addr, s.prefix))) = Value(Broadcast(s.addr, s.prefix)) - 1
    <2>1. 2 ^ Bits \in Nat \ {0}
      BY BitsNat, PowPositive
    <2>2. Value(Decrement(Broadcast(s.addr, s.prefix))) = (Value(Broadcast(s.addr, s.prefix)) - 1) % (2 ^ Bits)
      BY <1>3, DecrementValue
    <2>3. QED
      BY <1>7, <2>1, <2>2, LessIsMod DEF Less
  <1>9. LastHost(s.addr, s.prefix) = Decrement(Broadcast(s.addr, s.prefix))
    BY DEF LastHost
  <1>10. QED
    BY <1>2, <1>4, <1>5, <1>6, <1>8, <1>9 DEF size

\* What a call is about to define names one subnet.
LEMMA SubnetNamed ==
  ASSUME TypeInv, NEW c \in Defining
  PROVE  /\ Definition(op[c].req) = Routed(op[c].req.mode, The(op[c].req.cidr), Or(op[c].req.dhcp, TRUE))
         /\ The(op[c].req.cidr) \in Subnet
  <1> DEFINE r == op[c].req
  <1>1. r \in Request \cup Merges /\ Accepted(r) /\ r.mode # "bridge"
    BY Held DEF Defining
  <1> HIDE DEF r
  <1>2. CASE r \in Request
    <2>1. \E s \in Cidrs : r.cidr = {s}
      BY <1>1, <1>2 DEF Request
    <2>2. QED
      BY <1>1, <2>1, TheOne, Numbers DEF Definition, r
  <1>3. CASE r \in Merges
    <2>1. PICK x \in Xml, u \in Change : r = Merged(x, u)
      BY <1>3 DEF Merges
    <2>2. \E s \in Subnet : r.cidr = {s}
      BY <1>1, <2>1, MergedShape
    <2>3. QED
      BY <1>1, <2>2, TheOne DEF Definition, r
  <1>4. QED
    BY <1>1, <1>2, <1>3

\* The DHCP range of every definition ends at the last usable host of its
\* subnet, for addresses of any number and width of octets and every prefix that
\* leaves hosts: the octets that subnetFirstAndLastHost and addToIP compute one
\* by one are those of one number.
THEOREM RangeEnds == Spec => []RangeEndsAtLastHost
  <1>1. ASSUME IInv PROVE RangeEndsAtLastHost
    <2> SUFFICES ASSUME NEW c \in Defining, Definition(op[c].req).dhcp,
                        The(op[c].req.cidr).prefix <= Bits - 2
                 PROVE  Value(Definition(op[c].req).last)
                          = NetworkOf(The(op[c].req.cidr))
                              + 2 ^ (Bits - The(op[c].req.cidr).prefix) - 2
      BY DEF RangeEndsAtLastHost
    <2> DEFINE s == The(op[c].req.cidr)
               d == Or(op[c].req.dhcp, TRUE)
    <2>1. s \in Subnet /\ Definition(op[c].req) = Routed(op[c].req.mode, s, d)
      BY <1>1, SubnetNamed DEF IInv
    <2>2. s.prefix < Bits
      BY <2>1, BitsNat DEF Subnet
    <2> HIDE DEF s, d
    <2>3. Definition(op[c].req).dhcp = d
      BY <2>1 DEF Routed
    <2>4. Definition(op[c].req).last = LastHost(s.addr, s.prefix)
      BY <2>1, <2>3 DEF Routed
    <2>5. QED
      BY <2>1, <2>2, <2>4, LastHostValue DEF s
  <1>2. QED
    BY <1>1, Inductive, PTL

-----------------------------------------------------------------------------
(***************************************************************************)
(* What a change keeps                                                     *)
(***************************************************************************)

LEMMA CutBelow ==
  ASSUME NEW n \in Nat, NEW s \in Nat \ {0}, NEW r \in 0..(s - 1)
  PROVE  Cut(Cut(n, s) + r, s) = Cut(n, s)
  <1>1. n \div s \in Nat /\ Cut(n, s) = (n \div s) * s
    BY DEF Cut
  <1> DEFINE q == n \div s
  <1> HIDE DEF q
  <1>2. QED
    BY <1>1, CutOfCut DEF q

\* The last octet has a host bit when the prefix leaves one.
LEMMA LastSpan ==
  ASSUME NEW p \in 0..Bits, p < Bits
  PROVE  Octets \in 1..Octets /\ Span(Octets, p) \in Nat /\ Span(Octets, p) >= 2
  <1>1. Octets \in 1..Octets /\ OctetBits \in Nat \ {0} /\ Bits = OctetBits * Octets /\ p \in Nat
    BY Numbers, BitsNat DEF Bits
  <1> DEFINE fixed == p - (Octets - 1) * OctetBits
  <1>2. (Octets - 1) * OctetBits = OctetBits * Octets - OctetBits /\ OctetBits * Octets \in Nat
    BY <1>1
  <1>3. fixed \in Int /\ fixed < OctetBits
    BY <1>1, <1>2
  <1>4. Span(Octets, p) = IF fixed <= 0 THEN Base ELSE IF fixed >= OctetBits THEN 1 ELSE 2 ^ (OctetBits - fixed)
    BY DEF Span
  <1> HIDE DEF fixed
  <1>5. CASE fixed <= 0
    BY <1>1, <1>4, <1>5, BaseEven
  <1>6. CASE ~(fixed <= 0)
    <2>1. OctetBits - fixed \in Nat \ {0}
      BY <1>1, <1>3, <1>6
    <2>2. PICK k \in Nat \ {0} : 2 ^ (OctetBits - fixed) = 2 * k
      BY <2>1, PowEven
    <2>3. QED
      BY <1>1, <1>3, <1>4, <1>6, <2>2
  <1>7. QED
    BY <1>5, <1>6

\* The last host of a subnet lies in it.
LEMMA LastHostMasked ==
  ASSUME NEW a \in Addr, NEW p \in 0..Bits, p < Bits
  PROVE  Masked(LastHost(a, p), p) = Masked(a, p)
  <1> DEFINE b == Broadcast(a, p)
             l == LastHost(a, p)
             m(i) == Cut(a[i], Span(i, p))
  <1>1. /\ Masked(a, p) = [i \in 1..Octets |-> m(i)]
        /\ b = [i \in 1..Octets |-> Masked(a, p)[i] + Span(i, p) - 1]
        /\ \A i \in 1..Octets : m(i) \in Nat
    BY MaskedShape
  <1>2. b \in Addr /\ \A i \in 1..Octets : b[i] = m(i) + Span(i, p) - 1
    BY <1>1, BroadcastAddr
  <1>3. /\ l = [i \in 1..Octets |-> IF ZeroAfter(b, i) THEN Less(b[i], Base) ELSE b[i]]
        /\ DOMAIN l = 1..Octets
    BY <1>2, DecrementShape DEF LastHost
  <1>4. Octets \in 1..Octets /\ Span(Octets, p) \in Nat /\ Span(Octets, p) >= 2
    BY LastSpan
  <1>5. b[Octets] # 0
    BY <1>1, <1>2, <1>4
  <1>6. \A i \in 1..Octets : Span(i, p) \in Nat \ {0} /\ a[i] \in Nat
    BY SpanEven, AddrShape
  <1> HIDE DEF b, l, m
  <1>7. ASSUME NEW i \in 1..Octets
        PROVE  \E r \in 0..(Span(i, p) - 1) : l[i] = m(i) + r
    <2>1. CASE i = Octets
      <3>1. l[i] = b[i] - 1 \/ l[i] = b[i]
        BY <1>3, <1>5, <2>1 DEF Less
      <3>2. b[i] = m(i) + Span(i, p) - 1 /\ m(i) \in Nat
        BY <1>1, <1>2
      <3>3. Span(i, p) - 2 \in 0..(Span(i, p) - 1) /\ Span(i, p) - 1 \in 0..(Span(i, p) - 1)
        BY <1>4, <2>1
      <3>4. l[i] = m(i) + (Span(i, p) - 2) \/ l[i] = m(i) + (Span(i, p) - 1)
        BY <1>4, <2>1, <3>1, <3>2
      <3>5. QED
        BY <3>3, <3>4
    <2>2. CASE i # Octets
      <3>1. Octets > i
        BY <1>4, <2>2
      <3>2. ~ZeroAfter(b, i)
        BY <1>4, <1>5, <3>1 DEF ZeroAfter
      <3>3. l[i] = b[i]
        BY <1>3, <3>2
      <3>4. l[i] = m(i) + (Span(i, p) - 1) /\ Span(i, p) - 1 \in 0..(Span(i, p) - 1)
        BY <1>1, <1>2, <1>6, <3>3
      <3>5. QED
        BY <3>4
    <2>3. QED
      BY <2>1, <2>2
  <1>8. ASSUME NEW i \in 1..Octets
        PROVE  Cut(l[i], Span(i, p)) = m(i)
    <2>1. PICK r \in 0..(Span(i, p) - 1) : l[i] = m(i) + r
      BY <1>7
    <2>2. QED
      BY <1>6, <2>1, CutBelow DEF m
  <1>9. Masked(l, p) = [i \in 1..Octets |-> Cut(l[i], Span(i, p))]
    BY <1>3 DEF Masked, Cut
  <1>10. QED
    BY <1>1, <1>8, <1>9 DEF l

\* A gateway in the subnet of the range makes the same range again.
LEMMA LastHostTwice ==
  ASSUME NEW a \in Addr, NEW p \in 0..Bits, p < Bits,
         Masked(FirstHost(a, p), p) = Masked(LastHost(a, p), p)
  PROVE  LastHost(FirstHost(a, p), p) = LastHost(a, p)
  <1> DEFINE g == FirstHost(a, p)
  <1>1. g \in Addr
    BY FirstHostAddr
  <1> HIDE DEF g
  <1>2. Masked(g, p) = Masked(a, p)
    BY LastHostMasked DEF g
  <1>3. Broadcast(g, p) = Broadcast(a, p)
    <2>1. DOMAIN g = 1..Octets /\ DOMAIN a = 1..Octets
      BY <1>1, AddrShape
    <2>2. QED
      BY <1>2, <2>1 DEF Broadcast
  <1>4. QED
    BY <1>3 DEF LastHost, g

\* The round trip of a definition through a change that does not name a field.
LEMMA MergeKeeps ==
  ASSUME NEW x \in Xml, NEW u \in Change, Accepted(Merged(x, u))
  PROVE  LET new == Definition(Merged(x, u)) IN
         /\ u.mode = {} => new.mode = x.mode
         /\ new.mode # "bridge" /\ x.mode # "bridge" =>
              /\ u.cidr = {} => new.addr = x.addr /\ new.prefix = x.prefix
              /\ u.dhcp = {} => new.dhcp = x.dhcp
              /\ u.cidr = {} /\ x.dhcp /\ new.dhcp /\ x.prefix < Bits /\ GatewayInRange(x)
                   => new.last = x.last
         /\ new.mode = "bridge" /\ u.bridge = {} => new.bridge = x.bridge
  <1> DEFINE r == Merged(x, u)
             new == Definition(r)
  <1>1. /\ r.mode = Or(u.mode, x.mode)
        /\ r.mode \in {"nat", "isolated", "bridge"}
        /\ r.mode = "bridge" =>
             \E b \in Bridges \cup {OwnBridge} : r.bridge = {b} /\ b = Or(u.bridge, x.bridge)
        /\ r.mode # "bridge" =>
             /\ \E d \in BOOLEAN : r.dhcp = {d} /\ d = Or(u.dhcp, x.dhcp)
             /\ \E s \in Subnet : r.cidr = {s}
             /\ u.cidr = {} => r.cidr = {[addr |-> x.addr, prefix |-> x.prefix]}
    BY MergedShape
  <1> HIDE DEF r
  <1>2. CASE r.mode = "bridge"
    <2>1. PICK b \in Bridges \cup {OwnBridge} : r.bridge = {b} /\ b = Or(u.bridge, x.bridge)
      BY <1>1, <1>2
    <2>2. The(r.bridge) = b
      BY <2>1, TheOne
    <2>3. new = Bridged(b)
      BY <1>2, <2>2 DEF Definition
    <2>4. new.mode = r.mode /\ new.bridge = b
      BY <1>2, <2>3 DEF Bridged
    <2> HIDE DEF new
    <2>5. QED
      BY <1>1, <1>2, <2>1, <2>4 DEF Or, new, r
  <1>3. CASE r.mode # "bridge"
    <2>1. PICK d \in BOOLEAN, s \in Subnet : r.dhcp = {d} /\ d = Or(u.dhcp, x.dhcp) /\ r.cidr = {s}
      BY <1>1, <1>3
    <2>2. The(r.cidr) = s /\ Or(r.dhcp, TRUE) = d
      BY <2>1, TheOne DEF Or
    <2>3. new = Routed(r.mode, s, d)
      BY <1>3, <2>2 DEF Definition
    <2>4. /\ new.mode = r.mode /\ new.addr = FirstHost(s.addr, s.prefix)
          /\ new.prefix = s.prefix /\ new.dhcp = d
          /\ d => new.last = LastHost(s.addr, s.prefix)
      BY <2>3 DEF Routed
    <2> HIDE DEF new
    <2>5. ASSUME u.cidr = {}, x.mode # "bridge"
          PROVE  new.addr = x.addr /\ new.prefix = x.prefix
      <3>1. s = [addr |-> x.addr, prefix |-> x.prefix]
        BY <1>1, <1>3, <2>1, <2>5
      <3>2. PICK a \in Addr : x.addr = FirstHost(a, x.prefix) /\ x.prefix \in 0..Bits
        BY <2>5, XmlFields
      <3>3. FirstHost(x.addr, x.prefix) = x.addr
        BY <3>2, FirstHostTwice
      <3>4. QED
        BY <2>4, <3>1, <3>3
    <2>9. ASSUME u.cidr = {}, x.mode # "bridge", x.dhcp, new.dhcp, x.prefix < Bits, GatewayInRange(x)
          PROVE  new.last = x.last
      <3>1. s = [addr |-> x.addr, prefix |-> x.prefix]
        BY <1>1, <1>3, <2>1, <2>9
      <3>2. PICK a \in Addr : x.addr = FirstHost(a, x.prefix) /\ x.last = LastHost(a, x.prefix)
        BY <2>9, XmlRange
      <3>3. LastHost(x.addr, x.prefix) = x.last
        BY <2>9, <3>2, XmlFields, LastHostTwice DEF GatewayInRange
      <3>4. QED
        BY <2>4, <2>9, <3>1, <3>3
    <2>6. u.mode = {} => new.mode = x.mode
      BY <1>1, <2>4 DEF Or
    <2>7. u.dhcp = {} => new.dhcp = x.dhcp
      BY <2>1, <2>4 DEF Or
    <2>8. QED
      BY <1>3, <2>4, <2>5, <2>6, <2>7, <2>9 DEF new, r
  <1>4. QED
    BY <1>2, <1>3

\* A step of a call moves that call only.
LEMMA OneMoves ==
  ASSUME NEW c \in Callers,
         \/ \E n \in Names : Check(c, n)
         \/ \E n \in Names : \E r \in Request : CreateLookup(c, n, r)
         \/ \E n \in Names : \E u \in Change : UpdateCheck(c, n, u)
         \/ CreateDefine(c) \/ CreateStart(c) \/ CreateFails(c) \/ CreateUndo(c) \/ CreateRefused(c)
         \/ UndoFails(c)
         \/ Start(c) \/ Stop(c) \/ Delete(c) \/ Fails(c) \/ UpdateDefine(c)
  PROVE  op[c].pc # "checked" /\ \E o : Goto(c, o)
  <1>1. CASE \/ \E n \in Names : Check(c, n)
             \/ \E n \in Names : \E r \in Request : CreateLookup(c, n, r)
             \/ \E n \in Names : \E u \in Change : UpdateCheck(c, n, u)
    BY <1>1 DEF Check, CreateLookup, UpdateCheck
  <1>2. CASE CreateDefine(c) \/ CreateStart(c) \/ CreateFails(c) \/ CreateUndo(c)
    BY <1>2 DEF CreateDefine, CreateStart, CreateFails, CreateUndo, Return
  <1>3. CASE CreateRefused(c) \/ UndoFails(c) \/ Start(c) \/ Stop(c)
    BY <1>3 DEF CreateRefused, UndoFails, Start, Stop, Return
  <1>4. CASE Delete(c) \/ Fails(c) \/ UpdateDefine(c)
    BY <1>4 DEF Delete, Fails, UpdateDefine, Return
  <1>5. QED
    BY <1>1, <1>2, <1>3, <1>4

\* Only a call that reads its definition goes from its check to its merge.
LEMMA OnlyReadMerges ==
  ASSUME TypeInv, Next, NEW c \in Callers, op[c].pc = "checked", op'[c].pc = "merged"
  PROVE  UpdateRead(c)
  <1>1. op \in [Callers -> OpState]
    BY DEF TypeInv, OpTyped
  <1>2. ASSUME NEW d \in Callers, op[d].pc # "checked", \E o : Goto(d, o)
        PROVE  FALSE
    BY <1>1, <1>2 DEF Goto
  <1>3. ASSUME NEW d \in Callers, UpdateRead(d)
        PROVE  d = c
    BY <1>1, <1>3 DEF UpdateRead, Goto, Return
  <1>4. ~Crash
    BY DEF Crash, Idle
  <1>5. QED
    BY <1>2, <1>3, <1>4, OneMoves DEF Next

\* Fields left nil keep their current value, for addresses of any width: the
\* gateway that is written is the one that is read and computed again, and where
\* it lies in the subnet of the DHCP range, the range ends where it did.
THEOREM UpdateKeeps == Spec => UpdateKeepsRest
  <1> DEFINE Keeps(c) ==
        op[c].pc = "checked" /\ op'[c].pc = "merged" =>
          LET x == net[op[c].name].xml
              u == op[c].req
              new == Definition(op'[c].req)
          IN  /\ u.mode = {} => new.mode = x.mode
              /\ new.mode # "bridge" /\ x.mode # "bridge" =>
                   /\ u.cidr = {} => new.addr = x.addr /\ new.prefix = x.prefix
                   /\ u.dhcp = {} => new.dhcp = x.dhcp
                   /\ u.cidr = {} /\ x.dhcp /\ new.dhcp /\ x.prefix < Bits /\ GatewayInRange(x)
                        => new.last = x.last
              /\ new.mode = "bridge" /\ u.bridge = {} => new.bridge = x.bridge
  <1>1. ASSUME IInv, Next, NEW c \in Callers PROVE Keeps(c)
    <2> SUFFICES ASSUME op[c].pc = "checked", op'[c].pc = "merged" PROVE Keeps(c)
      OBVIOUS
    <2>0. TypeInv
      BY <1>1 DEF IInv
    <2>1. UpdateRead(c)
      BY <1>1, <2>0, OnlyReadMerges
    <2> DEFINE x == net[op[c].name].xml
               u == op[c].req
    <2>2. op[c].name \in Names /\ u \in Change
      BY <2>0, Held
    <2>3. ~Return(c)
      BY <2>0, Returns DEF Moves, Idle
    <2>4. /\ Valid(op[c]) /\ Accepted(Merged(x, u))
          /\ Goto(c, [pc |-> "merged", name |-> op[c].name, req |-> Merged(x, u)])
      BY <2>1, <2>3 DEF UpdateRead
    <2>5. x \in Xml
      BY <2>0, <2>2, <2>4, NetThere DEF Valid
    <2>6. op'[c].req = Merged(x, u)
      BY <2>0, <2>4 DEF Goto, TypeInv, OpTyped
    <2> HIDE DEF x, u
    <2>7. QED
      BY <2>2, <2>4, <2>5, <2>6, MergeKeeps DEF x, u
  <1>2. IInv /\ [Next]_vars => [\A c \in Callers : Keeps(c)]_vars
    BY <1>1
  <1>3. QED
    BY <1>2, Inductive, PTL DEF Spec, UpdateKeepsRest

=============================================================================

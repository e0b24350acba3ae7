---------------------------- MODULE AccountsProofs ----------------------------
(***************************************************************************)
(* Theorems about the users, for any names, passwords, concurrent requests *)
(* and restarts.                                                           *)
(***************************************************************************)
EXTENDS Accounts, FiniteSetTheorems, TLAPS

Targeting == {"change", "verified", "reset", "delete", "count", "remove"}
Targeted  == [pc : Targeting, caller : Caller, id : Id, meant : Names \cup {""}]

\* A removed user stays away: his id is not given again.
OnceInv ==
  \A i \in Id : deletions[i] \in {0, 1} /\ (deletions[i] = 1 => i < nextId /\ user[i] = NoRow)

\* The account a request was for is still the one with its id, or is gone.
MeantInv ==
  \A r \in Requests : op[r].pc \in Targeting =>
    \/ op[r].meant = ""
    \/ op[r].id < nextId /\ user[op[r].id].name \in {"", op[r].meant}

\* A deletion that has passed its check leaves an administrator other than its
\* target, until a deletion comes in between.
SurvivorInv ==
  ~raced => /\ Admins # {}
            /\ \A r \in Requests : op[r].pc = "remove" => \E a \in Admins : a # op[r].id

IInv == TypeOK /\ OnceInv /\ MeantInv /\ SurvivorInv

-----------------------------------------------------------------------------
(***************************************************************************)
(* The table and the requests                                              *)
(***************************************************************************)

LEMMA TargetedOp ==
  ASSUME TypeOK, NEW r \in Requests, op[r].pc \in Targeting
  PROVE  op[r] \in Targeted
  <1>1. op[r] \in OpState
    BY DEF TypeOK
  <1>2. Idle.pc = "idle" /\ \A x \in [pc : {"create"}, caller : Caller] : x.pc = "create"
    BY DEF Idle
  <1>3. op[r] # Idle /\ op[r] \notin [pc : {"create"}, caller : Caller]
    BY <1>2 DEF Targeting
  <1>4. OpState = {Idle} \cup [pc : {"create"}, caller : Caller] \cup Targeted
    BY DEF OpState, Targeting, Targeted
  <1>5. QED
    BY <1>1, <1>3, <1>4

LEMMA RowNamed ==
  /\ \A x \in Row : x.name \in Names /\ x.name # "" /\ x # NoRow
  /\ NoRow.name = "" /\ NoRow.role # "admin"
  <1>1. \A x \in Row : x.name \in Names
    BY DEF Row
  <1>2. NoRow.name = "" /\ NoRow.role # "admin"
    BY DEF NoRow
  <1>3. "" \notin Names
    BY AccountsAssumption
  <1>4. ASSUME NEW x \in Row PROVE x.name \in Names /\ x.name # "" /\ x # NoRow
    <2>1. x.name \in Names
      BY <1>1
    <2>2. x.name # ""
      BY <2>1, <1>3
    <2>3. QED
      BY <2>1, <2>2, <1>2
  <1>5. QED
    BY <1>2, <1>4

LEMMA RowOrNot ==
  ASSUME TypeOK, NEW i \in Id
  PROVE  /\ user[i] = NoRow \/ user[i] \in Row
         /\ user[i] = NoRow <=> user[i].name = ""
         /\ i \in Admins => user[i] # NoRow
  <1>1. user[i] \in {NoRow} \cup Row
    BY DEF TypeOK
  <1>2. QED
    BY <1>1, RowNamed DEF Admins

LEMMA Numbers ==
  /\ MaxId \in Nat /\ MaxCrashes \in Nat
  /\ Id \subseteq Nat
  /\ TypeOK => nextId \in Nat
  <1>1. MaxId \in Nat /\ MaxCrashes \in Nat
    BY AccountsAssumption
  <1>2. QED
    BY <1>1 DEF Id, TypeOK

\* What a statement that gives an id to a new row does to the table.
LEMMA Inserts ==
  ASSUME TypeOK, NEW row \in Row, Ids(row.name) = {}, Insert(row)
  PROVE  /\ user' \in [Id -> {NoRow} \cup Row]
         /\ nextId' \in 1..(MaxId + 1) /\ nextId < nextId'
         /\ \A i \in Id : i >= nextId' => user'[i] = NoRow
         /\ \A n \in Names : \A i, j \in Ids(n)' : i = j
         /\ \A i \in Id : i # nextId => user'[i] = user[i]
         /\ nextId \in Id => user[nextId] = NoRow
         /\ Admins \subseteq Admins'
  <1>1. nextId \in Id /\ user' = [user EXCEPT ![nextId] = row] /\ nextId' = nextId + 1
    BY DEF Insert, InsertedId
  <1>2. user \in [Id -> {NoRow} \cup Row] /\ user[nextId] = NoRow
    BY <1>1 DEF TypeOK
  <1>3. user' \in [Id -> {NoRow} \cup Row]
    BY <1>1, <1>2
  <1>4. \A i \in Id : user'[i] = IF i = nextId THEN row ELSE user[i]
    BY <1>1, <1>2
  <1>5. nextId' \in 1..(MaxId + 1) /\ nextId < nextId'
    <2>1. MaxId \in Nat /\ nextId \in 1..MaxId
      BY <1>1, AccountsAssumption DEF Id
    <2>2. QED
      BY <1>1, <2>1
  <1>6. \A i \in Id : i >= nextId' => user'[i] = NoRow
    <2>1. ASSUME NEW i \in Id, i >= nextId' PROVE i # nextId /\ i >= nextId
      BY <1>1, <2>1 DEF Id
    <2>2. \A i \in Id : i >= nextId => user[i] = NoRow
      BY DEF TypeOK
    <2>3. QED
      BY <1>4, <2>1, <2>2
  <1>7. ASSUME NEW n \in Names, NEW i \in Ids(n)', NEW j \in Ids(n)' PROVE i = j
    <2>1. i \in Id /\ j \in Id /\ user'[i].name = n /\ user'[j].name = n
      BY <1>7 DEF Ids
    <2>2. CASE n = row.name
      BY <2>1, <2>2, <1>4 DEF Ids
    <2>3. CASE n # row.name
      BY <2>1, <2>3, <1>4 DEF Ids, TypeOK
    <2>4. QED
      BY <2>2, <2>3
  <1>8. Admins \subseteq Admins'
    BY <1>2, <1>4, RowNamed DEF Admins
  <1>9. QED
    BY <1>2, <1>3, <1>4, <1>5, <1>6, <1>7, <1>8

LEMMA UpdatesPassword ==
  ASSUME TypeOK, NEW id \in Id, NEW p \in Passwords, UpdatePassword(id, p)
  PROVE  /\ user' \in [Id -> {NoRow} \cup Row]
         /\ nextId' = nextId
         /\ \A i \in Id : /\ user'[i] = NoRow <=> user[i] = NoRow
                          /\ user'[i].name = user[i].name
                          /\ user'[i].role = user[i].role
                          /\ i # id => user'[i] = user[i]
         /\ Admins' = Admins
  <1>1. user \in [Id -> {NoRow} \cup Row] /\ nextId' = nextId
    BY DEF TypeOK, UpdatePassword
  <1>2. CASE user[id] = NoRow
    <2>1. user' = user
      BY <1>2 DEF UpdatePassword
    <2>2. QED
      BY <1>1, <2>1 DEF Admins
  <1>3. CASE user[id] # NoRow
    <2>1. user[id] \in Row /\ user' = [user EXCEPT ![id].password = p]
      BY <1>1, <1>3 DEF UpdatePassword
    <2>2. [user[id] EXCEPT !.password = p] \in Row
      BY <2>1 DEF Row
    <2>3. \A i \in Id : user'[i] = IF i = id THEN [user[id] EXCEPT !.password = p] ELSE user[i]
      BY <1>1, <2>1
    <2>4. user' \in [Id -> {NoRow} \cup Row]
      BY <1>1, <2>1, <2>2
    <2>6. \A i \in Id : /\ user'[i] = NoRow <=> user[i] = NoRow
                        /\ user'[i].name = user[i].name
                        /\ user'[i].role = user[i].role
                        /\ i # id => user'[i] = user[i]
      <3>1. [user[id] EXCEPT !.password = p].name = user[id].name
            /\ [user[id] EXCEPT !.password = p].role = user[id].role
        BY <2>1 DEF Row
      <3>2. [user[id] EXCEPT !.password = p] # NoRow /\ user[id] # NoRow
        BY <2>1, <2>2, RowNamed
      <3>3. QED
        BY <2>3, <3>1, <3>2
    <2>7. Admins' = Admins
      BY <2>6 DEF Admins
    <2>8. QED
      BY <1>1, <2>4, <2>6, <2>7
  <1>4. QED
    BY <1>2, <1>3

\* More than one administrator: one other than any given user.
LEMMA AnotherAdmin ==
  ASSUME ~(Cardinality(Admins) <= 1), NEW id \in Id
  PROVE  \E a \in Admins : a # id
  <1>1. SUFFICES ASSUME \A a \in Admins : a = id PROVE FALSE
    OBVIOUS
  <1>2. IsFiniteSet({id}) /\ Cardinality({id}) = 1
    BY FS_Singleton
  <1>3. Admins \in SUBSET {id}
    BY <1>1
  <1>4. Cardinality(Admins) <= Cardinality({id})
    BY <1>2, <1>3, FS_Subset
  <1>5. QED
    BY <1>2, <1>4

LEMMA ReturnsOp ==
  ASSUME TypeOK, NEW r \in Requests, Return(r)
  PROVE  /\ op' \in [Requests -> OpState]
         /\ op'[r] = Idle /\ op'[r].pc = "idle"
         /\ \A q \in Requests : q # r => op'[q] = op[q]
  <1>1. op \in [Requests -> OpState] /\ op' = [op EXCEPT ![r] = Idle]
    BY DEF TypeOK, Return, Goto
  <1>2. Idle \in OpState
    BY DEF OpState
  <1>3. Idle.pc = "idle"
    BY DEF Idle
  <1>4. QED
    BY <1>1, <1>2, <1>3

LEMMA MovesOp ==
  ASSUME TypeOK, NEW r \in Requests, op[r].pc \in Targeting, NEW pc \in Targeting, Moves(r, pc)
  PROVE  /\ op' \in [Requests -> OpState]
         /\ op'[r].pc = pc /\ op'[r].id = op[r].id /\ op'[r].meant = op[r].meant
         /\ \A q \in Requests : q # r => op'[q] = op[q]
  <1>1. op \in [Requests -> OpState] /\ op' = [op EXCEPT ![r].pc = pc]
    BY DEF TypeOK, Moves
  <1>2. op[r] \in Targeted
    BY TargetedOp
  <1>3. op'[r] = [op[r] EXCEPT !.pc = pc]
    BY <1>1
  <1>4. op'[r] \in Targeted
    BY <1>2, <1>3 DEF Targeted
  <1>5. Targeted \subseteq OpState
    BY DEF Targeted, Targeting, OpState
  <1>6. op' \in [Requests -> OpState]
    BY <1>1, <1>3, <1>4, <1>5
  <1>7. op'[r].pc = pc /\ op'[r].id = op[r].id /\ op'[r].meant = op[r].meant
    BY <1>2, <1>3 DEF Targeted
  <1>8. QED
    BY <1>1, <1>6, <1>7

-----------------------------------------------------------------------------
(***************************************************************************)
(* The steps                                                               *)
(***************************************************************************)

LEMMA InitIInv == Init => IInv
  <1> SUFFICES ASSUME Init PROVE IInv
    OBVIOUS
  <1>1. PICK p \in Passwords :
          user = [i \in Id |-> IF i = 1 THEN [name |-> AdminName, role |-> "admin", password |-> p]
                               ELSE NoRow]
    BY DEF Init
  <1> DEFINE first == [name |-> AdminName, role |-> "admin", password |-> p]
  <1>2. first \in Row
    BY AccountsAssumption DEF Row, Roles
  <1>3. 1 \in Id /\ MaxId \in Nat /\ MaxCrashes \in Nat
    <2>1. MaxId \in Nat \ {0} /\ MaxCrashes \in Nat
      BY AccountsAssumption
    <2>2. QED
      BY <2>1 DEF Id
  <1>4. user \in [Id -> {NoRow} \cup Row] /\ nextId \in 1..(MaxId + 1)
    <2>1. user \in [Id -> {NoRow} \cup Row]
      BY <1>1, <1>2
    <2>2. QED
      BY <2>1, <1>3 DEF Init, Id
  <1>5. \A i \in Id : i >= nextId => user[i] = NoRow
    BY <1>1 DEF Init, Id
  <1>6. \A n \in Names : \A i, j \in Ids(n) : i = j
    <2>1. \A i \in Id : i # 1 => user[i].name = ""
      BY <1>1, RowNamed
    <2>2. QED
      BY <2>1, AccountsAssumption DEF Ids
  <1>7. op = [r \in Requests |-> Idle] /\ Idle \in OpState /\ Idle.pc = "idle"
    BY DEF Init, OpState, Idle
  <1>8. TypeOK
    <2>1. tokens \subseteq Names /\ deletions \in [Id -> Nat] /\ crashes \in 0..MaxCrashes
      BY <1>3 DEF Init
    <2>2. op \in [Requests -> OpState]
      BY <1>7
    <2>3. raced \in BOOLEAN
      BY DEF Init
    <2>4. QED
      BY <1>4, <1>5, <1>6, <2>1, <2>2, <2>3 DEF TypeOK
  <1>9. OnceInv
    BY DEF Init, OnceInv
  <1>10. MeantInv
    BY <1>7 DEF MeantInv, Targeting
  <1>11. 1 \in Admins
    BY <1>1, <1>3 DEF Admins
  <1>12. SurvivorInv
    BY <1>7, <1>11 DEF SurvivorInv
  <1>13. QED
    BY <1>8, <1>9, <1>10, <1>12 DEF IInv

\* A request that goes from one of its statements to the next.
LEMMA MoveKeeps ==
  ASSUME IInv, NEW r \in Requests, op[r].pc \in Targeting, NEW pc \in Targeting, Moves(r, pc),
         UNCHANGED <<table, tokens, deletions, raced, crashes>>,
         pc = "remove" /\ ~raced => \E a \in Admins : a # op[r].id
  PROVE  IInv'
  <1> USE DEF IInv, table
  <1>1. /\ op' \in [Requests -> OpState]
        /\ op'[r].pc = pc /\ op'[r].id = op[r].id /\ op'[r].meant = op[r].meant
        /\ \A q \in Requests : q # r => op'[q] = op[q]
    BY MovesOp
  <1>2. TypeOK'
    BY <1>1 DEF TypeOK, Ids
  <1>3. OnceInv'
    BY DEF OnceInv
  <1>4. MeantInv'
    BY <1>1 DEF MeantInv
  <1>5. Admins' = Admins
    BY DEF Admins
  <1>6. SurvivorInv'
    BY <1>1, <1>5 DEF SurvivorInv
  <1>7. QED
    BY <1>2, <1>3, <1>4, <1>6

LEMMA ReturnKeeps ==
  ASSUME IInv, NEW r \in Requests, Return(r),
         UNCHANGED <<table, tokens, deletions, raced, crashes>>
  PROVE  IInv'
  <1> USE DEF IInv, table
  <1>1. /\ op' \in [Requests -> OpState] /\ op'[r].pc = "idle"
        /\ \A q \in Requests : q # r => op'[q] = op[q]
    BY ReturnsOp
  <1>2. TypeOK'
    BY <1>1 DEF TypeOK, Ids
  <1>3. OnceInv'
    BY DEF OnceInv
  <1>4. MeantInv'
    BY <1>1 DEF MeantInv, Targeting
  <1>5. Admins' = Admins
    BY DEF Admins
  <1>6. SurvivorInv'
    BY <1>1, <1>5 DEF SurvivorInv
  <1>7. QED
    BY <1>2, <1>3, <1>4, <1>6

LEMMA SessionsKeep ==
  ASSUME IInv, NEW n \in Names, (\E p \in Passwords : Login(n, p)) \/ Expire(n)
  PROVE  IInv'
  <1> USE DEF IInv, table
  <1>1. tokens' \subseteq Names /\ UNCHANGED <<user, nextId, op, deletions, raced, crashes>>
    BY DEF Login, Expire, TypeOK
  <1>2. TypeOK'
    BY <1>1 DEF TypeOK, Ids
  <1>3. OnceInv' /\ MeantInv'
    BY <1>1 DEF OnceInv, MeantInv
  <1>4. SurvivorInv'
    BY <1>1 DEF SurvivorInv, Admins
  <1>5. QED
    BY <1>2, <1>3, <1>4

\* What a request is for is there now, or was never made.
LEMMA ArriveKeeps ==
  ASSUME IInv, NEW r \in Requests, NEW n \in Names, NEW k \in Kinds, NEW x \in Id, Arrive(r, n, k, x)
  PROVE  IInv'
  <1> USE DEF IInv, table
  <1>1. PICK i \in Ids(n) :
          Goto(r, IF k = "create" THEN [pc |-> k, caller |-> [id |-> i, role |-> user[i].role]]
                  ELSE [pc |-> k, caller |-> [id |-> i, role |-> user[i].role],
                        id |-> IF k = "change" THEN i ELSE x,
                        meant |-> user[IF k = "change" THEN i ELSE x].name])
    BY DEF Arrive
  <1> DEFINE caller == [id |-> i, role |-> user[i].role]
             y == IF k = "change" THEN i ELSE x
             to == [pc |-> k, caller |-> caller, id |-> y, meant |-> user[y].name]
  <1>2. UNCHANGED <<user, nextId, tokens, deletions, raced, crashes>>
    BY DEF Arrive
  <1>3. i \in Id /\ y \in Id
    BY DEF Ids
  <1>4. user[i] \in Row
    <2>1. user[i].name # ""
      BY AccountsAssumption DEF Ids
    <2>2. QED
      BY <1>3, <2>1, RowOrNot
  <1>5. caller \in Caller
    BY <1>3, <1>4 DEF Caller, Row
  <1>6. user[y].name \in Names \cup {""}
    BY <1>3, RowOrNot, RowNamed
  <1>7. y < nextId \/ user[y].name = ""
    <2>1. ASSUME NEW z \in Id PROVE z < nextId \/ user[z].name = ""
      <3>1. z \in Nat /\ nextId \in Nat
        BY Numbers
      <3>2. z >= nextId => user[z] = NoRow
        BY DEF TypeOK
      <3>3. z >= nextId => user[z].name = ""
        BY <3>2, RowNamed
      <3>4. z < nextId \/ z >= nextId
        BY <3>1
      <3>5. QED
        BY <3>3, <3>4
    <2>2. QED
      BY <1>3, <2>1
  <1>8. CASE k = "create"
    <2>1. [pc |-> k, caller |-> caller] \in OpState
      BY <1>5, <1>8 DEF OpState
    <2>2. /\ op' \in [Requests -> OpState] /\ op'[r].pc = "create"
          /\ \A q \in Requests : q # r => op'[q] = op[q]
      BY <1>1, <1>8, <2>1 DEF Goto, TypeOK
    <2>3. TypeOK'
      BY <1>2, <2>2 DEF TypeOK, Ids
    <2>4. OnceInv' /\ MeantInv'
      BY <1>2, <2>2 DEF OnceInv, MeantInv, Targeting
    <2>5. SurvivorInv'
      BY <1>2, <2>2 DEF SurvivorInv, Admins
    <2>6. QED
      BY <2>3, <2>4, <2>5
  <1>9. CASE k # "create"
    <2>1. k \in {"change", "reset", "delete"}
      BY <1>9 DEF Kinds
    <2>2. to \in Targeted
      BY <1>3, <1>5, <1>6, <2>1 DEF Targeted, Targeting
    <2>3. Targeted \subseteq OpState
      BY DEF Targeted, Targeting, OpState
    <2>4. /\ op' \in [Requests -> OpState] /\ op'[r] = to
          /\ \A q \in Requests : q # r => op'[q] = op[q]
      BY <1>1, <1>9, <2>2, <2>3 DEF Goto, TypeOK
    <2>5. op'[r].pc # "remove" /\ op'[r].id = y /\ op'[r].meant = user[y].name
      BY <2>1, <2>4
    <2>6. TypeOK'
      BY <1>2, <2>4 DEF TypeOK, Ids
    <2>7. OnceInv'
      BY <1>2 DEF OnceInv
    <2>8. MeantInv'
      BY <1>2, <1>7, <2>4, <2>5 DEF MeantInv
    <2>9. SurvivorInv'
      BY <1>2, <2>4, <2>5 DEF SurvivorInv, Admins
    <2>10. QED
      BY <2>6, <2>7, <2>8, <2>9
  <1>10. QED
    BY <1>8, <1>9

\* A new row takes an id that no request was for and that nobody had.
LEMMA InsertKeeps ==
  ASSUME IInv, NEW row \in Row, Ids(row.name) = {}, Insert(row),
         op' \in [Requests -> OpState],
         \A q \in Requests : op'[q] = op[q] \/ op'[q].pc = "idle",
         tokens' \subseteq Names, crashes' \in 0..MaxCrashes, UNCHANGED <<deletions, raced>>
  PROVE  IInv'
  <1> USE DEF IInv
  <1>1. /\ user' \in [Id -> {NoRow} \cup Row]
        /\ nextId' \in 1..(MaxId + 1) /\ nextId < nextId'
        /\ \A i \in Id : i >= nextId' => user'[i] = NoRow
        /\ \A m \in Names : \A i, j \in Ids(m)' : i = j
        /\ \A i \in Id : i # nextId => user'[i] = user[i]
        /\ Admins \subseteq Admins'
    BY Inserts
  <1>2. nextId \in Nat /\ nextId' \in Nat
    BY <1>1, Numbers
  <1>3. TypeOK'
    BY <1>1 DEF TypeOK
  <1>4. OnceInv'
    BY <1>1, <1>2 DEF OnceInv, Id
  <1>5. MeantInv'
    <2>1. SUFFICES ASSUME NEW q \in Requests, op'[q].pc \in Targeting
                   PROVE  \/ op'[q].meant = ""
                          \/ op'[q].id < nextId' /\ user'[op'[q].id].name \in {"", op'[q].meant}
      BY DEF MeantInv
    <2>2. op'[q] = op[q] /\ op[q] \in Targeted
      BY <2>1, TargetedOp DEF Targeting
    <2>3. op[q].id \in Id
      BY <2>2 DEF Targeted
    <2>4. \/ op[q].meant = ""
          \/ op[q].id < nextId /\ user[op[q].id].name \in {"", op[q].meant}
      BY <2>1, <2>2 DEF MeantInv
    <2>5. op[q].id \in Nat
      BY <2>3, Numbers
    <2>6. op[q].id < nextId => op[q].id < nextId' /\ user'[op[q].id] = user[op[q].id]
      BY <1>1, <1>2, <2>3, <2>5
    <2>7. QED
      BY <2>2, <2>4, <2>6
  <1>6. SurvivorInv'
    BY <1>1 DEF SurvivorInv
  <1>7. QED
    BY <1>3, <1>4, <1>5, <1>6

LEMMA CreateUserKeeps ==
  ASSUME IInv, NEW r \in Requests, NEW n \in Names, NEW role \in Roles, NEW p \in Passwords,
         CreateUser(r, n, role, p)
  PROVE  IInv'
  <1> DEFINE row == [name |-> n, role |-> role, password |-> p]
  <1>1. TypeOK /\ Return(r) /\ UNCHANGED <<tokens, deletions, raced, crashes>>
    BY DEF IInv, CreateUser
  <1>2. CASE Ids(n) = {}
    <2>1. row \in Row /\ row.name = n /\ Insert(row)
      BY <1>2 DEF CreateUser, Row
    <2>2. /\ op' \in [Requests -> OpState]
          /\ \A q \in Requests : op'[q] = op[q] \/ op'[q].pc = "idle"
      BY <1>1, ReturnsOp
    <2>3. tokens' \subseteq Names /\ crashes' \in 0..MaxCrashes
      BY <1>1 DEF TypeOK
    <2>4. Ids(row.name) = {}
      BY <1>2, <2>1
    <2>5. QED
      BY <1>1, <2>1, <2>2, <2>3, <2>4, InsertKeeps
  <1>3. CASE Ids(n) # {}
    <2>1. UNCHANGED table
      BY <1>3 DEF CreateUser
    <2>2. QED
      BY <1>1, <2>1, ReturnKeeps
  <1>4. QED
    BY <1>2, <1>3

\* A password changes no name, no role and no id.
LEMMA UpdateKeeps ==
  ASSUME IInv, NEW r \in Requests, op[r].pc \in Targeting, NEW p \in Passwords,
         UpdatePassword(op[r].id, p), Return(r), UNCHANGED <<tokens, deletions, raced, crashes>>
  PROVE  IInv'
  <1> USE DEF IInv
  <1>1. op[r].id \in Id
    BY TargetedOp DEF Targeted
  <1>2. /\ user' \in [Id -> {NoRow} \cup Row]
        /\ nextId' = nextId
        /\ \A i \in Id : /\ user'[i] = NoRow <=> user[i] = NoRow
                         /\ user'[i].name = user[i].name
        /\ Admins' = Admins
    BY <1>1, UpdatesPassword
  <1>3. /\ op' \in [Requests -> OpState] /\ op'[r].pc = "idle"
        /\ \A q \in Requests : q # r => op'[q] = op[q]
    BY ReturnsOp
  <1>4. \A n \in Names : Ids(n)' = Ids(n)
    BY <1>2 DEF Ids
  <1>5. TypeOK'
    BY <1>2, <1>3, <1>4 DEF TypeOK
  <1>6. OnceInv'
    BY <1>2 DEF OnceInv
  <1>7. MeantInv'
    <2>1. SUFFICES ASSUME NEW q \in Requests, op'[q].pc \in Targeting
                   PROVE  \/ op'[q].meant = ""
                          \/ op'[q].id < nextId' /\ user'[op'[q].id].name \in {"", op'[q].meant}
      BY DEF MeantInv
    <2>2. op'[q] = op[q] /\ op[q] \in Targeted
      BY <1>3, <2>1, TargetedOp DEF Targeting
    <2>3. op[q].id \in Id
      BY <2>2 DEF Targeted
    <2>4. QED
      BY <1>2, <2>1, <2>2, <2>3 DEF MeantInv
  <1>8. SurvivorInv'
    BY <1>2, <1>3 DEF SurvivorInv
  <1>9. QED
    BY <1>5, <1>6, <1>7, <1>8

\* Nobody else's request is disturbed, and another administrator remains unless
\* one more deletion was under way.
LEMMA DeleteRowKeeps ==
  ASSUME IInv, NEW r \in Requests, DeleteRow(r)
  PROVE  IInv'
  <1> USE DEF IInv
  <1> DEFINE id == op[r].id
  <1>1. op[r].pc = "remove" /\ op[r].pc \in Targeting /\ Return(r)
    BY DEF DeleteRow, Targeting
  <1>2. id \in Id
    BY <1>1, TargetedOp DEF Targeted
  <1>3. /\ op' \in [Requests -> OpState] /\ op'[r].pc = "idle"
        /\ \A q \in Requests : q # r => op'[q] = op[q]
    BY <1>1, ReturnsOp
  <1>4. /\ user \in [Id -> {NoRow} \cup Row] /\ user' = [user EXCEPT ![id] = NoRow]
        /\ nextId' = nextId /\ tokens' = tokens /\ crashes' = crashes
    BY DEF DeleteRow, TypeOK
  <1>5. \A i \in Id : user'[i] = IF i = id THEN NoRow ELSE user[i]
    BY <1>2, <1>4
  <1>6. \A i \in Id : deletions'[i] = IF i = id /\ user[id] # NoRow THEN deletions[i] + 1 ELSE deletions[i]
    BY <1>2 DEF DeleteRow, Done, TypeOK
  <1>7. TypeOK'
    <2>1. user' \in [Id -> {NoRow} \cup Row]
      BY <1>4
    <2>2. \A i \in Id : i >= nextId' => user'[i] = NoRow
      BY <1>4, <1>5 DEF TypeOK
    <2>3. \A n \in Names : Ids(n)' \subseteq Ids(n)
      BY <1>5, RowNamed, AccountsAssumption DEF Ids
    <2>4. \A n \in Names : \A i, j \in Ids(n)' : i = j
      BY <2>3 DEF TypeOK
    <2>5. deletions' \in [Id -> Nat]
      BY <1>2 DEF DeleteRow, TypeOK
    <2>6. raced' \in BOOLEAN
      BY DEF DeleteRow
    <2>7. QED
      BY <1>3, <1>4, <2>1, <2>2, <2>4, <2>5, <2>6 DEF TypeOK
  <1>8. OnceInv'
    <2>1. ASSUME NEW i \in Id
          PROVE  deletions'[i] \in {0, 1} /\ (deletions'[i] = 1 => i < nextId' /\ user'[i] = NoRow)
      <3>1. i \in Nat /\ nextId \in Nat
        BY Numbers
      <3>2. deletions[i] \in {0, 1} /\ (deletions[i] = 1 => i < nextId /\ user[i] = NoRow)
        BY DEF OnceInv
      <3>3. CASE i = id /\ user[id] # NoRow
        <4>1. deletions'[i] = 1
          BY <1>6, <3>2, <3>3
        <4>2. ~(i >= nextId)
          BY <3>3 DEF TypeOK
        <4>3. i < nextId
          BY <3>1, <4>2
        <4>4. QED
          BY <1>4, <1>5, <3>3, <4>1, <4>3
      <3>4. CASE ~(i = id /\ user[id] # NoRow)
        <4>1. deletions'[i] = deletions[i]
          BY <1>6, <3>4
        <4>2. user[i] = NoRow => user'[i] = NoRow
          BY <1>5
        <4>3. QED
          BY <1>4, <3>2, <4>1, <4>2
      <3>5. QED
        BY <3>3, <3>4
    <2>2. QED
      BY <2>1 DEF OnceInv
  <1>9. MeantInv'
    <2>1. SUFFICES ASSUME NEW q \in Requests, op'[q].pc \in Targeting
                   PROVE  \/ op'[q].meant = ""
                          \/ op'[q].id < nextId' /\ user'[op'[q].id].name \in {"", op'[q].meant}
      BY DEF MeantInv
    <2>2. op'[q] = op[q] /\ op[q] \in Targeted
      BY <1>3, <2>1, TargetedOp DEF Targeting
    <2>3. op[q].id \in Id
      BY <2>2 DEF Targeted
    <2>4. \/ op[q].meant = ""
          \/ op[q].id < nextId /\ user[op[q].id].name \in {"", op[q].meant}
      BY <2>1, <2>2 DEF MeantInv
    <2>5. user'[op[q].id] = user[op[q].id] \/ user'[op[q].id].name = ""
      BY <1>5, <2>3, RowNamed
    <2>6. QED
      BY <1>4, <2>2, <2>4, <2>5
  <1>10. SurvivorInv'
    <2>1. SUFFICES ASSUME ~raced'
                   PROVE  /\ Admins' # {}
                          /\ \A q \in Requests : op'[q].pc = "remove" => \E a \in Admins' : a # op'[q].id
      BY DEF SurvivorInv
    <2>2. ~raced /\ (id \in Admins => \A q \in Requests \ {r} : op[q].pc # "remove")
      BY <2>1 DEF DeleteRow
    <2>3. \E a \in Admins : a # id
      BY <1>1, <2>2 DEF SurvivorInv
    <2>4. Admins' = Admins \ {id}
      BY <1>2, <1>5, RowNamed DEF Admins
    <2>5. CASE id \in Admins
      BY <1>3, <2>2, <2>3, <2>4, <2>5
    <2>6. CASE id \notin Admins
      BY <1>3, <2>2, <2>3, <2>4, <2>6 DEF SurvivorInv
    <2>7. QED
      BY <2>5, <2>6
  <1>11. QED
    BY <1>7, <1>8, <1>9, <1>10

LEMMA RestartKeeps ==
  ASSUME IInv, Restart
  PROVE  IInv'
  <1>1. TypeOK
    BY DEF IInv
  <1>2. op' = [r \in Requests |-> Idle] /\ Idle \in OpState /\ Idle.pc = "idle"
    BY DEF Restart, OpState, Idle
  <1>3. /\ op' \in [Requests -> OpState]
        /\ \A q \in Requests : op'[q].pc = "idle"
    BY <1>2
  <1>4. tokens' \subseteq Names
    BY <1>1 DEF Restart, TypeOK
  <1>5. crashes' \in 0..MaxCrashes
    BY <1>1, Numbers DEF Restart, TypeOK
  <1>6. UNCHANGED <<deletions, raced>>
    BY DEF Restart
  <1>7. CASE \A i \in Id : user[i] = NoRow
    <2>1. PICK p \in Passwords : Insert([name |-> AdminName, role |-> "admin", password |-> p])
      BY <1>7 DEF Restart, Bootstrapped
    <2> DEFINE row == [name |-> AdminName, role |-> "admin", password |-> p]
    <2>2. row \in Row /\ row.name = AdminName
      BY AccountsAssumption DEF Row, Roles
    <2>3. Ids(row.name) = {}
      BY <1>7, <2>2, AccountsAssumption, RowNamed DEF Ids
    <2>4. QED
      BY <1>3, <1>4, <1>5, <1>6, <2>1, <2>2, <2>3, InsertKeeps
  <1>8. CASE ~(\A i \in Id : user[i] = NoRow)
    <2>1. UNCHANGED <<user, nextId>>
      BY <1>8 DEF Restart, Bootstrapped, table
    <2>2. TypeOK'
      BY <1>1, <1>3, <1>4, <1>5, <1>6, <2>1 DEF TypeOK, Ids
    <2>3. OnceInv'
      BY <1>6, <2>1 DEF IInv, OnceInv
    <2>4. MeantInv'
      BY <1>3 DEF MeantInv, Targeting
    <2>5. SurvivorInv'
      BY <1>3, <1>6, <2>1 DEF IInv, SurvivorInv, Admins
    <2>6. QED
      BY <2>2, <2>3, <2>4, <2>5 DEF IInv
  <1>9. QED
    BY <1>7, <1>8

LEMMA DeleteBeginKeeps ==
  ASSUME IInv, NEW r \in Requests, DeleteBegin(r)
  PROVE  IInv'
  <1>1. op[r].pc \in Targeting /\ UNCHANGED <<table, tokens, deletions, raced, crashes>>
    BY DEF DeleteBegin, Targeting
  <1>2. CASE op[r].caller.id = op[r].id
    BY <1>1, <1>2, ReturnKeeps DEF DeleteBegin
  <1>3. CASE op[r].caller.id # op[r].id /\ op[r].id \in Admins
    <2>1. Moves(r, "count")
      BY <1>3 DEF DeleteBegin
    <2>2. "count" \in Targeting /\ "count" # "remove"
      BY DEF Targeting
    <2>3. QED
      BY <1>1, <2>1, <2>2, MoveKeeps
  <1>4. CASE op[r].caller.id # op[r].id /\ op[r].id \notin Admins
    <2>1. Moves(r, "remove")
      BY <1>4 DEF DeleteBegin
    <2>2. "remove" \in Targeting
      BY DEF Targeting
    <2>3. ~raced => \E a \in Admins : a # op[r].id
      BY <1>4 DEF IInv, SurvivorInv
    <2>4. QED
      BY <1>1, <2>1, <2>2, <2>3, MoveKeeps
  <1>5. QED
    BY <1>2, <1>3, <1>4

LEMMA CountAdminsKeeps ==
  ASSUME IInv, NEW r \in Requests, CountAdmins(r)
  PROVE  IInv'
  <1>1. op[r].pc \in Targeting /\ UNCHANGED <<table, tokens, deletions, raced, crashes>>
    BY DEF CountAdmins, Targeting
  <1>2. CASE Cardinality(Admins) <= 1
    BY <1>1, <1>2, ReturnKeeps DEF CountAdmins
  <1>3. CASE ~(Cardinality(Admins) <= 1)
    <2>1. Moves(r, "remove") /\ "remove" \in Targeting
      BY <1>3 DEF CountAdmins, Targeting
    <2>2. op[r].id \in Id
      BY <1>1, TargetedOp DEF IInv, Targeted
    <2>3. \E a \in Admins : a # op[r].id
      BY <1>3, <2>2, AnotherAdmin
    <2>4. QED
      BY <1>1, <2>1, <2>3, MoveKeeps
  <1>4. QED
    BY <1>2, <1>3

LEMMA PasswordsKeep ==
  ASSUME IInv, NEW r \in Requests, NEW p \in Passwords,
         ResetPassword(r, p) \/ VerifyCurrent(r, p) \/ ChangePassword(r, p)
  PROVE  IInv'
  <1>1. CASE ResetPassword(r, p) \/ ChangePassword(r, p)
    <2>1. /\ op[r].pc \in Targeting /\ UpdatePassword(op[r].id, p) /\ Return(r)
          /\ UNCHANGED <<tokens, deletions, raced, crashes>>
      BY <1>1 DEF ResetPassword, ChangePassword, Targeting
    <2>2. QED
      BY <2>1, UpdateKeeps
  <1>2. CASE VerifyCurrent(r, p)
    <2>1. /\ op[r].pc \in Targeting
          /\ Moves(r, "verified") \/ Return(r)
          /\ UNCHANGED <<table, tokens, deletions, raced, crashes>>
      BY <1>2 DEF VerifyCurrent, Targeting
    <2>2. "verified" \in Targeting /\ "verified" # "remove"
      BY DEF Targeting
    <2>3. QED
      BY <2>1, <2>2, MoveKeeps, ReturnKeeps
  <1>3. QED
    BY <1>1, <1>2

LEMMA NextKeeps == IInv /\ [Next]_vars => IInv'
  <1> SUFFICES ASSUME IInv, [Next]_vars PROVE IInv'
    OBVIOUS
  <1>1. ASSUME NEW n \in Names, (\E p \in Passwords : Login(n, p)) \/ Expire(n) PROVE IInv'
    BY <1>1, SessionsKeep
  <1>2. ASSUME NEW r \in Requests, NEW n \in Names, NEW k \in Kinds, NEW i \in Id, Arrive(r, n, k, i)
        PROVE IInv'
    BY <1>2, ArriveKeeps
  <1>3. ASSUME NEW r \in Requests, NEW n \in Names, NEW role \in Roles, NEW p \in Passwords,
               CreateUser(r, n, role, p)
        PROVE IInv'
    BY <1>3, CreateUserKeeps
  <1>4. ASSUME NEW r \in Requests, NEW p \in Passwords,
               ResetPassword(r, p) \/ VerifyCurrent(r, p) \/ ChangePassword(r, p)
        PROVE IInv'
    BY <1>4, PasswordsKeep
  <1>5. ASSUME NEW r \in Requests, DeleteBegin(r) \/ CountAdmins(r) \/ DeleteRow(r) PROVE IInv'
    BY <1>5, DeleteBeginKeeps, CountAdminsKeeps, DeleteRowKeeps
  <1>6. CASE Restart
    BY <1>6, RestartKeeps
  <1>7. CASE UNCHANGED vars
    <2>1. UNCHANGED <<user, nextId, tokens, op, deletions, raced, crashes>>
      BY <1>7 DEF vars, table
    <2>2. TypeOK' /\ OnceInv' /\ MeantInv'
      BY <2>1 DEF IInv, TypeOK, OnceInv, MeantInv, Ids
    <2>3. SurvivorInv'
      BY <2>1 DEF IInv, SurvivorInv, Admins
    <2>4. QED
      BY <2>2, <2>3 DEF IInv
  <1>8. QED
    BY <1>1, <1>2, <1>3, <1>4, <1>5, <1>6, <1>7 DEF Next

-----------------------------------------------------------------------------
(***************************************************************************)
(* Theorems                                                                *)
(***************************************************************************)

THEOREM IInvHolds == Spec => []IInv
  <1>1. QED
    BY InitIInv, NextKeeps, PTL DEF Spec

\* The table, the requests and the sequence keep their types, and no two users
\* have one name.
THEOREM TypeCorrect == Spec => []TypeOK
  <1>1. IInv => TypeOK
    BY DEF IInv
  <1>2. QED
    BY <1>1, IInvHolds, PTL

\* An administrator remains unless one was deleted while another deletion had
\* passed its check: the count and the deletion are two statements.
THEOREM AdministratorRemains == Spec => []AdminRemains
  <1>1. IInv => AdminRemains
    BY DEF IInv, SurvivorInv, AdminRemains
  <1>2. QED
    BY <1>1, IInvHolds, PTL

\* Every user is deleted at most once, whatever requests compete for it.
THEOREM DeletedAtMostOnce == Spec => []DeletedOnce
  <1>1. IInv => DeletedOnce
    BY DEF IInv, OnceInv, DeletedOnce
  <1>2. QED
    BY <1>1, IInvHolds, PTL

\* A request changes or deletes the account it was for or none, since an id is
\* never given again.
THEOREM RequestsActOnMeant == Spec => ActsOnMeant
  <1> DEFINE Act ==
        \A i \in Id : user[i] # NoRow /\ user'[i] # user[i] =>
          \E r \in Requests : op[r].pc \in {"reset", "verified", "remove"} /\ op[r].id = i
                              /\ op[r].meant \in {user[i].name, ""} /\ op'[r] = Idle
  <1>1. IInv /\ [Next]_vars => [Act]_vars
    <2> SUFFICES ASSUME IInv, [Next]_vars, NEW i \in Id, user[i] # NoRow, user'[i] # user[i]
                 PROVE  \E r \in Requests : op[r].pc \in {"reset", "verified", "remove"} /\ op[r].id = i
                          /\ op[r].meant \in {user[i].name, ""} /\ op'[r] = Idle
      OBVIOUS
    <2>1. TypeOK
      BY DEF IInv
    <2>2. ~ UNCHANGED user
      OBVIOUS
    <2>3. ASSUME NEW row \in Row, Ids(row.name) = {}, Insert(row) PROVE FALSE
      BY <2>1, <2>3, Inserts
    <2>4. ASSUME NEW r \in Requests, op[r].pc \in {"reset", "verified", "remove"}, op[r].id = i, Return(r)
          PROVE  op[r].meant \in {user[i].name, ""} /\ op'[r] = Idle
      <3>1. op[r].pc \in Targeting
        BY <2>4 DEF Targeting
      <3>2. op[r].meant = "" \/ user[i].name \in {"", op[r].meant}
        BY <2>4, <3>1 DEF IInv, MeantInv
      <3>3. user[i].name # ""
        BY <2>1, RowOrNot
      <3>4. op'[r] = Idle
        BY <2>1, <2>4, ReturnsOp
      <3>5. QED
        BY <3>2, <3>3, <3>4
    <2>5. ASSUME NEW r \in Requests, NEW n \in Names, NEW role \in Roles, NEW p \in Passwords,
                 CreateUser(r, n, role, p)
          PROVE  FALSE
      <3>1. [name |-> n, role |-> role, password |-> p] \in Row
        BY DEF Row
      <3>2. Ids(n) = {} /\ Insert([name |-> n, role |-> role, password |-> p])
        BY <2>2, <2>5 DEF CreateUser, table
      <3>3. QED
        BY <2>3, <3>1, <3>2
    <2>6. ASSUME NEW r \in Requests, NEW p \in Passwords, ResetPassword(r, p) \/ ChangePassword(r, p)
          PROVE  op[r].pc \in {"reset", "verified"} /\ op[r].id = i /\ Return(r)
      <3>1. op[r].pc \in {"reset", "verified"} /\ UpdatePassword(op[r].id, p) /\ Return(r)
        BY <2>6 DEF ResetPassword, ChangePassword
      <3>2. op[r].id \in Id
        BY <2>1, <3>1, TargetedOp DEF Targeting, Targeted
      <3>3. QED
        BY <2>1, <3>1, <3>2, UpdatesPassword
    <2>7. ASSUME NEW r \in Requests, DeleteRow(r)
          PROVE  op[r].pc = "remove" /\ op[r].id = i /\ Return(r)
      <3>1. op[r].pc = "remove" /\ Return(r) /\ user' = [user EXCEPT ![op[r].id] = NoRow]
        BY <2>7 DEF DeleteRow
      <3>2. QED
        BY <2>1, <3>1 DEF TypeOK
    <2>8. ~Restart
      <3>1. SUFFICES ASSUME Restart PROVE FALSE
        OBVIOUS
      <3>2. QED
        BY <2>2, <3>1 DEF Restart, Bootstrapped, table
    <2>9. CASE \E r \in Requests, p \in Passwords : ResetPassword(r, p) \/ ChangePassword(r, p)
      BY <2>4, <2>6, <2>9
    <2>10. CASE \E r \in Requests : DeleteRow(r)
      BY <2>4, <2>7, <2>10
    <2>11. CASE UNCHANGED user
      BY <2>2, <2>11
    <2>12. QED
      BY <2>5, <2>8, <2>9, <2>10, <2>11
         DEF Next, Login, Expire, Arrive, VerifyCurrent, DeleteBegin, CountAdmins, vars, table
  <1>2. QED
    BY <1>1, IInvHolds, PTL DEF Spec, ActsOnMeant

=============================================================================

------------------------------- MODULE Accounts -------------------------------
(***************************************************************************)
(* The users of the server (internal/auth/auth.go), the requests that      *)
(* manage them (internal/api/users_handlers.go, auth_handlers.go), and the *)
(* start-up that makes the first administrator.                            *)
(*                                                                         *)
(* The database has one connection, so each SQL statement is one step;     *)
(* requests interleave between their statements.  A request keeps the row  *)
(* of its caller as it was when its token was verified.                    *)
(***************************************************************************)
EXTENDS Naturals, FiniteSets

CONSTANTS
  Names, AdminName,   \* user names; the one of the first administrator
  Passwords,
  Requests,           \* the concurrent requests
  SecretKept,         \* whether the signing secret is configured
  MaxId,              \* bound: users ever created
  MaxCrashes          \* bound: restarts of the server

ASSUME AccountsAssumption ==
  /\ AdminName \in Names /\ "" \notin Names /\ Passwords # {}
  /\ SecretKept \in BOOLEAN
  /\ MaxId \in Nat \ {0} /\ MaxCrashes \in Nat

VARIABLES
  user,       \* id -> row of the users table
  nextId,     \* the AUTOINCREMENT sequence
  tokens,     \* user names in the tokens the clients hold
  op,         \* request -> where it is
  deletions,  \* history: id -> deletions answered as done
  raced,      \* history: an administrator went while another deletion was decided
  crashes

table == <<user, nextId>>
vars == <<table, tokens, op, deletions, raced, crashes>>

Id    == 1..MaxId
Roles == {"admin", "viewer"}
NoRow == [name |-> "", role |-> "", password |-> ""]
Row   == [name : Names, role : Roles, password : Passwords]
Ids(name) == {i \in Id : user[i].name = name}
Admins    == {i \in Id : user[i].role = "admin"}

Idle == [pc |-> "idle"]
Caller == [id : Id, role : Roles]
OpState ==
  {Idle}
    \cup [pc : {"create"}, caller : Caller]
    \cup [pc : {"change", "verified", "reset", "delete", "count", "remove"},
          caller : Caller, id : Id, meant : Names \cup {""}]

TypeOK ==
  /\ user \in [Id -> {NoRow} \cup Row]
  /\ nextId \in 1..(MaxId + 1)
  /\ \A i \in Id : i >= nextId => user[i] = NoRow
  /\ \A n \in Names : \A i, j \in Ids(n) : i = j
  /\ tokens \subseteq Names
  /\ op \in [Requests -> OpState]
  /\ deletions \in [Id -> Nat]
  /\ raced \in BOOLEAN
  /\ crashes \in 0..MaxCrashes

Goto(r, o)   == op' = [op EXCEPT ![r] = o]
Moves(r, pc) == op' = [op EXCEPT ![r].pc = pc]
Return(r)    == Goto(r, Idle)

MutInsertedId == (CHOOSE i \in 0..MaxId : /\ i = 0 \/ user[i] # NoRow
                                          /\ \A j \in Id : user[j] # NoRow => j <= i) + 1

\* AUTOINCREMENT: an id is never given twice.
InsertedId == nextId

Insert(row) ==
  /\ InsertedId \in Id
  /\ user' = [user EXCEPT ![InsertedId] = row]
  /\ nextId' = InsertedId + 1

\* An empty table gets the first administrator.
Bootstrapped(t) ==
  IF \A i \in Id : t[i] = NoRow
  THEN \E p \in Passwords : Insert([name |-> AdminName, role |-> "admin", password |-> p])
  ELSE UNCHANGED table

Init ==
  /\ \E p \in Passwords :
       user = [i \in Id |-> IF i = 1 THEN [name |-> AdminName, role |-> "admin", password |-> p]
                            ELSE NoRow]
  /\ nextId = 2
  /\ tokens = {}
  /\ op = [r \in Requests |-> Idle]
  /\ deletions = [i \in Id |-> 0]
  /\ raced = FALSE
  /\ crashes = 0

-----------------------------------------------------------------------------
(***************************************************************************)
(* Sessions                                                                *)
(***************************************************************************)

\* A token names the user; it is not tied to the row or to the password.
Login(name, password) ==
  /\ \E i \in Ids(name) : user[i].password = password
  /\ tokens' = tokens \cup {name}
  /\ UNCHANGED <<table, op, deletions, raced, crashes>>

Expire(name) ==
  /\ name \in tokens
  /\ tokens' = tokens \ {name}
  /\ UNCHANGED <<table, op, deletions, raced, crashes>>

\* withAuth and requireAdmin: the row of the token's user is read, and managing
\* users takes an administrator.  What the request is for is known by then.
Arrive(r, name, kind, id) ==
  /\ op[r] = Idle
  /\ name \in tokens
  /\ \E i \in Ids(name) :
       LET caller == [id |-> i, role |-> user[i].role]
           about(x) == [pc |-> kind, caller |-> caller, id |-> x, meant |-> user[x].name]
       IN  /\ kind \in {"create", "delete", "reset"} => caller.role = "admin"
           /\ Goto(r, IF kind = "create" THEN [pc |-> kind, caller |-> caller]
                      ELSE about(IF kind = "change" THEN i ELSE id))
  /\ UNCHANGED <<table, tokens, deletions, raced, crashes>>

-----------------------------------------------------------------------------
(***************************************************************************)
(* The operations, one SQL statement at a time                             *)
(***************************************************************************)

\* A name that is taken is refused; the row is read back for the answer.
CreateUser(r, name, role, password) ==
  /\ op[r].pc = "create"
  /\ IF Ids(name) = {} THEN Insert([name |-> name, role |-> role, password |-> password])
                       ELSE UNCHANGED table
  /\ Return(r)
  /\ UNCHANGED <<tokens, deletions, raced, crashes>>

\* An update of no row is answered as not found.
UpdatePassword(id, password) ==
  /\ user' = IF user[id] = NoRow THEN user ELSE [user EXCEPT ![id].password = password]
  /\ UNCHANGED nextId

ResetPassword(r, password) ==
  /\ op[r].pc = "reset"
  /\ UpdatePassword(op[r].id, password)
  /\ Return(r)
  /\ UNCHANGED <<tokens, deletions, raced, crashes>>

\* ChangeOwnPassword reads the row and compares the current password ...
VerifyCurrent(r, current) ==
  /\ op[r].pc = "change"
  /\ IF user[op[r].id] # NoRow /\ user[op[r].id].password = current
     THEN Moves(r, "verified") ELSE Return(r)
  /\ UNCHANGED <<table, tokens, deletions, raced, crashes>>

\* ... and writes the next one.
ChangePassword(r, next) ==
  /\ op[r].pc = "verified"
  /\ UpdatePassword(op[r].id, next)
  /\ Return(r)
  /\ UNCHANGED <<tokens, deletions, raced, crashes>>

\* Nobody deletes himself; an administrator is not deleted uncounted.
DeleteBegin(r) ==
  /\ op[r].pc = "delete"
  /\ IF op[r].caller.id = op[r].id THEN Return(r)
     ELSE Moves(r, IF op[r].id \in Admins THEN "count" ELSE "remove")
  /\ UNCHANGED <<table, tokens, deletions, raced, crashes>>

MutCountAdmins(r) ==
  /\ op[r].pc = "count"
  /\ IF Admins = {} THEN Return(r) ELSE Moves(r, "remove")
  /\ UNCHANGED <<table, tokens, deletions, raced, crashes>>

CountAdmins(r) ==
  /\ op[r].pc = "count"
  /\ IF Cardinality(Admins) <= 1 THEN Return(r) ELSE Moves(r, "remove")
  /\ UNCHANGED <<table, tokens, deletions, raced, crashes>>

MutDone(id) == TRUE

\* RowsAffected tells the deletion that removed the row from the others.
Done(id) == user[id] # NoRow

DeleteRow(r) ==
  /\ op[r].pc = "remove"
  /\ LET id == op[r].id IN
     /\ user' = [user EXCEPT ![id] = NoRow]
     /\ deletions' = IF Done(id) THEN [deletions EXCEPT ![id] = @ + 1] ELSE deletions
     /\ raced' = (raced \/ /\ id \in Admins
                           /\ \E other \in Requests \ {r} : op[other].pc = "remove")
  /\ Return(r)
  /\ UNCHANGED <<nextId, tokens, crashes>>

-----------------------------------------------------------------------------
\* The server dies with its requests and starts again; a generated secret makes
\* every token void.
Restart ==
  /\ crashes < MaxCrashes
  /\ crashes' = crashes + 1
  /\ op' = [r \in Requests |-> Idle]
  /\ tokens' = IF SecretKept THEN tokens ELSE {}
  /\ Bootstrapped(user)
  /\ UNCHANGED <<deletions, raced>>

Kinds == {"create", "change", "reset", "delete"}

Next ==
  \/ \E n \in Names : (\E p \in Passwords : Login(n, p)) \/ Expire(n)
  \/ \E r \in Requests :
       \/ \E n \in Names, k \in Kinds, i \in Id : Arrive(r, n, k, i)
       \/ \E n \in Names, role \in Roles, p \in Passwords : CreateUser(r, n, role, p)
       \/ \E p \in Passwords : ResetPassword(r, p) \/ VerifyCurrent(r, p) \/ ChangePassword(r, p)
       \/ DeleteBegin(r) \/ CountAdmins(r) \/ DeleteRow(r)
  \/ Restart

Spec == Init /\ [][Next]_vars

-----------------------------------------------------------------------------
(***************************************************************************)
(* Properties                                                              *)
(***************************************************************************)

\* "the last remaining admin cannot be deleted", however requests of several
\* administrators interleave, except that one was removed while another deletion
\* had passed its check.
AdminRemains == raced \/ Admins # {}

\* A password is written to, and a row deleted of, the account the request was
\* for when it arrived, or of one that did not exist yet: requests carry nothing
\* but an id, and its account may be deleted and others made before they act.
ActsOnMeant ==
  [][\A i \in Id : user[i] # NoRow /\ user'[i] # user[i] =>
       \E r \in Requests : op[r].pc \in {"reset", "verified", "remove"} /\ op[r].id = i
                           /\ op[r].meant \in {user[i].name, ""} /\ op'[r] = Idle]_vars

\* A deletion that is answered as done removed the user, and no two are for the
\* same user.
DeletedOnce == \A i \in Id : deletions[i] <= 1 /\ (deletions[i] = 1 => i < nextId)

=============================================================================

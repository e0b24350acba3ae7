------------------------------- MODULE Session -------------------------------
(***************************************************************************)
(* The web app's session (lib/auth.tsx, api/client.ts and the pages that   *)
(* read them): one token in the local storage that all tabs share, and in  *)
(* each tab the user it shows.                                             *)
(*                                                                         *)
(* A request reads the token when it is sent and its answer lands later;   *)
(* in between this tab or another may sign in or out.  Each request is     *)
(* sent, served and landed in steps of its own.  A tab has at most one     *)
(* request of each kind under way, a poll or a change of the own password  *)
(* being the call.                                                         *)
(***************************************************************************)
EXTENDS Naturals, Sequences

CONSTANTS
  Tabs,       \* browser tabs
  Uses,       \* tab -> where it may be opened
  Users,      \* users of the server
  NoOne,      \* no user
  MaxTokens,  \* bound: tokens ever issued
  MaxLost     \* bound: answers lost to the network

ASSUME SessionAssumption ==
  /\ NoOne \notin Users
  /\ Uses \in [Tabs -> SUBSET {"login", "shell", "console"}]
  /\ {MaxTokens, MaxLost} \subseteq Nat

VARIABLES
  tokens,    \* whose tokens the server issued, in order
  accepted,  \* tokens it still accepts
  stored,    \* the token in the local storage, 0 for none
  route,     \* tab -> where it is
  user,      \* tab -> the user it shows
  request,   \* tab -> kind -> the request under way
  lost,      \* answers lost
  crossed    \* tabs whose token was changed behind the user they show

sessionVars == <<tokens, accepted, stored, route, user, request, lost, crossed>>

Token  == 1..MaxTokens
Routes == {"login", "shell", "console"}
Kinds  == {"boot", "login", "call"}

\* A request is sent with a token, a sign-in for a user; a request for the change
\* of a password may carry a mistyped current one.  The answer to a validation or
\* a sign-in is about a token.
Request == [at : {"idle", "sent", "mistyped", "ok", "refused", "failed"},
            token : 0..MaxTokens, by : Users \cup {NoOne}]

NoRequest == [at |-> "idle", token |-> 0, by |-> NoOne]

SessionTypeOK ==
  /\ tokens \in Seq(Users) /\ Len(tokens) <= MaxTokens
  /\ accepted \subseteq 1..Len(tokens)
  /\ stored \in 0..Len(tokens)
  /\ route \in [Tabs -> Routes]
  /\ user \in [Tabs -> Users \cup {NoOne}]
  /\ request \in [Tabs -> [Kinds -> Request]]
  /\ lost \in 0..MaxLost
  /\ crossed \subseteq Tabs

SessionInit ==
  /\ tokens = <<>> /\ accepted = {} /\ stored = 0
  /\ route \in [Tabs -> Routes] /\ \A t \in Tabs : route[t] \in Uses[t] \ {"shell"}
  /\ user = [t \in Tabs |-> NoOne]
  /\ request = [t \in Tabs |-> [k \in Kinds |-> NoRequest]]
  /\ lost = 0
  /\ crossed = {}

-----------------------------------------------------------------------------

Pending(t, k) == request[t][k].at # "idle"

\* AuthProvider's loading: the stored token is being validated.
Validating(t) == Pending(t, "boot")

\* App: without a user the shell gives way to the sign-in page, once nothing is
\* being validated.  The console page stays where it is.
Settled(r, u, validating) == IF r = "shell" /\ u = NoOne /\ ~validating THEN "login" ELSE r

\* The token is written: behind every other tab, and behind this one while it
\* validates the old one.
Writes(t, token, validating) ==
  /\ stored' = token
  /\ crossed' = (IF token = stored THEN crossed ELSE crossed \cup Tabs)
                  \ (IF validating THEN {} ELSE {t})

MutSignsOut(t, validating) ==
  /\ Writes(t, 0, validating)
  /\ route' = [route EXCEPT ![t] = Settled(@, user[t], validating)]
  /\ UNCHANGED user

\* logout: only the browser forgets the token, the server does not.
SignsOut(t, validating) ==
  /\ Writes(t, 0, validating)
  /\ user' = [user EXCEPT ![t] = NoOne]
  /\ route' = [route EXCEPT ![t] = Settled(@, NoOne, validating)]

Asks(t, k, at) ==
  request' = [request EXCEPT ![t][k] = [at |-> at, token |-> stored, by |-> NoOne]]

Answered(t, k, at, token) ==
  request' = [request EXCEPT ![t][k] = [at |-> at, token |-> token, by |-> NoOne]]

Lands(t, k) == request' = [request EXCEPT ![t][k] = NoRequest]

-----------------------------------------------------------------------------
(***************************************************************************)
(* What a tab does                                                         *)
(***************************************************************************)

\* The app is loaded or reloaded: a stored token is validated before anything.
Load(t, r) ==
  /\ r \in Uses[t]
  /\ user' = [user EXCEPT ![t] = NoOne]
  /\ request' = [request EXCEPT ![t] =
       [k \in Kinds |-> IF k = "boot" /\ stored # 0
                        THEN [at |-> "sent", token |-> stored, by |-> NoOne] ELSE NoRequest]]
  /\ route' = [route EXCEPT ![t] = Settled(r, NoOne, stored # 0)]
  /\ crossed' = crossed \ {t}
  /\ UNCHANGED <<tokens, accepted, stored, lost>>

\* The link back from the console page to the shell.
BackToShell(t) ==
  /\ route[t] = "console" /\ user[t] # NoOne
  /\ route' = [route EXCEPT ![t] = "shell"]
  /\ UNCHANGED <<tokens, accepted, stored, user, request, lost, crossed>>

\* The sign-in form, which is there whether or not somebody is signed in.
SubmitLogin(t, u) ==
  /\ route[t] = "login" /\ ~Pending(t, "login")
  /\ request' = [request EXCEPT ![t]["login"] = [at |-> "sent", token |-> 0, by |-> u]]
  /\ UNCHANGED <<tokens, accepted, stored, route, user, lost, crossed>>

\* The pages of the shell poll when it is shown, the console page always does.
PollPage(t) ==
  /\ route[t] = "console" \/ (route[t] = "shell" /\ user[t] # NoOne)
  /\ ~Pending(t, "call")
  /\ Asks(t, "call", "sent")
  /\ UNCHANGED <<tokens, accepted, stored, route, user, lost, crossed>>

\* A password change with the right current password is served like a poll.
ChangeOwnPassword(t) ==
  /\ route[t] = "shell" /\ user[t] # NoOne
  /\ ~Pending(t, "call")
  /\ Asks(t, "call", "mistyped")
  /\ UNCHANGED <<tokens, accepted, stored, route, user, lost, crossed>>

Leave(t) ==
  /\ route[t] = "shell" /\ user[t] # NoOne
  /\ SignsOut(t, Validating(t))
  /\ UNCHANGED <<tokens, accepted, request, lost>>

-----------------------------------------------------------------------------
(***************************************************************************)
(* The server                                                              *)
(***************************************************************************)

\* Everything but a sign-in is answered by the token that came with it; 401 is
\* also the answer to a mistyped current password.
ServeCall(t, k) ==
  /\ k # "login" /\ request[t][k].at \in {"sent", "mistyped"}
  /\ LET r == request[t][k] IN
       IF r.at = "sent" /\ r.token \in accepted
       THEN Answered(t, k, "ok", IF k = "boot" THEN r.token ELSE 0)
       ELSE Answered(t, k, "refused", 0)
  /\ UNCHANGED <<tokens, accepted, stored, route, user, lost, crossed>>

ServeLogin(t) ==
  /\ request[t]["login"].at = "sent"
  /\ LET u == request[t]["login"].by IN
       \/ /\ Len(tokens) < MaxTokens
          /\ tokens' = Append(tokens, u)
          /\ accepted' = accepted \cup {Len(tokens) + 1}
          /\ Answered(t, "login", "ok", Len(tokens) + 1)
       \/ /\ Answered(t, "login", "refused", 0)
          /\ UNCHANGED <<tokens, accepted>>
  /\ UNCHANGED <<stored, route, user, lost, crossed>>

\* An answer is lost; a call's would have changed nothing.
LoseAnswer(t, k) ==
  /\ k # "call" /\ request[t][k].at = "sent" /\ lost < MaxLost
  /\ lost' = lost + 1
  /\ Answered(t, k, "failed", 0)
  /\ UNCHANGED <<tokens, accepted, stored, route, user, crossed>>

\* A token expires, or its user is deleted, or the server restarts with another
\* secret.
Expire(token) ==
  /\ token \in accepted
  /\ accepted' = accepted \ {token}
  /\ UNCHANGED <<tokens, stored, route, user, request, lost, crossed>>

-----------------------------------------------------------------------------
(***************************************************************************)
(* An answer lands                                                         *)
(***************************************************************************)

\* The validation's answer: its user is shown, whoever signed in meanwhile, or
\* the token is forgotten, whichever it is by now.
LandBoot(t) ==
  /\ LET r == request[t]["boot"] IN
       \/ /\ r.at = "ok"
          /\ user' = [user EXCEPT ![t] = tokens[r.token]]
          /\ UNCHANGED <<stored, route, crossed>>
       \/ r.at = "refused" /\ SignsOut(t, FALSE)
       \/ /\ r.at = "failed"
          /\ Writes(t, 0, user[t] # NoOne)
          /\ route' = [route EXCEPT ![t] = Settled(@, user[t], FALSE)]
          /\ UNCHANGED user
  /\ Lands(t, "boot")
  /\ UNCHANGED <<tokens, accepted, lost>>

\* The answer to a sign-in: a refused one signs out like any other 401.
LandLogin(t) ==
  /\ LET r == request[t]["login"] IN
       \/ /\ r.at = "ok"
          /\ Writes(t, r.token, Validating(t))
          /\ user' = [user EXCEPT ![t] = tokens[r.token]]
          /\ route' = [route EXCEPT ![t] = "shell"]
       \/ r.at = "refused" /\ SignsOut(t, Validating(t))
       \/ r.at = "failed" /\ UNCHANGED <<stored, user, route, crossed>>
  /\ Lands(t, "login")
  /\ UNCHANGED <<tokens, accepted, lost>>

MutLandCall(t) ==
  /\ request[t]["call"].at \in {"ok", "refused"}
  /\ Lands(t, "call")
  /\ UNCHANGED <<tokens, accepted, stored, route, user, lost, crossed>>

\* Any other answer: the handler every 401 passes signs out, whatever token the
\* request had been sent with.
LandCall(t) ==
  /\ LET r == request[t]["call"] IN
       \/ r.at = "refused" /\ SignsOut(t, Validating(t))
       \/ r.at = "ok" /\ UNCHANGED <<stored, user, route, crossed>>
  /\ Lands(t, "call")
  /\ UNCHANGED <<tokens, accepted, lost>>

Answers(t) == (\E k \in Kinds : ServeCall(t, k)) \/ ServeLogin(t)
Landings(t) == LandBoot(t) \/ LandLogin(t) \/ LandCall(t)

SessionNext ==
  \/ \E t \in Tabs :
       \/ \E r \in Routes : Load(t, r)
       \/ \E u \in Users : SubmitLogin(t, u)
       \/ BackToShell(t) \/ PollPage(t) \/ ChangeOwnPassword(t) \/ Leave(t)
       \/ Answers(t) \/ Landings(t)
       \/ \E k \in Kinds : LoseAnswer(t, k)
  \/ \E token \in Token : Expire(token)

SessionSpec == SessionInit /\ [][SessionNext]_sessionVars

-----------------------------------------------------------------------------
(***************************************************************************)
(* Properties                                                              *)
(***************************************************************************)

\* The user a tab shows is the one its requests are made for: the stored token
\* is theirs, unless another tab changed it, or this tab did while it was still
\* validating the one before (auth.tsx: token and user are set together).
RightIdentity ==
  \A t \in Tabs \ crossed : user[t] # NoOne => stored # 0 /\ tokens[stored] = user[t]

\* A tab does not go on showing a user whose session is over: the next poll's
\* 401 signs out, however the session ended and whichever tab ended it.
Ghost(t) == user[t] # NoOne /\ route[t] # "login" /\ stored \notin accepted

GhostEnds == \A t \in Tabs : Ghost(t) ~> ~Ghost(t)

=============================================================================

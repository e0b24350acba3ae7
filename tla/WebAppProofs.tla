----------------------------- MODULE WebAppProofs -----------------------------
(***************************************************************************)
(* Theorems about the screens of the web app, one after the other, and     *)
(* about the app that they make up.                                        *)
(***************************************************************************)
EXTENDS WebApp, TLAPS

-----------------------------------------------------------------------------
(***************************************************************************)
(* Theorems about the web app's session, for any number of tabs, users,    *)
(* tokens and lost answers.                                                *)
(***************************************************************************)

\* An answer that carries a token carries one that was issued.
AnswersIssued(t) ==
  \A k \in {"boot", "login"} : request[t][k].at = "ok" => request[t][k].token \in 1..Len(tokens)

SignsInAs(t) == request[t]["login"].at = "sent" => request[t]["login"].by \in Users

\* What is being validated is the stored token.
ValidatesStored(t) == request[t]["boot"].at \in {"sent", "ok"} => request[t]["boot"].token = stored /\ stored # 0

ShowsOwner(t) == user[t] # NoOne => stored # 0 /\ tokens[stored] = user[t]

TabInv(t) == AnswersIssued(t) /\ SignsInAs(t) /\ (t \notin crossed => ValidatesStored(t) /\ ShowsOwner(t))

SessionIInv == SessionTypeOK /\ \A t \in Tabs : TabInv(t)

-----------------------------------------------------------------------------
(***************************************************************************)
(* Helpers                                                                 *)
(***************************************************************************)

LEMMA NoRequestTyped == NoRequest \in Request /\ NoRequest.at = "idle"
  BY SessionAssumption DEF NoRequest, Request

\* A newer token takes nothing from the older ones.
LEMMA IssuedStay ==
  ASSUME SessionTypeOK, tokens' = tokens \/ \E u \in Users : tokens' = Append(tokens, u)
  PROVE  Len(tokens) <= Len(tokens') /\ \A i \in 1..Len(tokens) : tokens'[i] = tokens[i]
  BY DEF SessionTypeOK

\* A tab that a step does not touch, and that is not marked as crossed by it.
LEMMA OthersKeepTabInv ==
  ASSUME SessionIInv, NEW s \in Tabs,
         user'[s] = user[s], request'[s] = request[s],
         tokens' = tokens \/ \E u \in Users : tokens' = Append(tokens, u),
         s \notin crossed' => s \notin crossed /\ stored' = stored
  PROVE  TabInv(s)'
  <1>1. Len(tokens) <= Len(tokens') /\ \A i \in 1..Len(tokens) : tokens'[i] = tokens[i]
    BY IssuedStay DEF SessionIInv
  <1>2. AnswersIssued(s)'
    BY <1>1 DEF SessionIInv, TabInv, AnswersIssued, SessionTypeOK
  <1>3. SignsInAs(s)'
    BY DEF SessionIInv, TabInv, SignsInAs
  <1>4. s \notin crossed' => ValidatesStored(s)' /\ ShowsOwner(s)'
    BY <1>1 DEF SessionIInv, TabInv, ValidatesStored, ShowsOwner, SessionTypeOK
  <1>5. QED
    BY <1>2, <1>3, <1>4 DEF TabInv

\* What a write of the token does to the marks: every tab is marked but, unless
\* it is validating, the one that writes.
LEMMA WritesMarks ==
  ASSUME NEW t \in Tabs, NEW token, NEW validating \in BOOLEAN, Writes(t, token, validating),
         crossed \subseteq Tabs
  PROVE  /\ stored' = token
         /\ crossed' \subseteq Tabs
         /\ \A s \in Tabs \ {t} : s \notin crossed' => s \notin crossed /\ stored' = stored
         /\ validating => (t \notin crossed' => t \notin crossed /\ stored' = stored)
  BY DEF Writes

LEMMA RequestTyped ==
  ASSUME SessionTypeOK, NEW t \in Tabs, NEW k \in Kinds
  PROVE  request[t][k] \in Request
  BY DEF SessionTypeOK

\* One request of a tab is replaced.
LEMMA RequestReplaced ==
  ASSUME SessionTypeOK, NEW t \in Tabs, NEW k \in Kinds, NEW r \in Request,
         request' = [request EXCEPT ![t][k] = r]
  PROVE  /\ request' \in [Tabs -> [Kinds -> Request]]
         /\ request'[t][k] = r
         /\ \A j \in Kinds \ {k} : request'[t][j] = request[t][j]
         /\ \A s \in Tabs \ {t} : request'[s] = request[s]
  BY DEF SessionTypeOK

LEMMA SettledIsRoute ==
  ASSUME NEW r \in Routes, NEW u, NEW validating
  PROVE  Settled(r, u, validating) \in Routes
  BY DEF Settled, Routes

\* Signing out marks the others, and shows nobody.
LEMMA SignsOutKeeps ==
  ASSUME SessionIInv, NEW t \in Tabs, NEW validating \in BOOLEAN, SignsOut(t, validating)
  PROVE  /\ stored' = 0 /\ user'[t] = NoOne
         /\ user' \in [Tabs -> Users \cup {NoOne}] /\ route' \in [Tabs -> Routes] /\ crossed' \subseteq Tabs
         /\ \A s \in Tabs \ {t} : user'[s] = user[s] /\ (s \notin crossed' => s \notin crossed /\ stored' = stored)
         /\ validating => (t \notin crossed' => t \notin crossed /\ stored' = stored)
  <1>1. Writes(t, 0, validating) /\ crossed \subseteq Tabs
    BY DEF SignsOut, SessionIInv, SessionTypeOK
  <1>2. user' = [user EXCEPT ![t] = NoOne] /\ route' = [route EXCEPT ![t] = Settled(@, NoOne, validating)]
    BY DEF SignsOut
  <1>3. user \in [Tabs -> Users \cup {NoOne}] /\ route \in [Tabs -> Routes]
    BY DEF SessionIInv, SessionTypeOK
  <1>4. route' \in [Tabs -> Routes]
    BY <1>2, <1>3, SettledIsRoute
  <1>5. QED
    BY <1>1, <1>2, <1>3, <1>4, WritesMarks

LEMMA InitSessionIInv == SessionInit => SessionIInv
  <1> SUFFICES ASSUME SessionInit
               PROVE  SessionIInv
    OBVIOUS
  <1>1. SessionTypeOK
    BY NoRequestTyped, SessionAssumption DEF SessionInit, SessionTypeOK
  <1>2. \A t \in Tabs : TabInv(t)
    BY NoRequestTyped DEF SessionInit, TabInv, AnswersIssued, SignsInAs, ValidatesStored, ShowsOwner, Kinds
  <1>3. QED
    BY <1>1, <1>2 DEF SessionIInv

-----------------------------------------------------------------------------
(***************************************************************************)
(* One lemma per action                                                    *)
(***************************************************************************)

\* A step that only replaces one request of one tab by one that carries no token
\* it should not.
LEMMA RequestKeepsSessionIInv ==
  ASSUME SessionIInv, NEW t \in Tabs, NEW k \in Kinds, NEW r \in Request,
         request' = [request EXCEPT ![t][k] = r],
         UNCHANGED <<tokens, stored, route, user, crossed, lost>> \/
           (UNCHANGED <<tokens, stored, route, user, crossed>> /\ lost' \in 0..MaxLost),
         accepted' = accepted,
         k \in {"boot", "login"} /\ r.at = "ok" => r.token \in 1..Len(tokens),
         k = "login" /\ r.at = "sent" => r.by \in Users,
         k = "boot" /\ r.at \in {"sent", "ok"} =>
           request[t]["boot"].at \in {"sent", "ok"} /\ r.token = request[t]["boot"].token
  PROVE  SessionIInv'
  <1>1. /\ request' \in [Tabs -> [Kinds -> Request]]
        /\ request'[t][k] = r
        /\ \A j \in Kinds \ {k} : request'[t][j] = request[t][j]
        /\ \A s \in Tabs \ {t} : request'[s] = request[s]
    BY RequestReplaced DEF SessionIInv
  <1>2. SessionTypeOK'
    BY <1>1 DEF SessionIInv, SessionTypeOK
  <1>3. \A s \in Tabs \ {t} : TabInv(s)'
    BY <1>1, OthersKeepTabInv
  <1>4. TabInv(t)'
    <2>1. AnswersIssued(t)'
      BY <1>1 DEF SessionIInv, TabInv, AnswersIssued, Kinds
    <2>2. t \notin crossed => ValidatesStored(t)'
      BY <1>1 DEF SessionIInv, TabInv, ValidatesStored, Kinds
    <2>3. t \notin crossed => ShowsOwner(t)'
      BY DEF SessionIInv, TabInv, ShowsOwner
    <2>4. SignsInAs(t)'
      BY <1>1 DEF SessionIInv, TabInv, SignsInAs, Kinds
    <2>5. QED
      BY <2>1, <2>2, <2>3, <2>4 DEF TabInv
  <1>5. QED
    BY <1>2, <1>3, <1>4 DEF SessionIInv

LEMMA LoadKeepsSessionIInv ==
  ASSUME SessionIInv, NEW t \in Tabs, NEW r \in Routes, Load(t, r)
  PROVE  SessionIInv'
  <1> DEFINE Boot == [at |-> "sent", token |-> stored, by |-> NoOne]
  <1>1. Boot \in Request /\ NoRequest \in Request
    <2>1. stored \in 0..MaxTokens
      BY SessionAssumption DEF SessionIInv, SessionTypeOK
    <2>2. QED
      BY <2>1, NoRequestTyped DEF Request
  <1>2. request' = [request EXCEPT ![t] = [k \in Kinds |-> IF k = "boot" /\ stored # 0 THEN Boot ELSE NoRequest]]
    BY DEF Load
  <1>3. request' \in [Tabs -> [Kinds -> Request]]
    BY <1>1, <1>2 DEF SessionIInv, SessionTypeOK
  <1>4. route' \in [Tabs -> Routes]
    BY SettledIsRoute DEF Load, SessionIInv, SessionTypeOK
  <1>5. SessionTypeOK'
    BY <1>3, <1>4 DEF Load, SessionIInv, SessionTypeOK
  <1>6. \A s \in Tabs \ {t} : user'[s] = user[s] /\ request'[s] = request[s]
    BY DEF Load, SessionIInv, SessionTypeOK
  <1>7. \A s \in Tabs \ {t} : TabInv(s)'
    BY <1>6, OthersKeepTabInv DEF Load
  <1>8. /\ request'[t]["login"] = NoRequest /\ user'[t] = NoOne
        /\ request'[t]["boot"] = IF stored # 0 THEN Boot ELSE NoRequest
    BY <1>2 DEF Load, SessionIInv, SessionTypeOK, Kinds
  <1>9. TabInv(t)'
    BY <1>8, NoRequestTyped DEF Load, TabInv, AnswersIssued, SignsInAs, ValidatesStored, ShowsOwner
  <1>10. QED
    BY <1>5, <1>7, <1>9 DEF SessionIInv

\* The sign-in is answered with the token it was issued.
LEMMA ServeLoginKeepsSessionIInv ==
  ASSUME SessionIInv, NEW t \in Tabs, ServeLogin(t)
  PROVE  SessionIInv'
  <1> DEFINE u == request[t]["login"].by
  <1>1. CASE Answered(t, "login", "refused", 0) /\ UNCHANGED <<tokens, accepted>>
    <2>1. [at |-> "refused", token |-> 0, by |-> NoOne] \in Request
      BY SessionAssumption DEF Request
    <2>2. QED
      BY <1>1, <2>1, RequestKeepsSessionIInv DEF ServeLogin, Answered, Kinds
  <1>2. CASE /\ Len(tokens) < MaxTokens
             /\ tokens' = Append(tokens, u)
             /\ accepted' = accepted \cup {Len(tokens) + 1}
             /\ Answered(t, "login", "ok", Len(tokens) + 1)
    <2> DEFINE r == [at |-> "ok", token |-> Len(tokens) + 1, by |-> NoOne]
    <2>1. r \in Request
      BY <1>2, SessionAssumption DEF Request, SessionIInv, SessionTypeOK
    <2>2. CASE u \in Users
      <3>1. /\ request' \in [Tabs -> [Kinds -> Request]]
            /\ request'[t]["login"] = r
            /\ request'[t]["boot"] = request[t]["boot"]
            /\ \A s \in Tabs \ {t} : request'[s] = request[s]
        BY <1>2, <2>1, RequestReplaced DEF Answered, SessionIInv, Kinds
      <3>2. Len(tokens') = Len(tokens) + 1 /\ tokens' \in Seq(Users)
            /\ \A i \in 1..Len(tokens) : tokens'[i] = tokens[i]
        BY <1>2, <2>2 DEF SessionIInv, SessionTypeOK
      <3>3. SessionTypeOK'
        <4>1. Len(tokens') <= MaxTokens /\ accepted' \subseteq 1..Len(tokens') /\ stored \in 0..Len(tokens')
          <5>1. /\ Len(tokens) \in Nat /\ MaxTokens \in Nat
                /\ accepted \subseteq 1..Len(tokens) /\ stored \in 0..Len(tokens)
            BY SessionAssumption DEF SessionIInv, SessionTypeOK
          <5>2. Len(tokens') = Len(tokens) + 1 /\ Len(tokens) < MaxTokens
                /\ accepted' = accepted \cup {Len(tokens) + 1}
            BY <1>2, <3>2
          <5>3. Len(tokens') <= MaxTokens /\ stored \in 0..Len(tokens')
            BY <5>1, <5>2
          <5>4. \A a \in accepted' : a \in 1..Len(tokens')
            BY <5>1, <5>2
          <5>5. QED
            BY <5>3, <5>4
        <4>2. UNCHANGED <<stored, route, user, lost, crossed>>
          BY DEF ServeLogin
        <4>3. QED
          BY <3>1, <3>2, <4>1, <4>2 DEF SessionIInv, SessionTypeOK
      <3>4. \A s \in Tabs \ {t} : TabInv(s)'
        BY <1>2, <2>2, <3>1, OthersKeepTabInv DEF ServeLogin
      <3>5. AnswersIssued(t)'
        BY <3>1, <3>2 DEF SessionIInv, TabInv, AnswersIssued, SessionTypeOK
      <3>6. t \notin crossed => ValidatesStored(t)' /\ ShowsOwner(t)'
        BY <3>1, <3>2 DEF ServeLogin, SessionIInv, TabInv, ValidatesStored, ShowsOwner, SessionTypeOK
      <3>7. QED
        <4>1. SignsInAs(t)' /\ crossed' = crossed
          BY <3>1 DEF ServeLogin, SignsInAs
        <4>2. TabInv(t)'
          BY <3>5, <3>6, <4>1 DEF TabInv
        <4>3. QED
          BY <3>3, <3>4, <4>2 DEF SessionIInv
    <2>3. u \in Users
      BY DEF ServeLogin, SessionIInv, TabInv, SignsInAs
    <2>4. QED
      BY <2>2, <2>3
  <1>3. QED
    BY <1>1, <1>2 DEF ServeLogin

\* What a sign-out leaves: nobody is shown, and nothing is being validated, or
\* what is was marked.
LEMMA SignedOutKeepsSessionIInv ==
  ASSUME SessionIInv, NEW t \in Tabs, NEW validating \in BOOLEAN, SignsOut(t, validating),
         UNCHANGED <<tokens, accepted, lost>>,
         request' \in [Tabs -> [Kinds -> Request]],
         \A s \in Tabs \ {t} : request'[s] = request[s],
         \A k \in Kinds : request'[t][k] \in {request[t][k], NoRequest},
         ~validating => request'[t]["boot"].at = "idle"
  PROVE  SessionIInv'
  <1>1. /\ stored' = 0 /\ user'[t] = NoOne
        /\ user' \in [Tabs -> Users \cup {NoOne}] /\ route' \in [Tabs -> Routes] /\ crossed' \subseteq Tabs
        /\ \A s \in Tabs \ {t} : user'[s] = user[s] /\ (s \notin crossed' => s \notin crossed /\ stored' = stored)
        /\ validating => (t \notin crossed' => t \notin crossed /\ stored' = stored)
    BY SignsOutKeeps
  <1>2. SessionTypeOK'
    BY <1>1 DEF SessionIInv, SessionTypeOK
  <1>3. \A s \in Tabs \ {t} : TabInv(s)'
    BY <1>1, OthersKeepTabInv
  <1>4. AnswersIssued(t)' /\ SignsInAs(t)'
    BY NoRequestTyped DEF SessionIInv, TabInv, AnswersIssued, SignsInAs, Kinds
  <1>5. t \notin crossed' => ValidatesStored(t)'
    BY <1>1, NoRequestTyped DEF SessionIInv, TabInv, ValidatesStored, Kinds
  <1>6. ShowsOwner(t)'
    BY <1>1 DEF ShowsOwner
  <1>7. QED
    BY <1>2, <1>3, <1>4, <1>5, <1>6 DEF SessionIInv, TabInv

\* An answer landed: its request is gone.
LEMMA LandedRequest ==
  ASSUME SessionIInv, NEW t \in Tabs, NEW k \in Kinds, Lands(t, k)
  PROVE  /\ request' \in [Tabs -> [Kinds -> Request]]
         /\ request'[t][k] = NoRequest
         /\ \A j \in Kinds \ {k} : request'[t][j] = request[t][j]
         /\ \A s \in Tabs \ {t} : request'[s] = request[s]
  BY RequestReplaced, NoRequestTyped DEF Lands, SessionIInv

LEMMA LeaveKeepsSessionIInv ==
  ASSUME SessionIInv, NEW t \in Tabs, Leave(t)
  PROVE  SessionIInv'
  <1>1. Validating(t) \in BOOLEAN /\ (~Validating(t) => request[t]["boot"].at = "idle")
    BY DEF Validating, Pending
  <1>2. SignsOut(t, Validating(t)) /\ UNCHANGED <<tokens, accepted, request, lost>>
    BY DEF Leave
  <1>3. request' \in [Tabs -> [Kinds -> Request]] /\ ~Validating(t) => request'[t]["boot"].at = "idle"
    BY <1>1, <1>2 DEF SessionIInv, SessionTypeOK
  <1>4. QED
    BY <1>1, <1>2, <1>3, SignedOutKeepsSessionIInv DEF SessionIInv, SessionTypeOK

\* An answer that signs out.
LEMMA RefusalKeepsSessionIInv ==
  ASSUME SessionIInv, NEW t \in Tabs, NEW k \in {"login", "call"}, SignsOut(t, Validating(t)), Lands(t, k),
         UNCHANGED <<tokens, accepted, lost>>
  PROVE  SessionIInv'
  <1>1. k \in Kinds /\ "boot" \in Kinds \ {k}
    BY DEF Kinds
  <1>2. Validating(t) \in BOOLEAN /\ (~Validating(t) => request'[t]["boot"].at = "idle")
    BY <1>1, LandedRequest DEF Validating, Pending
  <1>3. \A j \in Kinds : request'[t][j] \in {request[t][j], NoRequest}
    BY <1>1, LandedRequest
  <1>4. QED
    BY <1>1, <1>2, <1>3, LandedRequest, SignedOutKeepsSessionIInv

LEMMA LandCallKeepsSessionIInv ==
  ASSUME SessionIInv, NEW t \in Tabs, LandCall(t)
  PROVE  SessionIInv'
  <1>1. CASE SignsOut(t, Validating(t))
    BY <1>1, RefusalKeepsSessionIInv DEF LandCall
  <1>2. CASE UNCHANGED <<stored, user, route, crossed>>
    BY <1>2, NoRequestTyped, RequestKeepsSessionIInv DEF LandCall, Lands, Kinds
  <1>3. QED
    BY <1>1, <1>2 DEF LandCall

\* After a sign-in the tab shows the owner of the token that it stored, unless it
\* is still validating the one before, and then it is marked.
LEMMA LandLoginKeepsSessionIInv ==
  ASSUME SessionIInv, NEW t \in Tabs, LandLogin(t)
  PROVE  SessionIInv'
  <1> DEFINE r == request[t]["login"]
  <1>1. CASE r.at = "refused" /\ SignsOut(t, Validating(t))
    BY <1>1, RefusalKeepsSessionIInv DEF LandLogin
  <1>2. CASE r.at = "failed" /\ UNCHANGED <<stored, user, route, crossed>>
    BY <1>2, NoRequestTyped, RequestKeepsSessionIInv DEF LandLogin, Lands, Kinds
  <1>3. CASE /\ r.at = "ok"
             /\ Writes(t, r.token, Validating(t))
             /\ user' = [user EXCEPT ![t] = tokens[r.token]]
             /\ route' = [route EXCEPT ![t] = "shell"]
    <2>1. r.token \in 1..Len(tokens) /\ tokens[r.token] \in Users
      BY <1>3 DEF SessionIInv, TabInv, AnswersIssued, SessionTypeOK
    <2>2. Validating(t) \in BOOLEAN /\ crossed \subseteq Tabs
      BY DEF Validating, Pending, SessionIInv, SessionTypeOK
    <2>3. /\ stored' = r.token
          /\ crossed' \subseteq Tabs
          /\ \A s \in Tabs \ {t} : s \notin crossed' => s \notin crossed /\ stored' = stored
          /\ Validating(t) => (t \notin crossed' => t \notin crossed /\ stored' = stored)
      BY <1>3, <2>2, WritesMarks
    <2>4. /\ request' \in [Tabs -> [Kinds -> Request]]
          /\ request'[t]["login"] = NoRequest
          /\ request'[t]["boot"] = request[t]["boot"]
          /\ \A s \in Tabs \ {t} : request'[s] = request[s]
      BY LandedRequest DEF LandLogin, Kinds
    <2>5. user' \in [Tabs -> Users \cup {NoOne}] /\ user'[t] = tokens[r.token]
          /\ \A s \in Tabs \ {t} : user'[s] = user[s]
      BY <1>3, <2>1 DEF SessionIInv, SessionTypeOK
    <2>6. SessionTypeOK'
      BY <1>3, <2>1, <2>3, <2>4, <2>5 DEF LandLogin, SessionIInv, SessionTypeOK, Routes
    <2>7. \A s \in Tabs \ {t} : TabInv(s)'
      BY <2>3, <2>4, <2>5, OthersKeepTabInv DEF LandLogin
    <2>8. AnswersIssued(t)' /\ SignsInAs(t)'
      BY <2>4, NoRequestTyped DEF LandLogin, SessionIInv, TabInv, AnswersIssued, SignsInAs
    <2>9. t \notin crossed' => ValidatesStored(t)'
      BY <2>3, <2>4, NoRequestTyped DEF SessionIInv, TabInv, ValidatesStored, Validating, Pending
    <2>10. ShowsOwner(t)'
      BY <2>1, <2>3, <2>5 DEF LandLogin, ShowsOwner
    <2>11. QED
      BY <2>6, <2>7, <2>8, <2>9, <2>10 DEF SessionIInv, TabInv
  <1>4. QED
    BY <1>1, <1>2, <1>3 DEF LandLogin

\* The validation's answer is about the stored token, unless the tab is marked.
LEMMA LandBootKeepsSessionIInv ==
  ASSUME SessionIInv, NEW t \in Tabs, LandBoot(t)
  PROVE  SessionIInv'
  <1> DEFINE r == request[t]["boot"]
  <1>1. /\ request' \in [Tabs -> [Kinds -> Request]]
        /\ request'[t]["boot"] = NoRequest
        /\ request'[t]["login"] = request[t]["login"]
        /\ \A k \in Kinds : request'[t][k] \in {request[t][k], NoRequest}
        /\ \A s \in Tabs \ {t} : request'[s] = request[s]
    BY LandedRequest DEF LandBoot, Kinds
  <1>2. AnswersIssued(t)' /\ SignsInAs(t)' /\ ValidatesStored(t)'
    BY <1>1, NoRequestTyped DEF LandBoot, SessionIInv, TabInv, AnswersIssued, SignsInAs, ValidatesStored
  <1>3. CASE r.at = "refused" /\ SignsOut(t, FALSE)
    BY <1>1, <1>3, NoRequestTyped, SignedOutKeepsSessionIInv DEF LandBoot
  <1>4. CASE /\ r.at = "ok"
             /\ user' = [user EXCEPT ![t] = tokens[r.token]]
             /\ UNCHANGED <<stored, route, crossed>>
    <2>1. tokens[r.token] \in Users
      BY <1>4 DEF SessionIInv, TabInv, AnswersIssued, SessionTypeOK
    <2>2. user' \in [Tabs -> Users \cup {NoOne}] /\ user'[t] = tokens[r.token]
          /\ \A s \in Tabs \ {t} : user'[s] = user[s]
      BY <1>4, <2>1 DEF SessionIInv, SessionTypeOK
    <2>3. SessionTypeOK'
      BY <1>1, <1>4, <2>2 DEF LandBoot, SessionIInv, SessionTypeOK
    <2>4. \A s \in Tabs \ {t} : TabInv(s)'
      BY <1>1, <1>4, <2>2, OthersKeepTabInv DEF LandBoot
    <2>5. t \notin crossed' => ShowsOwner(t)'
      BY <1>4, <2>2 DEF LandBoot, SessionIInv, TabInv, ValidatesStored, ShowsOwner
    <2>6. QED
      BY <1>2, <2>3, <2>4, <2>5 DEF SessionIInv, TabInv
  <1>5. CASE /\ r.at = "failed"
             /\ Writes(t, 0, user[t] # NoOne)
             /\ route' = [route EXCEPT ![t] = Settled(@, user[t], FALSE)]
             /\ UNCHANGED user
    <2>1. /\ stored' = 0
          /\ crossed' \subseteq Tabs
          /\ \A s \in Tabs \ {t} : s \notin crossed' => s \notin crossed /\ stored' = stored
          /\ user[t] # NoOne => (t \notin crossed' => t \notin crossed /\ stored' = stored)
      BY <1>5, WritesMarks DEF SessionIInv, SessionTypeOK
    <2>2. route' \in [Tabs -> Routes]
      BY <1>5, SettledIsRoute DEF SessionIInv, SessionTypeOK
    <2>3. SessionTypeOK'
      <3>1. UNCHANGED <<tokens, accepted, lost, user>> /\ 0 \in 0..Len(tokens)
        BY <1>5 DEF LandBoot, SessionIInv, SessionTypeOK
      <3>2. QED
        BY <1>1, <2>1, <2>2, <3>1 DEF SessionIInv, SessionTypeOK
    <2>4. \A s \in Tabs \ {t} : TabInv(s)'
      BY <1>1, <1>5, <2>1, OthersKeepTabInv DEF LandBoot
    <2>5. t \notin crossed' => ShowsOwner(t)'
      BY <1>5, <2>1 DEF LandBoot, SessionIInv, TabInv, ShowsOwner
    <2>6. QED
      BY <1>2, <2>3, <2>4, <2>5 DEF SessionIInv, TabInv
  <1>6. QED
    BY <1>3, <1>4, <1>5 DEF LandBoot

\* The steps that only send, serve or lose a request.
LEMMA RequestStepsKeepSessionIInv ==
  ASSUME SessionIInv, NEW t \in Tabs,
         \/ \E u \in Users : SubmitLogin(t, u)
         \/ PollPage(t) \/ ChangeOwnPassword(t)
         \/ \E k \in Kinds : ServeCall(t, k) \/ LoseAnswer(t, k)
  PROVE  SessionIInv'
  <1>1. stored \in 0..MaxTokens /\ MaxTokens \in Nat
    BY SessionAssumption DEF SessionIInv, SessionTypeOK
  <1>2. ASSUME NEW u \in Users, SubmitLogin(t, u)
        PROVE  SessionIInv'
    <2> DEFINE r == [at |-> "sent", token |-> 0, by |-> u]
    <2>1. r \in Request
      BY <1>1 DEF Request
    <2>2. QED
      BY <1>2, <2>1, RequestKeepsSessionIInv DEF SubmitLogin, Kinds
  <1>3. ASSUME NEW at \in {"sent", "mistyped"}, Asks(t, "call", at),
               UNCHANGED <<tokens, accepted, stored, route, user, lost, crossed>>
        PROVE  SessionIInv'
    <2> DEFINE r == [at |-> at, token |-> stored, by |-> NoOne]
    <2>1. r \in Request
      BY <1>1 DEF Request
    <2>2. QED
      BY <1>3, <2>1, RequestKeepsSessionIInv DEF Asks, Kinds
  <1>4. ASSUME NEW k \in Kinds, ServeCall(t, k)
        PROVE  SessionIInv'
    <2>1. request[t][k].token \in 0..MaxTokens
      BY RequestTyped DEF SessionIInv, Request
    <2>2. CASE Answered(t, k, "refused", 0)
      <3> DEFINE r == [at |-> "refused", token |-> 0, by |-> NoOne]
      <3>1. r \in Request
        BY <1>1 DEF Request
      <3>2. QED
        BY <1>4, <2>2, <3>1, RequestKeepsSessionIInv DEF ServeCall, Answered, Kinds
    <2>3. CASE /\ request[t][k].at = "sent" /\ request[t][k].token \in accepted
               /\ Answered(t, k, "ok", IF k = "boot" THEN request[t][k].token ELSE 0)
      <3> DEFINE r == [at |-> "ok", token |-> IF k = "boot" THEN request[t][k].token ELSE 0, by |-> NoOne]
      <3>1. r \in Request
        BY <1>1, <2>1 DEF Request
      <3>2. k = "boot" => r.token \in 1..Len(tokens)
        BY <2>3 DEF SessionIInv, SessionTypeOK
      <3>3. QED
        BY <1>4, <2>3, <3>1, <3>2, RequestKeepsSessionIInv DEF ServeCall, Answered, Kinds
    <2>4. QED
      BY <1>4, <2>2, <2>3 DEF ServeCall
  <1>5. ASSUME NEW k \in Kinds, LoseAnswer(t, k)
        PROVE  SessionIInv'
    <2> DEFINE r == [at |-> "failed", token |-> 0, by |-> NoOne]
    <2>1. r \in Request /\ lost' \in 0..MaxLost
      BY <1>1, <1>5, SessionAssumption DEF Request, LoseAnswer, SessionIInv, SessionTypeOK
    <2>2. QED
      BY <1>5, <2>1, RequestKeepsSessionIInv DEF LoseAnswer, Answered
  <1>6. QED
    BY <1>2, <1>3, <1>4, <1>5 DEF PollPage, ChangeOwnPassword

LEMMA NextKeepsSessionIInv == SessionIInv /\ [SessionNext]_sessionVars => SessionIInv'
  <1> SUFFICES ASSUME SessionIInv, [SessionNext]_sessionVars
               PROVE  SessionIInv'
    OBVIOUS
  <1>1. ASSUME NEW t \in Tabs, NEW r \in Routes, Load(t, r)
        PROVE  SessionIInv'
    BY <1>1, LoadKeepsSessionIInv
  <1>2. ASSUME NEW t \in Tabs, BackToShell(t)
        PROVE  SessionIInv'
    <2>1. SessionTypeOK'
      BY <1>2 DEF BackToShell, SessionIInv, SessionTypeOK, Routes
    <2>2. \A s \in Tabs : TabInv(s)'
      BY <1>2, OthersKeepTabInv DEF BackToShell
    <2>3. QED
      BY <2>1, <2>2 DEF SessionIInv
  <1>3. ASSUME NEW t \in Tabs,
               \/ \E u \in Users : SubmitLogin(t, u)
               \/ PollPage(t) \/ ChangeOwnPassword(t)
               \/ \E k \in Kinds : ServeCall(t, k) \/ LoseAnswer(t, k)
        PROVE  SessionIInv'
    BY <1>3, RequestStepsKeepSessionIInv
  <1>4. ASSUME NEW t \in Tabs, Leave(t)
        PROVE  SessionIInv'
    BY <1>4, LeaveKeepsSessionIInv
  <1>5. ASSUME NEW t \in Tabs, ServeLogin(t)
        PROVE  SessionIInv'
    BY <1>5, ServeLoginKeepsSessionIInv
  <1>6. ASSUME NEW t \in Tabs, Landings(t)
        PROVE  SessionIInv'
    BY <1>6, LandBootKeepsSessionIInv, LandLoginKeepsSessionIInv, LandCallKeepsSessionIInv DEF Landings
  <1>7. ASSUME NEW token \in Token, Expire(token)
        PROVE  SessionIInv'
    <2>1. SessionTypeOK'
      BY <1>7 DEF Expire, SessionIInv, SessionTypeOK
    <2>2. \A s \in Tabs : TabInv(s)'
      BY <1>7, OthersKeepTabInv DEF Expire
    <2>3. QED
      BY <2>1, <2>2 DEF SessionIInv
  <1>8. CASE UNCHANGED sessionVars
    <2>1. SessionTypeOK'
      BY <1>8 DEF sessionVars, SessionIInv, SessionTypeOK
    <2>2. \A s \in Tabs : TabInv(s)'
      BY <1>8, OthersKeepTabInv DEF sessionVars
    <2>3. QED
      BY <2>1, <2>2 DEF SessionIInv
  <1>9. QED
    BY <1>1, <1>2, <1>3, <1>4, <1>5, <1>6, <1>7, <1>8 DEF SessionNext, Answers

-----------------------------------------------------------------------------
(***************************************************************************)
(* The theorems                                                            *)
(***************************************************************************)

\* The strengthened invariant holds in every state of the session.
THEOREM SessionInductive == SessionSpec => []SessionIInv
  BY InitSessionIInv, NextKeepsSessionIInv, PTL DEF SessionSpec

\* The user that a tab shows is the one its requests are made for, however late
\* validations, sign-ins and refusals land, unless another tab changed the token,
\* or this one did while it was validating the one before (lib/auth.tsx).
THEOREM RightUser == SessionSpec => []RightIdentity
  <1>1. SessionIInv => RightIdentity
    BY DEF SessionIInv, TabInv, ShowsOwner, RightIdentity
  <1>2. QED
    BY <1>1, SessionInductive, PTL

-----------------------------------------------------------------------------
(***************************************************************************)
(* Theorems about the list pages, for any number of rows, of calls under   *)
(* way, of changes at the server and of faults.                            *)
(***************************************************************************)

\* The verbs that a page has.
PageVerbs(p) ==
  CASE p = "machines"  -> {"start", "shutdown", "reboot", "stop", "delete", "delete-disks"}
    [] p = "networks"  -> {"start", "stop", "delete"}
    [] p = "pools"     -> {"refresh", "delete"}
    [] p = "tasks"     -> {"cancel"}
    [] p = "isos"      -> {"upload", "delete"}
    [] p = "points"    -> {"restore", "delete", "backup"}
    [] p = "schedules" -> {"toggle", "delete"}
    [] p = "users"     -> {"delete"}

\* A menu's choice is one that the server accepts in the state it was shown for,
\* but for a machine that is stopping.
Offered(v, s) == v \in PageVerbs(page) \ {"upload"} /\ s \in States(page) /\ (Accepts(v, s) \/ s = "stopping")

Call == CallRecord \cup {NoCall}

ListTypeInv ==
  /\ page \in Pages
  /\ history \in Seq([Rows -> States(page)]) /\ Len(history) >= 1
  /\ shown \in 1..Len(history)
  /\ busy \in Rows \cup {NoRow}
  /\ dialog # NoDialog => dialog.row \in Rows /\ Offered(dialog.verb, dialog.seen)
  /\ calls \in [CallSlots -> Call]
  /\ faults \in Nat

\* A call carries a verb of its page; one not yet served was chosen from a menu,
\* and one that was carried out has an effect in the history.
CallInv(c) ==
  c # NoCall =>
    /\ c.verb \in PageVerbs(page)
    /\ c.stage = "sent" /\ c.verb # "upload" => Offered(c.verb, c.seen)
    /\ c.stage = "done" => c.effect >= 1

CallsInv == \A i \in CallSlots : CallInv(calls[i])

\* Until two rows have calls, busy names the row that has one.
SlotInv ==
  /\ ~overlapped => /\ \A i \in CallSlots : RowCall(i) => calls[i].row = busy
                    /\ \A i, j \in CallSlots : RowCall(i) /\ RowCall(j) => i = j
  /\ BlocksAll => ~overlapped

ListIInv == ListTypeInv /\ CallsInv /\ SlotInv

-----------------------------------------------------------------------------
(***************************************************************************)
(* What the pages offer, and what the server makes of it                   *)
(***************************************************************************)

\* What a row's menu offers, the server accepts in that state.
LEMMA OffersAreOffered ==
  ASSUME page \in Pages, NEW s \in States(page), NEW v \in Offers(s)
  PROVE  Offered(v, s)
  <1>1. s # "absent"
    BY DEF Offers
  <1>2. CASE page = "machines"
    BY <1>1, <1>2 DEF Offered, Offers, States, PageVerbs, Accepts, MachineOffers, MachineAccepts
  <1>3. CASE page = "networks"
    BY <1>1, <1>3 DEF Offered, Offers, States, PageVerbs, Accepts, NetworkOffers, NetworkAccepts
  <1>4. CASE page = "pools"
    BY <1>1, <1>4 DEF Offered, Offers, States, PageVerbs, Accepts, PoolOffers, PoolAccepts
  <1>5. CASE page = "isos"
    BY <1>1, <1>5 DEF Offered, Offers, States, PageVerbs, Accepts, IsoOffers
  <1>6. CASE page = "tasks"
    BY <1>1, <1>6 DEF Offered, Offers, States, PageVerbs, Accepts, TaskOffers
  <1>7. CASE page = "points"
    BY <1>1, <1>7 DEF Offered, Offers, States, PageVerbs, Accepts, PointOffers
  <1>8. CASE page = "schedules"
    BY <1>1, <1>8 DEF Offered, Offers, States, PageVerbs, Accepts, ScheduleOffers
  <1>9. CASE page = "users"
    BY <1>1, <1>9 DEF Offered, Offers, States, PageVerbs, Accepts, UserOffers
  <1>10. QED
    BY <1>2, <1>3, <1>4, <1>5, <1>6, <1>7, <1>8, <1>9 DEF Pages

\* What a verb makes of a row is a state that the page has.
LEMMA AfterIsState ==
  ASSUME page \in Pages, NEW s \in States(page), NEW v \in PageVerbs(page), NEW n \in After(v, s)
  PROVE  n \in States(page)
  <1>1. CASE page = "machines"
    BY <1>1 DEF States, PageVerbs, After
  <1>2. CASE page \in {"networks", "pools"}
    BY <1>2 DEF States, PageVerbs, After
  <1>3. CASE page = "tasks"
    BY <1>3 DEF States, PageVerbs, After
  <1>4. CASE page = "schedules"
    BY <1>4 DEF States, PageVerbs, After
  <1>5. CASE page \in {"isos", "points", "users"}
    BY <1>5 DEF States, PageVerbs, After
  <1>6. QED
    BY <1>1, <1>2, <1>3, <1>4, <1>5 DEF Pages

LEMMA VerbsTyped ==
  ASSUME NEW p \in Pages
  PROVE  PageVerbs(p) \subseteq Verbs
  BY DEF PageVerbs, Pages, Verbs

LEMMA StatesTyped ==
  ASSUME NEW p \in Pages
  PROVE  States(p) \subseteq AllStates
  BY DEF AllStates

LEMMA ShownIsState ==
  ASSUME ListTypeInv, NEW r \in Rows
  PROVE  history[shown][r] \in States(page) /\ Now[r] \in States(page)
  BY DEF ListTypeInv, Now

LEMMA AppendTyped ==
  ASSUME NEW S, NEW q \in Seq(S), NEW e \in S
  PROVE  Append(q, e) \in Seq(S) /\ Len(Append(q, e)) >= Len(q)
  OBVIOUS

\* A change keeps the history a sequence of states.
LEMMA ChangesKeepsHistory ==
  ASSUME ListTypeInv, NEW r \in Rows, NEW s \in States(page), Changes(r, s) \/ UNCHANGED history
  PROVE  /\ history' \in Seq([Rows -> States(page)])
         /\ Len(history') >= Len(history)
  <1>1. Now \in [Rows -> States(page)]
    BY DEF ListTypeInv, Now
  <1>2. [Now EXCEPT ![r] = s] \in [Rows -> States(page)]
    BY <1>1
  <1>3. history \in Seq([Rows -> States(page)]) /\ Len(history) \in Nat
    BY DEF ListTypeInv
  <1>4. CASE history' = Append(history, [Now EXCEPT ![r] = s])
    BY <1>2, <1>3, <1>4, AppendTyped
  <1>5. CASE UNCHANGED history
    BY <1>3, <1>5
  <1>6. QED
    BY <1>4, <1>5 DEF Changes

LEMMA NoCallHasNoStage == NoCall \notin CallRecord /\ \A c \in CallRecord : c # NoCall
  <1>1. SUFFICES ASSUME NEW c \in CallRecord
                 PROVE  c # NoCall
    OBVIOUS
  <1>2. c.stage \in {"sent", "done", "refused"}
    BY DEF CallRecord
  <1>3. NoCall.stage = "none"
    BY DEF NoCall
  <1>4. QED
    BY <1>2, <1>3

-----------------------------------------------------------------------------

LEMMA InitListIInv == ListInit => ListIInv
  <1> SUFFICES ASSUME ListInit
               PROVE  ListIInv
    OBVIOUS
  <1>1. ListTypeInv
    <2>1. PICK f \in [Rows -> States(page)] : history = <<f>>
      BY DEF ListInit
    <2>2. QED
      BY <2>1 DEF ListInit, ListTypeInv, Call
  <1>2. CallsInv /\ SlotInv
    BY DEF ListInit, CallsInv, CallInv, SlotInv, RowCall, Under
  <1>3. QED
    BY <1>1, <1>2 DEF ListIInv

\* Steps that leave the calls and the slot alone.
LEMMA QuietKeepsListIInv ==
  ASSUME ListIInv, ListTypeInv', UNCHANGED <<page, busy, calls, overlapped>>
  PROVE  ListIInv'
  <1>1. CallsInv'
    BY DEF ListIInv, CallsInv, CallInv, Offered, Accepts, MachineAccepts, NetworkAccepts, PoolAccepts
  <1>2. SlotInv'
    BY DEF ListIInv, SlotInv, RowCall, Under, BlocksAll
  <1>3. QED
    BY <1>1, <1>2 DEF ListIInv

\* A call is sent for a row that has none, as far as busy tells: until two rows
\* had calls there is no other.
LEMMA SendsKeepsListIInv ==
  ASSUME ListIInv, NEW r \in Rows, NEW v, NEW s, Offered(v, s), ~Blocked(r), Sends(r, v, s),
         UNCHANGED <<page, history, shown, uploading, broken, faults>>,
         dialog' = dialog \/ dialog' = NoDialog
  PROVE  ListIInv'
  <1> DEFINE Sent == [stage |-> "sent", row |-> r, verb |-> v, seen |-> s, effect |-> 0, left |-> FALSE]
  <1>1. PICK i \in CallSlots : calls[i] = NoCall /\ calls' = [calls EXCEPT ![i] = Sent]
    BY DEF Sends
  <1>2. v \in PageVerbs(page) /\ v # "upload" /\ v \in Verbs /\ s \in AllStates
    BY VerbsTyped, StatesTyped DEF Offered, ListIInv, ListTypeInv
  <1>3. Sent \in CallRecord
    BY <1>2 DEF CallRecord
  <1>4. calls' \in [CallSlots -> Call] /\ calls'[i] = Sent
        /\ \A j \in CallSlots \ {i} : calls'[j] = calls[j]
    BY <1>1, <1>3 DEF ListIInv, ListTypeInv, Call
  <1>5. ListTypeInv'
    BY <1>4 DEF Sends, ListIInv, ListTypeInv, Offered, Accepts, MachineAccepts, NetworkAccepts, PoolAccepts
  <1>6. CallsInv'
    <2>1. \A j \in CallSlots \ {i} : CallInv(calls[j])'
      BY <1>4 DEF ListIInv, CallsInv, CallInv, Offered, Accepts, MachineAccepts, NetworkAccepts, PoolAccepts
    <2>2. CallInv(calls[i])'
      BY <1>2, <1>4 DEF CallInv, Offered, Accepts, MachineAccepts, NetworkAccepts, PoolAccepts
    <2>3. QED
      BY <2>1, <2>2 DEF CallsInv
  <1>7. busy # r /\ (BlocksAll => busy = NoRow)
    BY DEF Blocked
  <1>8. ~overlapped' => ~overlapped /\ \A j \in CallSlots : ~RowCall(j)
    BY <1>7 DEF Sends, ListIInv, SlotInv, RowCall
  <1>9. ~overlapped' => \A j \in CallSlots : RowCall(j)' => j = i
    BY <1>4, <1>8 DEF RowCall, Under
  <1>10. BlocksAll => ~overlapped'
    <2> SUFFICES ASSUME BlocksAll
                 PROVE  ~overlapped'
      OBVIOUS
    <2>1. \A j \in CallSlots : ~RowCall(j)
      BY <1>7, ListPagesAssumption, NoCallHasNoStage
         DEF ListIInv, SlotInv, RowCall, Under, ListTypeInv, Call, CallRecord
    <2>2. QED
      BY <2>1 DEF Sends, ListIInv, SlotInv, RowCall
  <1>11. SlotInv'
    BY <1>4, <1>9, <1>10 DEF Sends, SlotInv, BlocksAll
  <1>12. QED
    BY <1>5, <1>6, <1>11 DEF ListIInv

LEMMA ChooseKeepsListIInv ==
  ASSUME ListIInv, NEW r \in Rows, NEW v \in Verbs, Choose(r, v)
  PROVE  ListIInv'
  <1> DEFINE s == history[shown][r]
  <1>1. Offered(v, s)
    BY ShownIsState, OffersAreOffered DEF Choose, ListIInv, ListTypeInv
  <1>2. CASE Confirmed(v)
    <2>1. dialog' = [row |-> r, verb |-> v, seen |-> s]
      BY <1>2 DEF Choose
    <2>2. ListTypeInv'
      BY <1>1, <1>2, <2>1
         DEF Choose, ListIInv, ListTypeInv, Offered, Accepts, MachineAccepts, NetworkAccepts, PoolAccepts
    <2>3. QED
      BY <1>2, <2>2, QuietKeepsListIInv DEF Choose
  <1>3. CASE ~Confirmed(v)
    BY <1>1, <1>3, SendsKeepsListIInv DEF Choose
  <1>4. QED
    BY <1>2, <1>3

LEMMA ConfirmKeepsListIInv ==
  ASSUME ListIInv, Confirm
  PROVE  ListIInv'
  <1>1. dialog.row \in Rows /\ Offered(dialog.verb, dialog.seen) /\ ~Blocked(dialog.row)
    BY DEF Confirm, ListIInv, ListTypeInv
  <1>2. dialog' = dialog \/ dialog' = NoDialog
    BY DEF Confirm
  <1>3. CASE Sends(dialog.row, dialog.verb, dialog.seen)
    BY <1>1, <1>2, <1>3, SendsKeepsListIInv DEF Confirm
  <1>4. CASE UNCHANGED <<busy, calls, overlapped>>
    <2>1. ListTypeInv'
      BY <1>2, <1>4
         DEF Confirm, ListIInv, ListTypeInv, Offered, Accepts, MachineAccepts, NetworkAccepts, PoolAccepts
    <2>2. QED
      BY <1>4, <2>1, QuietKeepsListIInv DEF Confirm
  <1>5. QED
    BY <1>3, <1>4 DEF Confirm

\* One slot's call is replaced by none, or by one that is not in the way: of the
\* same row and verb, or an upload.
LEMMA SlotReplacedKeepsListIInv ==
  ASSUME ListIInv, ListTypeInv', NEW i \in CallSlots, NEW c \in Call,
         calls' = [calls EXCEPT ![i] = c],
         UNCHANGED <<page, overlapped>>,
         CallInv(c),
         c = NoCall \/ c.verb = "upload" \/
           (calls[i] # NoCall /\ c.row = calls[i].row /\ c.verb = calls[i].verb /\ c.left = calls[i].left),
         busy' = busy \/ (c = NoCall /\ RowCall(i))
  PROVE  ListIInv'
  <1>1. calls'[i] = c /\ \A j \in CallSlots \ {i} : calls'[j] = calls[j]
    BY DEF ListIInv, ListTypeInv
  <1>2. CallsInv'
    BY <1>1 DEF ListIInv, CallsInv, CallInv, Offered, Accepts, MachineAccepts, NetworkAccepts, PoolAccepts
  <1>3. \A j \in CallSlots : RowCall(j)' => RowCall(j) /\ calls'[j].row = calls[j].row
    BY <1>1 DEF RowCall, Under
  <1>4. c = NoCall => ~RowCall(i)'
    BY <1>1 DEF RowCall, Under
  <1>5. SlotInv'
    BY <1>3, <1>4 DEF ListIInv, SlotInv, BlocksAll
  <1>6. QED
    BY <1>2, <1>5 DEF ListIInv

LEMMA UploadKeepsListIInv ==
  ASSUME ListIInv, NEW r \in Rows, Upload(r)
  PROVE  ListIInv'
  <1> DEFINE Sent == [stage |-> "sent", row |-> r, verb |-> "upload", seen |-> "any", effect |-> 0, left |-> FALSE]
  <1>1. PICK i \in CallSlots : calls[i] = NoCall /\ calls' = [calls EXCEPT ![i] = Sent]
    BY DEF Upload
  <1>2. Sent \in CallRecord
    BY DEF CallRecord, Verbs
  <1>3. ListTypeInv'
    BY <1>1, <1>2
       DEF Upload, ListIInv, ListTypeInv, Call, Offered, Accepts, MachineAccepts, NetworkAccepts, PoolAccepts
  <1>4. CallInv(Sent)
    BY DEF Upload, CallInv, PageVerbs
  <1>5. QED
    BY <1>1, <1>2, <1>3, <1>4, SlotReplacedKeepsListIInv DEF Upload, Call

\* A call is served: its stage and what it has to do with the history change.
LEMMA ServedKeepsListIInv ==
  ASSUME ListIInv, NEW i \in CallSlots, calls[i].stage = "sent", NEW stage \in {"done", "refused"},
         Served(i, stage), NEW n \in States(page), Changes(calls[i].row, n) \/ UNCHANGED history,
         faults' \in Nat, UNCHANGED <<page, shown, busy, uploading, dialog, broken, overlapped>>
  PROVE  ListIInv'
  <1> DEFINE c == [calls[i] EXCEPT !.stage = stage, !.seen = "any", !.effect = Len(history')]
  <1>1. calls[i] \in CallRecord
    BY DEF ListIInv, ListTypeInv, Call, NoCall
  <1>2. calls[i].row \in Rows
    BY <1>1 DEF CallRecord
  <1>3. history' \in Seq([Rows -> States(page)]) /\ Len(history') >= Len(history) /\ Len(history') \in Nat
    BY <1>2, ChangesKeepsHistory DEF ListIInv
  <1>4. c \in CallRecord /\ c.verb = calls[i].verb /\ c.row = calls[i].row /\ c.left = calls[i].left
        /\ c.stage = stage /\ c.effect = Len(history')
    BY <1>1, <1>3 DEF CallRecord
  <1>5. calls' = [calls EXCEPT ![i] = c]
    BY DEF Served
  <1>6. Len(history) \in Nat /\ Len(history) >= 1 /\ shown \in 1..Len(history)
    BY DEF ListIInv, ListTypeInv
  <1>7. ListTypeInv'
    <2>1. shown \in 1..Len(history') /\ Len(history') >= 1
      BY <1>3, <1>6
    <2>2. calls' \in [CallSlots -> Call]
      BY <1>4, <1>5 DEF ListIInv, ListTypeInv, Call
    <2>3. QED
      BY <1>3, <2>1, <2>2 DEF ListIInv, ListTypeInv, Offered, Accepts, MachineAccepts, NetworkAccepts, PoolAccepts
  <1>8. calls[i] # NoCall
    BY <1>1, NoCallHasNoStage
  <1>9. CallInv(c)
    BY <1>3, <1>4, <1>6, <1>8 DEF ListIInv, CallsInv, CallInv
  <1>10. QED
    BY <1>4, <1>5, <1>7, <1>8, <1>9, SlotReplacedKeepsListIInv DEF Call

\* What the server makes of a call's row is a state of the page.
LEMMA ServesState ==
  ASSUME ListIInv, NEW i \in CallSlots, calls[i].stage = "sent",
         NEW n \in After(calls[i].verb, Now[calls[i].row])
  PROVE  n \in States(page)
  <1>1. calls[i] \in CallRecord /\ calls[i] # NoCall
    BY NoCallHasNoStage DEF ListIInv, ListTypeInv, Call, NoCall
  <1>2. calls[i].row \in Rows /\ calls[i].verb \in PageVerbs(page) /\ page \in Pages
    BY <1>1 DEF ListIInv, ListTypeInv, CallsInv, CallInv, CallRecord
  <1>3. QED
    BY <1>2, ShownIsState, AfterIsState DEF ListIInv

LEMMA ServeKeepsListIInv ==
  ASSUME ListIInv, NEW i \in CallSlots, ServeRow(i) \/ FailRow(i)
  PROVE  ListIInv'
  <1>1. calls[i].stage = "sent" /\ faults' \in Nat
        /\ UNCHANGED <<page, shown, busy, uploading, dialog, broken, overlapped>>
    BY DEF ServeRow, FailRow, ListIInv, ListTypeInv
  <1>2. \E stage \in {"done", "refused"} : Served(i, stage)
    BY DEF ServeRow, FailRow
  <1>3. CASE UNCHANGED history
    <2>1. PICK n : n \in States(page)
      BY DEF States
    <2>2. QED
      BY <1>1, <1>2, <1>3, <2>1, ServedKeepsListIInv
  <1>4. CASE \E n \in After(calls[i].verb, Now[calls[i].row]) : Changes(calls[i].row, n)
    BY <1>1, <1>2, <1>4, ServesState, ServedKeepsListIInv
  <1>5. QED
    BY <1>3, <1>4 DEF ServeRow, FailRow

LEMMA ReleaseKeepsListIInv ==
  ASSUME ListIInv, NEW i \in CallSlots, Release(i)
  PROVE  ListIInv'
  <1>1. calls[i] \in CallRecord /\ calls[i] # NoCall
    BY NoCallHasNoStage DEF Release, ListIInv, ListTypeInv, Call, NoCall
  <1>2. busy' = busy \/ (busy' = NoRow /\ RowCall(i))
    BY <1>1 DEF Release, Freed, RowCall, Under
  <1>3. dialog' = dialog \/ dialog' = NoDialog
    BY DEF Release, Freed
  <1>4. shown' \in 1..Len(history)
    <2>1. CASE shown' = shown
      BY <2>1 DEF ListIInv, ListTypeInv
    <2>2. CASE calls[i].stage = "done" /\ \E v \in calls[i].effect..Len(history) : shown' = v
      <3>1. calls[i].effect \in Nat /\ calls[i].effect >= 1 /\ Len(history) \in Nat
        BY <1>1, <2>2 DEF ListIInv, ListTypeInv, CallsInv, CallInv, CallRecord
      <3>2. QED
        BY <2>2, <3>1
    <2>3. QED
      BY <2>1, <2>2 DEF Release, Refreshed
  <1>5. calls' = [calls EXCEPT ![i] = NoCall] /\ UNCHANGED <<page, history, overlapped, faults>>
    BY DEF Release
  <1>6. ListTypeInv'
    BY <1>2, <1>3, <1>4, <1>5
       DEF ListIInv, ListTypeInv, Call, Offered, Accepts, MachineAccepts, NetworkAccepts, PoolAccepts
  <1>7. QED
    BY <1>2, <1>5, <1>6, SlotReplacedKeepsListIInv DEF CallInv, Call

\* The calls of an earlier visit are nobody's any more.
LEMMA ReturnKeepsListIInv ==
  ASSUME ListIInv, Return
  PROVE  ListIInv'
  <1>1. \A i \in CallSlots :
          /\ calls'[i] \in Call
          /\ calls[i] = NoCall => calls'[i] = NoCall
          /\ calls[i] # NoCall =>
               /\ calls'[i].left /\ calls'[i].verb = calls[i].verb /\ calls'[i].stage = calls[i].stage
               /\ calls'[i].seen = calls[i].seen /\ calls'[i].effect = calls[i].effect
    BY DEF Return, ListIInv, ListTypeInv, Call, CallRecord
  <1>2. ListTypeInv'
    BY <1>1 DEF Return, ListIInv, ListTypeInv
  <1>3. CallsInv'
    BY <1>1
       DEF Return, ListIInv, CallsInv, CallInv, Offered, Accepts, MachineAccepts, NetworkAccepts, PoolAccepts
  <1>4. \A i \in CallSlots : ~RowCall(i)'
    BY <1>1 DEF RowCall, Under
  <1>5. SlotInv'
    BY <1>4 DEF Return, SlotInv
  <1>6. QED
    BY <1>2, <1>3, <1>5 DEF ListIInv

\* What the server, the polls and the confirmation's cross do.
LEMMA OtherStepsKeepListIInv ==
  ASSUME ListIInv,
         \/ \E r \in Rows, s \in States(page) : Drift(r, s)
         \/ Cancel \/ PollFails \/ \E v \in 1..Len(history) : PollLands(v)
         \/ UNCHANGED listVars
  PROVE  ListIInv'
  <1>1. ASSUME NEW r \in Rows, NEW s \in States(page), Drift(r, s)
        PROVE  ListIInv'
    <2>1. history' \in Seq([Rows -> States(page)]) /\ Len(history') >= Len(history)
      BY <1>1, ChangesKeepsHistory DEF Drift, ListIInv
    <2>2. shown \in 1..Len(history') /\ Len(history') >= 1
      BY <2>1 DEF ListIInv, ListTypeInv
    <2>3. ListTypeInv'
      BY <1>1, <2>1, <2>2
         DEF Drift, ListIInv, ListTypeInv, Offered, Accepts, MachineAccepts, NetworkAccepts, PoolAccepts
    <2>4. QED
      BY <1>1, <2>3, QuietKeepsListIInv DEF Drift
  <1>2. CASE Cancel
    <2>1. ListTypeInv'
      BY <1>2 DEF Cancel, ListIInv, ListTypeInv
    <2>2. QED
      BY <1>2, <2>1, QuietKeepsListIInv DEF Cancel
  <1>3. CASE PollFails
    <2>1. ListTypeInv'
      BY <1>3 DEF PollFails, ListIInv, ListTypeInv, Offered, Accepts, MachineAccepts, NetworkAccepts, PoolAccepts
    <2>2. QED
      BY <1>3, <2>1, QuietKeepsListIInv DEF PollFails
  <1>4. ASSUME NEW v \in 1..Len(history), PollLands(v)
        PROVE  ListIInv'
    <2>1. ListTypeInv'
      BY <1>4 DEF PollLands, ListIInv, ListTypeInv, Offered, Accepts, MachineAccepts, NetworkAccepts, PoolAccepts
    <2>2. QED
      BY <1>4, <2>1, QuietKeepsListIInv DEF PollLands
  <1>5. CASE UNCHANGED listVars
    <2>1. ListTypeInv'
      BY <1>5 DEF listVars, ListIInv, ListTypeInv, Offered, Accepts, MachineAccepts, NetworkAccepts, PoolAccepts
    <2>2. QED
      BY <1>5, <2>1, QuietKeepsListIInv DEF listVars
  <1>6. QED
    BY <1>1, <1>2, <1>3, <1>4, <1>5

LEMMA NextKeepsListIInv == ListIInv /\ [ListNext]_listVars => ListIInv'
  <1> SUFFICES ASSUME ListIInv, [ListNext]_listVars
               PROVE  ListIInv'
    OBVIOUS
  <1>1. ASSUME NEW r \in Rows, NEW v \in Verbs, Choose(r, v)
        PROVE  ListIInv'
    BY <1>1, ChooseKeepsListIInv
  <1>2. ASSUME NEW r \in Rows, Upload(r)
        PROVE  ListIInv'
    BY <1>2, UploadKeepsListIInv
  <1>3. CASE Confirm
    BY <1>3, ConfirmKeepsListIInv
  <1>4. CASE Return
    BY <1>4, ReturnKeepsListIInv
  <1>5. ASSUME NEW i \in CallSlots, ServeRow(i) \/ FailRow(i)
        PROVE  ListIInv'
    BY <1>5, ServeKeepsListIInv
  <1>6. ASSUME NEW i \in CallSlots, Release(i)
        PROVE  ListIInv'
    BY <1>6, ReleaseKeepsListIInv
  <1>7. QED
    BY <1>1, <1>2, <1>3, <1>4, <1>5, <1>6, OtherStepsKeepListIInv DEF ListNext

-----------------------------------------------------------------------------
(***************************************************************************)
(* The theorems                                                            *)
(***************************************************************************)

\* The strengthened invariant holds in every state of the pages.
THEOREM ListInductive == ListSpec => []ListIInv
  BY InitListIInv, NextKeepsListIInv, PTL DEF ListSpec

\* Until calls of two rows overlapped, one slot keeps a row to one call, and where
\* it blocks all rows they never overlap (busy in the list pages).
THEOREM OneCall == ListSpec => []OneCallPerRow
  <1>1. ListIInv => OneCallPerRow
    BY DEF ListIInv, SlotInv, OneCallPerRow
  <1>2. QED
    BY <1>1, ListInductive, PTL

\* A step that refuses a call without a fault is the server's, for its row's state.
LEMMA RefusalIsServers ==
  ASSUME ListIInv, [ListNext]_listVars, NEW i \in CallSlots,
         calls[i].stage = "sent", calls'[i].stage = "refused", faults' = faults
  PROVE  ~Accepts(calls[i].verb, Now[calls[i].row])
  <1>1. calls[i] \in CallRecord /\ calls[i] # NoCall
    BY NoCallHasNoStage DEF ListIInv, ListTypeInv, Call, NoCall
  <1>2. ASSUME NEW r, NEW v, NEW s, Sends(r, v, s)
        PROVE  FALSE
    <2>1. PICK j \in CallSlots : calls[j] = NoCall /\ calls' =
            [calls EXCEPT ![j] = [stage |-> "sent", row |-> r, verb |-> v, seen |-> s, effect |-> 0, left |-> FALSE]]
      BY <1>2 DEF Sends
    <2>2. j # i
      BY <1>1, <2>1
    <2>3. QED
      BY <2>1, <2>2 DEF ListIInv, ListTypeInv
  <1>3. ASSUME UNCHANGED calls
        PROVE  FALSE
    BY <1>3
  <1>4. ASSUME NEW r \in Rows, NEW v \in Verbs, Choose(r, v)
        PROVE  FALSE
    BY <1>2, <1>3, <1>4 DEF Choose
  <1>5. CASE Confirm
    BY <1>2, <1>3, <1>5 DEF Confirm
  <1>6. ASSUME NEW r \in Rows, Upload(r)
        PROVE  FALSE
    <2>1. PICK j \in CallSlots : calls[j] = NoCall /\ calls' =
            [calls EXCEPT ![j] =
               [stage |-> "sent", row |-> r, verb |-> "upload", seen |-> "any", effect |-> 0, left |-> FALSE]]
      BY <1>6 DEF Upload
    <2>2. j # i
      BY <1>1, <2>1
    <2>3. QED
      BY <2>1, <2>2 DEF ListIInv, ListTypeInv
  <1>7. ASSUME NEW j \in CallSlots, ServeRow(j)
        PROVE  ~Accepts(calls[i].verb, Now[calls[i].row])
    <2>1. CASE Served(j, "done")
      BY <2>1 DEF Served, ListIInv, ListTypeInv, Call, CallRecord, NoCall
    <2>2. CASE ~Accepts(calls[j].verb, Now[calls[j].row]) /\ Served(j, "refused")
      BY <2>2 DEF Served, ListIInv, ListTypeInv
    <2>3. QED
      BY <1>7, <2>1, <2>2 DEF ServeRow
  <1>8. ASSUME NEW j \in CallSlots, FailRow(j)
        PROVE  FALSE
    BY <1>8 DEF FailRow, ListIInv, ListTypeInv
  <1>9. ASSUME NEW j \in CallSlots, Release(j)
        PROVE  FALSE
    BY <1>9 DEF Release, ListIInv, ListTypeInv, NoCall
  <1>10. CASE Return
    BY <1>1, <1>10 DEF Return, CallRecord
  <1>11. QED
    BY <1>3, <1>4, <1>5, <1>6, <1>7, <1>8, <1>9, <1>10
       DEF ListNext, Drift, Cancel, PollFails, PollLands, listVars

\* A call is refused for its row's state only if that changed after the menu was
\* shown, or the machine is stopping.
THEOREM RefusedStale == ListSpec => RefusedOnlyStale
  <1>1. ASSUME ListIInv, [ListNext]_listVars, NEW i \in CallSlots,
               calls[i].stage = "sent", calls'[i].stage = "refused", faults' = faults,
               calls[i].verb # "upload"
        PROVE  Now[calls[i].row] \notin {calls[i].seen} \ {"stopping"}
    <2>1. calls[i] # NoCall
      BY <1>1 DEF NoCall
    <2>2. Accepts(calls[i].verb, calls[i].seen) \/ calls[i].seen = "stopping"
      BY <1>1, <2>1 DEF ListIInv, CallsInv, CallInv, Offered
    <2>3. QED
      BY <1>1, <2>2, RefusalIsServers
  <1>2. ListIInv /\ [ListNext]_listVars =>
          [\A i \in CallSlots :
             calls[i].stage = "sent" /\ calls'[i].stage = "refused" /\ faults' = faults
             /\ calls[i].verb # "upload" =>
               Now[calls[i].row] \notin {calls[i].seen} \ {"stopping"}]_listVars
    BY <1>1
  <1>3. QED
    BY <1>2, ListInductive, PTL DEF ListSpec, RefusedOnlyStale

-----------------------------------------------------------------------------
(***************************************************************************)
(* Theorems about the page of a machine, for any number of machines, of    *)
(* metric samples and requests, of moves of the browser and of events, and *)
(* for any memory sizes that the form can show.                            *)
(***************************************************************************)

\* The sizes are of no matter here.
AnyMachine == [state : {"running", "paused", "stopped", "gone"}, memory : Nat, iso : Nat]
AnyView    == [of : Machines, state : {"running", "paused", "stopped"}, memory : Nat, iso : Nat]
AnyForm    == [value : [Fields -> Nat], opened : AnyView, touched : SUBSET Fields]
ActRecord  == [at : {"sent", "done", "failed"}, of : Machines, verb : Acts, left : BOOLEAN]
SaveRecord == [at : {"sent", "done"}, of : Machines, body : SUBSET Fields, value : [Fields -> Nat],
               free : SUBSET Fields, left : BOOLEAN]
TickRecord == [of : Machines, alive : BOOLEAN]
Failed     == [at |-> "failed"]

DetailsTypeInv ==
  /\ server \in [Machines -> AnyMachine]
  /\ routeId \in Machines \cup {NoMachine}
  /\ vm \in AnyView \cup {None}
  /\ polled \in AnyView \cup {None, Failed}
  /\ pageError \in BOOLEAN
  /\ confirm \in {"none", "stop", "delete", "delete-disks"}
  /\ act \in ActRecord \cup {None}
  /\ act # None /\ ~act.left => routeId \in Machines

FormType == form \in AnyForm \cup {None}
SaveType == save \in SaveRecord \cup {None}

\* A field that the user did not edit is what the tab was opened with, as far as
\* the form can show it.
FormInv ==
  form # None => vm # None /\ \A f \in Fields \ form.touched : form.value[f] = Rounded(f, form.opened[f])

\* A save sends nothing but what it may well change.
SaveInv == save # None => save.body \subseteq save.free

HistoryType ==
  /\ samples \in Seq(Machines) /\ buf \in Seq(Machines)
  /\ ticks \in [Tick -> TickRecord \cup {None}]

\* The requests that count are for the machine that is shown.
TicksInv == \A k \in Tick : ticks[k] # None /\ ticks[k].alive => vm # None /\ ticks[k].of = vm.of

PartsInv == FormType /\ SaveType /\ FormInv /\ SaveInv /\ HistoryType /\ TicksInv /\ HistoryOfOneMachine

DetailsIInv == DetailsTypeInv /\ PartsInv

partsVars == <<vm, form, save, samples, buf, ticks>>

-----------------------------------------------------------------------------
(***************************************************************************)
(* Helpers                                                                 *)
(***************************************************************************)

LEMMA FieldsAreOfViews ==
  ASSUME NEW v \in AnyView, NEW f \in Fields
  PROVE  v[f] \in Nat
  <1>1. v["memory"] \in Nat /\ v["iso"] \in Nat
    BY DEF AnyView
  <1>2. QED
    BY <1>1 DEF Fields

LEMMA RoundedTyped ==
  ASSUME NEW f \in Fields, NEW n \in Nat
  PROVE  Rounded(f, n) \in Nat
  BY DEF Rounded

\* A form that is opened has the values that it was opened with.
LEMMA OpenFormTyped ==
  ASSUME NEW v \in AnyView
  PROVE  /\ OpenForm(v) \in AnyForm
         /\ \A f \in Fields : OpenForm(v).value[f] = Rounded(f, OpenForm(v).opened[f])
  <1>1. \A f \in Fields : Rounded(f, v[f]) \in Nat
    BY FieldsAreOfViews, RoundedTyped
  <1>2. QED
    BY <1>1 DEF OpenForm, AnyForm

LEMMA ValuesTyped ==
  ASSUME NEW f \in Fields, NEW v \in Values(f)
  PROVE  v \in Nat
  BY MachineDetailsAssumption DEF Values

\* What is kept of a history of one machine is one.
LEMMA LastPointsKept ==
  ASSUME NEW s \in Seq(Machines), NEW m, \A i \in DOMAIN s : s[i] = m
  PROVE  LastPoints(s) \in Seq(Machines) /\ \A i \in DOMAIN LastPoints(s) : LastPoints(s)[i] = m
  <1>1. MaxPoints \in Nat
    BY MachineDetailsAssumption
  <1>2. CASE Len(s) > MaxPoints
    <2>1. LastPoints(s) = SubSeq(s, Len(s) - MaxPoints + 1, Len(s))
      BY <1>2 DEF LastPoints
    <2>2. QED
      BY <1>1, <1>2, <2>1
  <1>3. CASE ~(Len(s) > MaxPoints)
    BY <1>3 DEF LastPoints
  <1>4. QED
    BY <1>2, <1>3

LEMMA AnswerTyped ==
  ASSUME DetailsTypeInv, NEW m \in Machines
  PROVE  Answer(m) \in AnyView \cup {Failed}
  <1>1. server[m] \in AnyMachine
    BY DEF DetailsTypeInv
  <1>2. QED
    BY <1>1 DEF Answer, AnyMachine, AnyView, Failed

\* Whatever the page shows next, its parts keep to it: the settings tab is opened
\* anew or keeps its fields, a save loses its tab, and requests for a machine that
\* is shown no more are dead.
LEMMA PartsKeepsPartsInv ==
  ASSUME DetailsIInv, NEW v \in AnyView \cup {None}, NEW t, NEW anew \in BOOLEAN, Parts(v, t, anew),
         v # None => vm' = v /\ (anew \/ vm # None)
  PROVE  PartsInv'
  <1>1. FormType' /\ FormInv'
    <2>1. CASE form' = None
      BY <2>1 DEF FormType, FormInv
    <2>2. CASE form' = OpenForm(v) /\ v # None
      BY <2>2, OpenFormTyped DEF FormType, FormInv
    <2>3. CASE form' = form /\ v # None
      BY <2>3 DEF DetailsIInv, PartsInv, FormType, FormInv
    <2>4. QED
      BY <2>1, <2>2, <2>3 DEF Parts
  <1>2. SaveType' /\ SaveInv'
    BY DEF Parts, DetailsIInv, PartsInv, SaveType, SaveInv, SaveRecord
  <1>3. HistoryType' /\ TicksInv' /\ HistoryOfOneMachine'
    <2>1. CASE v = None \/ t # "overview" \/ anew
      <3>1. samples' = <<>> /\ buf' = <<>> /\ ticks' = [k \in Tick |-> None]
        BY <2>1 DEF Parts
      <3>2. QED
        BY <3>1 DEF HistoryType, TicksInv, HistoryOfOneMachine
    <2>2. CASE ~(v = None \/ t # "overview" \/ anew)
      <3>1. v # None /\ vm' = v /\ vm # None
        BY <2>2
      <3>2. CASE v.of # vm.of
        <4>1. /\ buf' = <<>> /\ samples' = samples
              /\ ticks' = [k \in Tick |-> IF ticks[k] = None THEN None ELSE [ticks[k] EXCEPT !.alive = FALSE]]
          BY <2>2, <3>1, <3>2 DEF Parts
        <4>2. \A k \in Tick : ticks'[k] = None \/ (ticks'[k] \in TickRecord /\ ticks'[k].alive = FALSE)
          BY <4>1 DEF DetailsIInv, PartsInv, HistoryType, TickRecord
        <4>3. QED
          BY <4>1, <4>2 DEF DetailsIInv, PartsInv, HistoryType, TicksInv, HistoryOfOneMachine
      <3>3. CASE v.of = vm.of
        BY <2>2, <3>1, <3>3 DEF Parts, DetailsIInv, PartsInv, HistoryType, TicksInv, HistoryOfOneMachine
      <3>4. QED
        BY <3>2, <3>3
    <2>3. QED
      BY <2>1, <2>2
  <1>4. QED
    BY <1>1, <1>2, <1>3 DEF PartsInv

LEMMA UnchangedParts ==
  ASSUME DetailsIInv, UNCHANGED partsVars
  PROVE  PartsInv'
  BY DEF partsVars, DetailsIInv, PartsInv, FormType, SaveType, FormInv, SaveInv, HistoryType, TicksInv,
         HistoryOfOneMachine

\* Landing an answer.
LEMMA ShownKeeps ==
  ASSUME DetailsIInv, NEW a \in AnyView \cup {Failed}, Shown(a)
  PROVE  PartsInv' /\ vm' \in AnyView \cup {None} /\ pageError' \in BOOLEAN
  <1>1. CASE a = Failed
    BY <1>1, PartsKeepsPartsInv DEF Shown, Failed, DetailsIInv, DetailsTypeInv
  <1>2. CASE a # Failed
    BY <1>2, PartsKeepsPartsInv DEF Shown, Failed, DetailsIInv, DetailsTypeInv
  <1>3. QED
    BY <1>1, <1>2

LEMMA InitDetailsIInv == DetailsInit => DetailsIInv
  <1> SUFFICES ASSUME DetailsInit
               PROVE  DetailsIInv
    OBVIOUS
  <1>1. \A m \in Machines : server[m] \in AnyMachine
    <2> SUFFICES ASSUME NEW m \in Machines
                 PROVE  server[m] \in AnyMachine
      OBVIOUS
    <2>1. server[m] \in Machine
      BY DEF DetailsInit
    <2>2. Sizes \subseteq Nat
      BY MachineDetailsAssumption
    <2>3. server[m].memory \in Nat /\ server[m].iso \in Nat
      <3>1. server[m].memory \in Sizes
        BY <2>1 DEF Machine
      <3>2. server[m].iso \in {0, 1}
        BY <2>1 DEF Machine
      <3>3. server[m].memory \in Nat
        BY <2>2, <3>1
      <3>4. server[m].iso \in Nat
        BY <3>2
      <3>5. QED
        BY <3>3, <3>4
    <2>4. server[m].state \in {"running", "paused", "stopped", "gone"}
          /\ server[m] = [state |-> server[m].state, memory |-> server[m].memory, iso |-> server[m].iso]
      BY <2>1 DEF Machine
    <2>5. QED
      BY <2>3, <2>4 DEF AnyMachine
  <1>2. DetailsTypeInv
    BY <1>1 DEF DetailsInit, DetailsTypeInv
  <1>3. PartsInv
    BY DEF DetailsInit, PartsInv, FormType, SaveType, FormInv, SaveInv, HistoryType, TicksInv,
           HistoryOfOneMachine
  <1>4. QED
    BY <1>2, <1>3 DEF DetailsIInv

-----------------------------------------------------------------------------
(***************************************************************************)
(* One lemma per action                                                    *)
(***************************************************************************)

LEMMA VisitKeepsDetailsIInv ==
  ASSUME DetailsIInv, NEW m \in Machines \cup {NoMachine}, Visit(m)
  PROVE  DetailsIInv'
  <1>1. PartsInv'
    BY PartsKeepsPartsInv DEF Visit
  <1>2. DetailsTypeInv'
    BY DEF Visit, DetailsIInv, DetailsTypeInv, ActRecord
  <1>3. QED
    BY <1>1, <1>2 DEF DetailsIInv

LEMMA ChooseTabKeepsDetailsIInv ==
  ASSUME DetailsIInv, NEW t, ChooseTab(t)
  PROVE  DetailsIInv'
  <1>1. PartsInv'
    BY PartsKeepsPartsInv DEF ChooseTab, DetailsIInv, DetailsTypeInv
  <1>2. DetailsTypeInv'
    BY DEF ChooseTab, DetailsIInv, DetailsTypeInv
  <1>3. QED
    BY <1>1, <1>2 DEF DetailsIInv

LEMMA PollLandedKeepsDetailsIInv ==
  ASSUME DetailsIInv, PollLanded
  PROVE  DetailsIInv'
  <1>1. polled \in AnyView \cup {Failed} /\ Shown(polled)
    BY DEF PollLanded, DetailsIInv, DetailsTypeInv
  <1>2. PartsInv' /\ vm' \in AnyView \cup {None} /\ pageError' \in BOOLEAN
    BY <1>1, ShownKeeps
  <1>3. DetailsTypeInv'
    BY <1>2 DEF PollLanded, DetailsIInv, DetailsTypeInv
  <1>4. QED
    BY <1>2, <1>3 DEF DetailsIInv

\* The steps that leave all parts of the page alone.
LEMMA JumpKeepsDetailsIInv ==
  ASSUME DetailsIInv, NEW m \in Machines \cup {NoMachine}, Jump(m)
  PROVE  DetailsIInv'
  <1>1. PartsInv'
    BY UnchangedParts DEF Jump, partsVars
  <1>2. DetailsTypeInv'
    BY DEF Jump, DetailsIInv, DetailsTypeInv
  <1>3. QED
    BY <1>1, <1>2 DEF DetailsIInv

LEMMA PollKeepsDetailsIInv ==
  ASSUME DetailsIInv, PollMachine \/ PollLost
  PROVE  DetailsIInv'
  <1>1. PartsInv'
    BY UnchangedParts DEF PollMachine, PollLost, partsVars
  <1>2. polled' \in AnyView \cup {None, Failed}
    <2>1. CASE PollMachine
      <3>1. routeId \in Machines /\ polled' = Answer(routeId)
        BY <2>1 DEF PollMachine, DetailsIInv, DetailsTypeInv
      <3>2. QED
        BY <3>1, AnswerTyped DEF DetailsIInv
    <2>2. CASE PollLost
      BY <2>2 DEF PollLost, Failed
    <2>3. QED
      BY <2>1, <2>2
  <1>3. UNCHANGED <<server, routeId, vm, pageError, confirm, act>>
    BY DEF PollMachine, PollLost
  <1>4. DetailsTypeInv'
    BY <1>2, <1>3 DEF DetailsIInv, DetailsTypeInv
  <1>5. QED
    BY <1>1, <1>4 DEF DetailsIInv

LEMMA DriftsKeepDetailsIInv ==
  ASSUME DetailsIInv, NEW m \in Machines, MachineDrifts(m)
  PROVE  DetailsIInv'
  <1>1. PartsInv'
    BY UnchangedParts DEF MachineDrifts, partsVars
  <1>2. server' \in [Machines -> AnyMachine]
    <2>1. CASE \E n \in {"running", "paused", "stopped", "gone"} : server' = [server EXCEPT ![m].state = n]
      BY <2>1 DEF DetailsIInv, DetailsTypeInv, AnyMachine
    <2>2. ASSUME NEW f \in Fields, NEW v \in Values(f), server' = [server EXCEPT ![m][f] = v]
          PROVE  server' \in [Machines -> AnyMachine]
      <3>1. v \in Nat /\ server[m] \in AnyMachine
        BY ValuesTyped DEF DetailsIInv, DetailsTypeInv
      <3>2. [server[m] EXCEPT ![f] = v] \in AnyMachine
        BY <3>1 DEF AnyMachine, Fields
      <3>3. QED
        BY <2>2, <3>2 DEF DetailsIInv, DetailsTypeInv
    <2>3. QED
      BY <2>1, <2>2 DEF MachineDrifts
  <1>3. UNCHANGED <<routeId, vm, polled, pageError, confirm, act>>
    BY DEF MachineDrifts
  <1>4. DetailsTypeInv'
    BY <1>2, <1>3 DEF DetailsIInv, DetailsTypeInv
  <1>5. QED
    BY <1>1, <1>4 DEF DetailsIInv

\* A call is sent from a page that is shown, to the machine of its address.
LEMMA SendsTyped ==
  ASSUME DetailsIInv, Shows, NEW v \in Acts, SendAct(v)
  PROVE  routeId \in Machines /\ act' \in ActRecord
  BY DEF Shows, DetailsIInv, DetailsTypeInv, SendAct, ActRecord

LEMMA PressKeepsDetailsIInv ==
  ASSUME DetailsIInv, NEW v \in Acts, Press(v)
  PROVE  DetailsIInv'
  <1>1. PartsInv'
    BY UnchangedParts DEF Press, partsVars
  <1>2. CASE v \in {"stop", "delete", "delete-disks"}
    BY <1>1, <1>2 DEF Press, DetailsIInv, DetailsTypeInv
  <1>3. CASE v \notin {"stop", "delete", "delete-disks"}
    <2>1. routeId \in Machines /\ act' \in ActRecord
      BY <1>3, SendsTyped DEF Press
    <2>2. UNCHANGED <<server, routeId, vm, polled, pageError, confirm>>
      BY <1>3 DEF Press
    <2>3. DetailsTypeInv'
      BY <2>1, <2>2 DEF DetailsIInv, DetailsTypeInv
    <2>4. QED
      BY <1>1, <2>3 DEF DetailsIInv
  <1>4. QED
    BY <1>2, <1>3

LEMMA ConfirmKeepsDetailsIInv ==
  ASSUME DetailsIInv, ConfirmAct
  PROVE  DetailsIInv'
  <1>1. PartsInv'
    BY UnchangedParts DEF ConfirmAct, partsVars
  <1>2. confirm \in Acts
    BY DEF ConfirmAct, DetailsIInv, DetailsTypeInv, Acts
  <1>3. routeId \in Machines /\ act' \in ActRecord
    BY <1>2, SendsTyped DEF ConfirmAct
  <1>4. UNCHANGED <<server, routeId, vm, polled, pageError, confirm>>
    BY DEF ConfirmAct
  <1>5. DetailsTypeInv'
    BY <1>3, <1>4 DEF DetailsIInv, DetailsTypeInv
  <1>6. QED
    BY <1>1, <1>5 DEF DetailsIInv

LEMMA CancelKeepsDetailsIInv ==
  ASSUME DetailsIInv, CancelAct
  PROVE  DetailsIInv'
  <1>1. PartsInv'
    BY UnchangedParts DEF CancelAct, partsVars
  <1>2. DetailsTypeInv'
    BY DEF CancelAct, DetailsIInv, DetailsTypeInv
  <1>3. QED
    BY <1>1, <1>2 DEF DetailsIInv

LEMMA ServeActKeepsDetailsIInv ==
  ASSUME DetailsIInv, ServeAct
  PROVE  DetailsIInv'
  <1>1. PartsInv'
    BY UnchangedParts DEF ServeAct, partsVars
  <1>2. act \in ActRecord /\ act.of \in Machines
    BY DEF ServeAct, DetailsIInv, DetailsTypeInv, ActRecord
  <1>3. act' \in ActRecord /\ act'.left = act.left
    BY <1>2 DEF ServeAct, ActRecord
  <1>4. server' = server \/ \E n \in {"running", "stopped", "gone"} : server' = [server EXCEPT ![act.of].state = n]
    BY DEF ServeAct
  <1>5. server' \in [Machines -> AnyMachine]
    BY <1>2, <1>4 DEF DetailsIInv, DetailsTypeInv, AnyMachine
  <1>6. act # None /\ UNCHANGED <<routeId, vm, polled, pageError, confirm>>
    BY DEF ServeAct
  <1>7. DetailsTypeInv'
    BY <1>3, <1>5, <1>6 DEF DetailsIInv, DetailsTypeInv
  <1>8. QED
    BY <1>1, <1>7 DEF DetailsIInv

LEMMA StutterKeepsDetailsIInv ==
  ASSUME DetailsIInv, UNCHANGED detailsVars
  PROVE  DetailsIInv'
  <1>1. PartsInv'
    BY UnchangedParts DEF detailsVars, partsVars
  <1>2. DetailsTypeInv'
    BY DEF detailsVars, DetailsIInv, DetailsTypeInv
  <1>3. QED
    BY <1>1, <1>2 DEF DetailsIInv

LEMMA LandActKeepsDetailsIInv ==
  ASSUME DetailsIInv, LandAct
  PROVE  DetailsIInv'
  <1>1. CASE act.left
    <2>1. PartsInv'
      BY <1>1, UnchangedParts DEF LandAct, partsVars
    <2>2. QED
      BY <1>1, <2>1 DEF LandAct, DetailsIInv, DetailsTypeInv
  <1>2. CASE ~act.left /\ act.at = "done" /\ act.verb \in {"delete", "delete-disks"}
    <2>1. PartsInv'
      BY <1>2, PartsKeepsPartsInv DEF LandAct
    <2>2. QED
      BY <1>2, <2>1 DEF LandAct, DetailsIInv, DetailsTypeInv
  <1>3. CASE ~act.left /\ act.at = "done" /\ act.verb \notin {"delete", "delete-disks"}
    <2>1. Shown(Answer(routeId)) /\ UNCHANGED <<server, routeId, polled>>
      BY <1>3 DEF LandAct
    <2>2. routeId \in Machines
      BY <1>3 DEF LandAct, DetailsIInv, DetailsTypeInv
    <2>3. PartsInv' /\ vm' \in AnyView \cup {None} /\ pageError' \in BOOLEAN
      BY <2>1, <2>2, AnswerTyped, ShownKeeps DEF DetailsIInv
    <2>4. QED
      BY <1>3, <2>1, <2>3 DEF LandAct, DetailsIInv, DetailsTypeInv
  <1>4. CASE ~act.left /\ act.at # "done"
    <2>1. PartsInv'
      BY <1>4, UnchangedParts DEF LandAct, partsVars
    <2>2. QED
      BY <1>4, <2>1 DEF LandAct, DetailsIInv, DetailsTypeInv
  <1>5. QED
    BY <1>1, <1>2, <1>3, <1>4

LEMMA TouchKeepsDetailsIInv ==
  ASSUME DetailsIInv, NEW f \in Fields, NEW v \in Values(f), Touch(f, v)
  PROVE  DetailsIInv'
  <1>1. form \in AnyForm /\ v \in Nat /\ vm # None
    BY ValuesTyped DEF Touch, DetailsIInv, PartsInv, FormType, FormInv
  <1>2. form' = [form EXCEPT !.value[f] = v, !.touched = @ \cup {f}]
    BY DEF Touch
  <1>3. form' \in AnyForm /\ form'.touched = form.touched \cup {f} /\ form'.opened = form.opened
        /\ \A g \in Fields \ {f} : form'.value[g] = form.value[g]
    BY <1>1, <1>2 DEF AnyForm
  <1>4. UNCHANGED <<vm, save, samples, buf, ticks>> /\ form # None
    BY DEF Touch
  <1>5. FormType' /\ FormInv'
    BY <1>1, <1>3, <1>4 DEF DetailsIInv, PartsInv, FormType, FormInv
  <1>6. DetailsTypeInv'
    BY DEF Touch, DetailsIInv, DetailsTypeInv
  <1>7. QED
    BY <1>4, <1>5, <1>6
       DEF DetailsIInv, PartsInv, SaveType, SaveInv, HistoryType, TicksInv, HistoryOfOneMachine

\* What differs from the last poll and was not edited either was changed under
\* the form, and shown, or is rounded.
LEMMA DirtyIsFree ==
  ASSUME DetailsIInv, form # None
  PROVE  Dirty(vm) \subseteq Free /\ Free \subseteq Fields
  <1>1. form.touched \subseteq Fields
    BY DEF DetailsIInv, PartsInv, FormType, AnyForm
  <1>2. Free \subseteq Fields /\ Dirty(vm) \subseteq Fields
    BY <1>1 DEF Free, Dirty
  <1> SUFFICES ASSUME NEW f \in Fields, f \in Dirty(vm)
               PROVE  f \in Free
    BY <1>2
  <1>3. CASE f \in form.touched
    BY <1>3 DEF Free
  <1>4. CASE f \notin form.touched
    <2>1. form.value[f] = Rounded(f, form.opened[f])
      BY <1>4 DEF DetailsIInv, PartsInv, FormInv
    <2>2. QED
      BY <2>1 DEF Dirty, Free
  <1>5. QED
    BY <1>3, <1>4

LEMMA SaveSettingsKeepsDetailsIInv ==
  ASSUME DetailsIInv, SaveSettings
  PROVE  DetailsIInv'
  <1>1. form \in AnyForm /\ vm \in AnyView
    BY DEF SaveSettings, DetailsIInv, DetailsTypeInv, PartsInv, FormType, FormInv
  <1>2. save' = [at |-> "sent", of |-> vm.of, body |-> Dirty(vm), value |-> form.value, free |-> Free, left |-> FALSE]
    BY DEF SaveSettings
  <1>3. Dirty(vm) \subseteq Free /\ Free \subseteq Fields
    BY DirtyIsFree DEF SaveSettings
  <1>4. SaveType' /\ SaveInv'
    BY <1>1, <1>2, <1>3 DEF SaveType, SaveInv, SaveRecord, AnyForm, AnyView
  <1>5. DetailsTypeInv'
    BY DEF SaveSettings, DetailsIInv, DetailsTypeInv
  <1>6. UNCHANGED <<vm, form, samples, buf, ticks>>
    BY DEF SaveSettings
  <1>7. QED
    BY <1>4, <1>5, <1>6
       DEF DetailsIInv, PartsInv, FormType, FormInv, HistoryType, TicksInv, HistoryOfOneMachine

\* The server's part of a save.
LEMMA ServeSaveKeepsDetailsIInv ==
  ASSUME DetailsIInv, ServeSave
  PROVE  DetailsIInv'
  <1>1. save \in SaveRecord /\ save' = [save EXCEPT !.at = "done"]
    BY DEF ServeSave, DetailsIInv, PartsInv, SaveType
  <1>2. save' \in SaveRecord /\ save'.body = save.body /\ save'.free = save.free
    BY <1>1 DEF SaveRecord
  <1>3. SaveType' /\ SaveInv'
    BY <1>1, <1>2 DEF ServeSave, DetailsIInv, PartsInv, SaveType, SaveInv
  <1>4. server' \in [Machines -> AnyMachine]
    <2> DEFINE s == server[save.of]
    <2>1. save.of \in Machines /\ save.value \in [Fields -> Nat] /\ save.body \subseteq Fields
      BY <1>1 DEF SaveRecord
    <2>2. s \in AnyMachine
      BY <2>1 DEF DetailsIInv, DetailsTypeInv
    <2>3. ASSUME NEW applied \in SUBSET Fields
          PROVE  [f \in DOMAIN s |-> IF f \in applied THEN save.value[f] ELSE s[f]] \in AnyMachine
      BY <2>1, <2>2 DEF AnyMachine, Fields
    <2>4. server' = server \/ \E applied \in SUBSET Fields :
            server' = [server EXCEPT
              ![save.of] = [f \in DOMAIN s |-> IF f \in applied THEN save.value[f] ELSE s[f]]]
      <3>1. {{}, save.body \cap Offline, save.body} \subseteq SUBSET Fields
        BY <2>1
      <3>2. QED
        BY <3>1 DEF ServeSave
    <2>5. server \in [Machines -> AnyMachine]
      BY DEF DetailsIInv, DetailsTypeInv
    <2> HIDE DEF s
    <2>6. QED
      BY <2>1, <2>3, <2>4, <2>5
  <1>5. DetailsTypeInv'
    BY <1>4 DEF ServeSave, DetailsIInv, DetailsTypeInv
  <1>6. UNCHANGED <<vm, form, samples, buf, ticks>>
    BY DEF ServeSave
  <1>7. QED
    BY <1>3, <1>5, <1>6
       DEF DetailsIInv, PartsInv, FormType, FormInv, HistoryType, TicksInv, HistoryOfOneMachine

LEMMA LandSaveKeepsDetailsIInv ==
  ASSUME DetailsIInv, LandSave
  PROVE  DetailsIInv'
  <1>1. SaveType' /\ SaveInv' /\ UNCHANGED <<vm, form, samples, buf, ticks>>
    BY DEF LandSave, SaveType, SaveInv
  <1>2. DetailsTypeInv'
    BY DEF LandSave, DetailsIInv, DetailsTypeInv
  <1>3. QED
    BY <1>1, <1>2 DEF DetailsIInv, PartsInv, FormType, FormInv, HistoryType, TicksInv, HistoryOfOneMachine

LEMMA AskMetricsKeepsDetailsIInv ==
  ASSUME DetailsIInv, NEW k \in Tick, AskMetrics(k)
  PROVE  DetailsIInv'
  <1>1. vm \in AnyView
    BY DEF AskMetrics, Shows, DetailsIInv, DetailsTypeInv
  <1>2. ticks' = [ticks EXCEPT ![k] = [of |-> vm.of, alive |-> TRUE]]
    BY DEF AskMetrics
  <1>3. UNCHANGED <<vm, form, save, samples, buf>> /\ vm # None
    BY DEF AskMetrics, Shows
  <1>4. HistoryType' /\ TicksInv'
    BY <1>1, <1>2, <1>3 DEF DetailsIInv, PartsInv, HistoryType, TicksInv, TickRecord, AnyView
  <1>5. DetailsTypeInv'
    BY DEF AskMetrics, DetailsIInv, DetailsTypeInv
  <1>6. QED
    BY <1>3, <1>4, <1>5 DEF DetailsIInv, PartsInv, FormType, SaveType, FormInv, SaveInv, HistoryOfOneMachine

\* An answer that counts is for the machine that is shown.
LEMMA MetricsKeepDetailsIInv ==
  ASSUME DetailsIInv, NEW k \in Tick, MetricsLand(k)
  PROVE  DetailsIInv'
  <1>1. ticks[k] \in TickRecord /\ ticks[k] # None /\ ticks' = [ticks EXCEPT ![k] = None]
    BY DEF MetricsLand, DetailsIInv, PartsInv, HistoryType
  <1>2. UNCHANGED <<vm, form, save>>
    BY DEF MetricsLand
  <1>3. TicksInv' /\ ticks' \in [Tick -> TickRecord \cup {None}]
    BY <1>1, <1>2 DEF DetailsIInv, PartsInv, HistoryType, TicksInv
  <1>4. samples' \in Seq(Machines) /\ buf' \in Seq(Machines) /\ HistoryOfOneMachine'
    <2>1. CASE UNCHANGED <<buf, samples>>
      BY <1>2, <2>1 DEF DetailsIInv, PartsInv, HistoryType, HistoryOfOneMachine
    <2>2. CASE Counts(k) /\ buf' = LastPoints(Append(buf, ticks[k].of)) /\ samples' = buf'
      <3> DEFINE grown == Append(buf, ticks[k].of)
      <3>1. vm # None /\ ticks[k].of = vm.of /\ ticks[k].of \in Machines
        BY <1>1, <2>2 DEF Counts, DetailsIInv, PartsInv, TicksInv, TickRecord
      <3>2. grown \in Seq(Machines) /\ \A i \in DOMAIN grown : grown[i] = vm.of
        BY <3>1 DEF DetailsIInv, PartsInv, HistoryType, HistoryOfOneMachine
      <3> HIDE DEF grown
      <3>3. LastPoints(grown) \in Seq(Machines) /\ \A i \in DOMAIN LastPoints(grown) : LastPoints(grown)[i] = vm.of
        BY <3>2, LastPointsKept
      <3>4. buf' = LastPoints(grown) /\ samples' = buf'
        BY <2>2 DEF grown
      <3>5. QED
        BY <1>2, <3>1, <3>3, <3>4 DEF HistoryOfOneMachine
    <2>3. QED
      BY <2>1, <2>2 DEF MetricsLand
  <1>5. DetailsTypeInv'
    BY DEF MetricsLand, DetailsIInv, DetailsTypeInv
  <1>6. QED
    BY <1>2, <1>3, <1>4, <1>5 DEF DetailsIInv, PartsInv, FormType, SaveType, FormInv, SaveInv, HistoryType

LEMMA NextKeepsDetailsIInv == DetailsIInv /\ [DetailsNext]_detailsVars => DetailsIInv'
  <1> SUFFICES ASSUME DetailsIInv, [DetailsNext]_detailsVars
               PROVE  DetailsIInv'
    OBVIOUS
  <1>1. ASSUME NEW m \in Machines \cup {NoMachine}, Visit(m)
        PROVE  DetailsIInv'
    BY <1>1, VisitKeepsDetailsIInv
  <1>2. ASSUME NEW t, ChooseTab(t)
        PROVE  DetailsIInv'
    BY <1>2, ChooseTabKeepsDetailsIInv
  <1>3. CASE PollLanded
    BY <1>3, PollLandedKeepsDetailsIInv
  <1>4. CASE LandAct
    BY <1>4, LandActKeepsDetailsIInv
  <1>5. ASSUME NEW f \in Fields, NEW v \in Values(f), Touch(f, v)
        PROVE  DetailsIInv'
    BY <1>5, TouchKeepsDetailsIInv
  <1>6. CASE SaveSettings
    BY <1>6, SaveSettingsKeepsDetailsIInv
  <1>7. CASE ServeSave
    BY <1>7, ServeSaveKeepsDetailsIInv
  <1>8. CASE LandSave
    BY <1>8, LandSaveKeepsDetailsIInv
  <1>9. ASSUME NEW k \in Tick, AskMetrics(k)
        PROVE  DetailsIInv'
    BY <1>9, AskMetricsKeepsDetailsIInv
  <1>10. ASSUME NEW k \in Tick, MetricsLand(k)
         PROVE  DetailsIInv'
    BY <1>10, MetricsKeepDetailsIInv
  <1>11. QED
    BY <1>1, <1>2, <1>3, <1>4, <1>5, <1>6, <1>7, <1>8, <1>9, <1>10, JumpKeepsDetailsIInv, PollKeepsDetailsIInv, DriftsKeepDetailsIInv,
       PressKeepsDetailsIInv, ConfirmKeepsDetailsIInv, CancelKeepsDetailsIInv, ServeActKeepsDetailsIInv, StutterKeepsDetailsIInv DEF DetailsNext

-----------------------------------------------------------------------------
(***************************************************************************)
(* The theorems                                                            *)
(***************************************************************************)

\* The strengthened invariant holds in every state of the page.
THEOREM DetailsInductive == DetailsSpec => []DetailsIInv
  BY InitDetailsIInv, NextKeepsDetailsIInv, PTL DEF DetailsSpec

\* The charts never mix machines, however late the answers to the last machine's
\* requests come (useMetricHistory's cleanup).
THEOREM OneHistory == DetailsSpec => []HistoryOfOneMachine
  <1>1. DetailsIInv => HistoryOfOneMachine
    BY DEF DetailsIInv, PartsInv
  <1>2. QED
    BY <1>1, DetailsInductive, PTL

\* A step that carries a save out is the server's.
LEMMA SavesAreServed ==
  ASSUME DetailsIInv, [DetailsNext]_detailsVars,
         save # None, save.at = "sent", save' # None, save'.at = "done"
  PROVE  ServeSave
  <1>1. save' # save /\ save \in SaveRecord
    BY DEF DetailsIInv, PartsInv, SaveType
  <1>2. ASSUME NEW v, NEW t, NEW anew, Parts(v, t, anew)
        PROVE  FALSE
    BY <1>1, <1>2 DEF Parts, SaveRecord
  <1>3. ~UNCHANGED save
    BY <1>1
  <1>4. ASSUME NEW m \in Machines \cup {NoMachine}, Visit(m) \/ Jump(m)
        PROVE  FALSE
    BY <1>2, <1>3, <1>4 DEF Visit, Jump
  <1>5. ASSUME NEW t, ChooseTab(t)
        PROVE  FALSE
    BY <1>2, <1>5 DEF ChooseTab
  <1>6. CASE PollLanded
    BY <1>2, <1>6 DEF PollLanded, Shown
  <1>7. CASE LandAct
    BY <1>2, <1>3, <1>7 DEF LandAct, Shown
  <1>8. CASE SaveSettings \/ LandSave
    BY <1>8 DEF SaveSettings, LandSave
  <1>9. QED
    BY <1>3, <1>4, <1>5, <1>6, <1>7, <1>8
       DEF DetailsNext, PollMachine, PollLost, MachineDrifts, Press, ConfirmAct, CancelAct, ServeAct,
           Touch, AskMetrics, MetricsLand, detailsVars

\* A save changes only what the user edited, the page has shown another value of,
\* or the form rounds (SettingsTab).
THEOREM UndoesSeen == DetailsSpec => UndoesOnlySeen
  <1>1. ASSUME DetailsIInv, [DetailsNext]_detailsVars, NEW m \in Machines, NEW f \in Fields,
               save # None, save.at = "sent", save' # None, save'.at = "done",
               server'[m][f] # server[m][f]
        PROVE  m = save.of /\ f \in save.free
    <2>1. ServeSave
      BY <1>1, SavesAreServed
    <2>2. save \in SaveRecord /\ save.body \subseteq save.free /\ save.of \in Machines
      BY <1>1 DEF DetailsIInv, PartsInv, SaveType, SaveInv, SaveRecord
    <2> DEFINE s == server[save.of]
    <2>3. PICK applied \in SUBSET save.body :
            server' = [server EXCEPT ![save.of] = [g \in DOMAIN s |-> IF g \in applied THEN save.value[g] ELSE s[g]]]
      BY <1>1, <2>1 DEF ServeSave
    <2>4. server \in [Machines -> AnyMachine]
      BY <1>1 DEF DetailsIInv, DetailsTypeInv
    <2>5. m = save.of
      BY <1>1, <2>3, <2>4
    <2>6. s \in AnyMachine /\ f \in DOMAIN s
      BY <2>2, <2>4 DEF AnyMachine, Fields
    <2>7. server'[m][f] = IF f \in applied THEN save.value[f] ELSE s[f]
      BY <2>2, <2>3, <2>4, <2>5, <2>6
    <2>8. f \in applied
      BY <1>1, <2>5, <2>7
    <2>9. QED
      BY <2>2, <2>5, <2>8
  <1>2. DetailsIInv /\ [DetailsNext]_detailsVars =>
          [\A m \in Machines : \A f \in Fields :
             save # None /\ save.at = "sent" /\ save' # None /\ save'.at = "done"
             /\ server'[m][f] # server[m][f] => m = save.of /\ f \in save.free]_detailsVars
    BY <1>1
  <1>3. QED
    BY <1>2, DetailsInductive, PTL DEF DetailsSpec, UndoesOnlySeen

-----------------------------------------------------------------------------
(***************************************************************************)
(* Theorems about the console panel, for any number of connections, of     *)
(* connections the other end closes, and of changes of what is shown.      *)
(***************************************************************************)

Status == {"none", "connecting", "connected", "closing", "closed"}

\* The connections, and the one that keys are sent to.
ConnInv ==
  /\ rfb \in [Connection -> Status]
  /\ current \in 0..MaxConnections
  /\ \A c \in Connection : Live(c) => c = current

\* The delay runs only where there is no connection, and a panel that is closed
\* has neither.
DelayInv ==
  /\ delay => current = 0 /\ consoleStatus # "connected"
  /\ ~panelOpen => current = 0 /\ ~delay

\* A panel that says connected is.
StatusInv ==
  Connects(panelOpen, vmRunning, unavailable) /\ consoleStatus = "connected" =>
    current # 0 /\ rfb[current] = "connected"

ConsoleIInv == ConnInv /\ DelayInv /\ StatusInv

-----------------------------------------------------------------------------

LEMMA NoneIsNoConnection == 0 \notin Connection
  BY ConsolePanelAssumption DEF Connection

\* The cleanup leaves no connection alive.
LEMMA CleanupEndsAll ==
  ASSUME ConnInv
  PROVE  /\ Closed \in [Connection -> Status]
         /\ \A c \in Connection : Closed[c] \notin {"connecting", "connected"}
  BY DEF ConnInv, Closed, Live, Status

\* Running the connect effect again keeps the invariant, whatever is shown by
\* then, if the panel is open or the effect does nothing.
LEMMA ReconnectsKeepsConsoleIInv ==
  ASSUME ConsoleIInv,
         Reconnects(panelOpen', vmRunning', unavailable')
  PROVE  ConsoleIInv'
  <1>1. /\ rfb' = Closed /\ current' = 0
        /\ (delay' <=> Connects(panelOpen', vmRunning', unavailable'))
        /\ (Connects(panelOpen', vmRunning', unavailable') => consoleStatus' = "connecting")
    BY DEF Reconnects
  <1>2. ConnInv'
    BY <1>1, CleanupEndsAll, ConsolePanelAssumption DEF ConsoleIInv, ConnInv, Live
  <1>3. DelayInv'
    BY <1>1 DEF DelayInv, Connects
  <1>4. StatusInv'
    BY <1>1 DEF StatusInv
  <1>5. QED
    BY <1>2, <1>3, <1>4 DEF ConsoleIInv

LEMMA InitConsoleIInv == ConsoleInit => ConsoleIInv
  BY ConsolePanelAssumption DEF ConsoleInit, ConsoleIInv, ConnInv, DelayInv, StatusInv, Status, Live, Connection

-----------------------------------------------------------------------------

LEMMA OpenKeepsConsoleIInv ==
  ASSUME ConsoleIInv, OpenPanel
  PROVE  ConsoleIInv'
  BY DEF OpenPanel, ConsoleIInv, ConnInv, DelayInv, StatusInv, Live

LEMMA PreflightKeepsConsoleIInv ==
  ASSUME ConsoleIInv, PreflightLands
  PROVE  ConsoleIInv'
  <1>1. CASE unavailable' = unavailable /\ UNCHANGED <<rfb, current, delay, consoleStatus, panelOpen, vmRunning>>
    BY <1>1 DEF ConsoleIInv, ConnInv, DelayInv, StatusInv, Live, Connects
  <1>2. CASE Reconnects(panelOpen', vmRunning', unavailable')
    BY <1>2, ReconnectsKeepsConsoleIInv
  <1>3. QED
    BY <1>1, <1>2 DEF PreflightLands

LEMMA ConnectKeepsConsoleIInv ==
  ASSUME ConsoleIInv, Connect
  PROVE  ConsoleIInv'
  <1>1. PICK c \in Connection : rfb' = [rfb EXCEPT ![c] = "connecting"] /\ current' = c
    BY DEF Connect
  <1>2. current = 0 /\ consoleStatus # "connected" /\ ~delay' /\ panelOpen
    BY DEF Connect, ConsoleIInv, DelayInv
  <1>3. \A d \in Connection : ~Live(d)
    BY <1>2, NoneIsNoConnection DEF ConsoleIInv, ConnInv
  <1>4. ConnInv'
    BY <1>1, <1>3 DEF ConsoleIInv, ConnInv, Live, Status, Connection
  <1>5. DelayInv' /\ StatusInv'
    BY <1>2 DEF Connect, DelayInv, StatusInv
  <1>6. QED
    BY <1>4, <1>5 DEF ConsoleIInv

LEMMA ConnectedKeepsConsoleIInv ==
  ASSUME ConsoleIInv, NEW c \in Connection, Connected(c)
  PROVE  ConsoleIInv'
  <1>1. c = current /\ current # 0
    BY NoneIsNoConnection DEF Connected, ConsoleIInv, ConnInv, Live
  <1>2. ~delay /\ panelOpen
    BY <1>1 DEF ConsoleIInv, DelayInv
  <1>3. rfb' = [rfb EXCEPT ![c] = "connected"] /\ current' = current
    BY DEF Connected
  <1>4. ConnInv'
    BY <1>1, <1>3 DEF ConsoleIInv, ConnInv, Live, Status
  <1>5. DelayInv'
    BY <1>2 DEF Connected, DelayInv
  <1>6. StatusInv'
    BY <1>1, <1>3 DEF StatusInv, ConsoleIInv, ConnInv
  <1>7. QED
    BY <1>4, <1>5, <1>6 DEF ConsoleIInv

LEMMA DroppedKeepsConsoleIInv ==
  ASSUME ConsoleIInv, NEW c \in Connection, NEW clean \in BOOLEAN, Dropped(c, clean)
  PROVE  ConsoleIInv'
  <1>1. rfb' = [rfb EXCEPT ![c] = "closed"] /\ consoleStatus' = "disconnected"
        /\ UNCHANGED <<current, delay, panelOpen>>
    BY DEF Dropped
  <1>2. QED
    BY <1>1 DEF ConsoleIInv, ConnInv, DelayInv, StatusInv, Live, Status

LEMMA EndedKeepsConsoleIInv ==
  ASSUME ConsoleIInv, NEW c \in Connection, Ended(c)
  PROVE  ConsoleIInv'
  <1>1. rfb' = [rfb EXCEPT ![c] = "closed"]
        /\ UNCHANGED <<current, delay, panelOpen, vmRunning, unavailable>>
    BY DEF Ended
  <1>2. panelOpen => consoleStatus' = "disconnected"
    BY DEF Ended
  <1>3. ConnInv'
    BY <1>1 DEF ConsoleIInv, ConnInv, Live, Status
  <1>4. DelayInv' /\ StatusInv'
    BY <1>1, <1>2 DEF ConsoleIInv, DelayInv, StatusInv, Connects
  <1>5. QED
    BY <1>3, <1>4 DEF ConsoleIInv

LEMMA NextKeepsConsoleIInv == ConsoleIInv /\ [ConsoleNext]_consoleVars => ConsoleIInv'
  <1> SUFFICES ASSUME ConsoleIInv, [ConsoleNext]_consoleVars
               PROVE  ConsoleIInv'
    OBVIOUS
  <1>1. CASE RunningFlips
    <2>1. Reconnects(panelOpen', vmRunning', unavailable')
      BY <1>1 DEF RunningFlips, Reconnects, Connects
    <2>2. QED
      BY <2>1, ReconnectsKeepsConsoleIInv
  <1>2. CASE ClosePanel
    <2>1. Reconnects(panelOpen', vmRunning', unavailable')
      BY <1>2 DEF ClosePanel, Reconnects, Connects
    <2>2. QED
      BY <2>1, ReconnectsKeepsConsoleIInv
  <1>3. CASE OpenPanel
    BY <1>3, OpenKeepsConsoleIInv
  <1>4. CASE PreflightLands
    BY <1>4, PreflightKeepsConsoleIInv
  <1>5. CASE Connect
    BY <1>5, ConnectKeepsConsoleIInv
  <1>6. CASE RetryFires
    <2>1. CASE panelOpen
      <3>1. Reconnects(panelOpen', vmRunning', unavailable')
        BY <1>6, <2>1 DEF RetryFires, Reconnects, Connects
      <3>2. QED
        BY <3>1, ReconnectsKeepsConsoleIInv
    <2>2. CASE ~panelOpen
      BY <1>6, <2>2 DEF RetryFires, ConsoleIInv, ConnInv, DelayInv, StatusInv, Live, Connects
    <2>3. QED
      BY <2>1, <2>2
  <1>7. ASSUME NEW c \in Connection, Connected(c)
        PROVE  ConsoleIInv'
    BY <1>7, ConnectedKeepsConsoleIInv
  <1>8. ASSUME NEW c \in Connection, Ended(c)
        PROVE  ConsoleIInv'
    BY <1>8, EndedKeepsConsoleIInv
  <1>9. ASSUME NEW c \in Connection, NEW clean \in BOOLEAN, Dropped(c, clean)
        PROVE  ConsoleIInv'
    BY <1>9, DroppedKeepsConsoleIInv
  <1>10. CASE UNCHANGED consoleVars
    BY <1>10 DEF consoleVars, ConsoleIInv, ConnInv, DelayInv, StatusInv, Live, Connects
  <1>11. QED
    BY <1>1, <1>2, <1>3, <1>4, <1>5, <1>6, <1>7, <1>8, <1>9, <1>10 DEF ConsoleNext

-----------------------------------------------------------------------------
(***************************************************************************)
(* The theorems                                                            *)
(***************************************************************************)

\* The strengthened invariant holds in every state of the panel.
THEOREM ConsoleInductive == ConsoleSpec => []ConsoleIInv
  BY InitConsoleIInv, NextKeepsConsoleIInv, PTL DEF ConsoleSpec

\* At most one connection of the panel is alive, and when it says connected that
\* one is, although retry timers are never cleared and connections report their
\* end after the next one was made (ConsolePanel's effects and listeners).
THEOREM OneConnection == ConsoleSpec => []OneLiveConsole
  <1>1. ConsoleIInv => OneLiveConsole
    BY DEF ConsoleIInv, ConnInv, StatusInv, OneLiveConsole
  <1>2. QED
    BY <1>1, ConsoleInductive, PTL

-----------------------------------------------------------------------------
(***************************************************************************)
(* Theorems about the modal forms, for any number of items, of submissions *)
(* under way and of times that the page breaks.                            *)
(***************************************************************************)

SubmissionRecord ==
  [stage : {"sent", "saved", "refused"}, kept : {"form", "page", "none"},
   fields : [FieldNames -> FieldValue], mode : FormModes, target : Targets \cup {NoTarget}]

FormsTypeInv ==
  /\ formKind \in FormKinds
  /\ fields \in [FieldNames -> FieldValue]
  /\ formMode \in FormModes
  /\ formTarget \in Targets \cup {NoTarget}
  /\ wizardStep \in 0..LastStep
  /\ loads \in Nat /\ breaks \in Nat
  /\ submission \in [Submissions -> SubmissionRecord \cup {NoSubmission}]

\* Only the wizard loads lists, and its page never breaks.
KindInv ==
  /\ loads > 0 => formKind = "vm"
  /\ ~mounted => formKind # "vm"

\* The steps behind the wizard pass: it leaves none that does not, and nothing
\* changes a field but on its own step, or to a better value.
WizardInv == formKind = "vm" => \A s \in 0..LastStep : s < wizardStep => StepPasses(s)

\* An edit form that is open has the fields of its target.
TargetInv ==
  Resets(formKind) /\ formOpen =>
    formTarget \in Targets /\ \A f \in FieldsOf(formKind) : fields[f].from = formTarget

\* Until the page breaks all submissions belong to the form.
UnbrokenInv ==
  breaks = 0 =>
    mounted /\ \A i \in Submissions : submission[i] # NoSubmission => submission[i].kept = "form"

FieldsInv == KindInv /\ WizardInv /\ TargetInv

FormsIInv == FormsTypeInv /\ FieldsInv /\ UnbrokenInv /\ SubmitsOnlyValid /\ AnswersItsForm

-----------------------------------------------------------------------------
(***************************************************************************)
(* The forms' fields                                                       *)
(***************************************************************************)

LEMMA WizardHasItsFields == FieldsOf("vm") = WizardFields
  BY DEF FieldsOf

LEMMA FieldsAreNamed ==
  ASSUME NEW k \in FormKinds
  PROVE  FieldsOf(k) \subseteq FieldNames
  BY DEF FieldNames

LEMMA ResetsAreFields ==
  ASSUME NEW k \in FormKinds, Resets(k)
  PROVE  k # "vm" /\ k \in {"editNetwork", "password"}
  BY DEF Resets

LEMMA InitiallyTyped == \A f \in FieldNames : Initially(f) \in FieldValue
  BY DEF Initially, FieldValue

LEMMA LoadedTyped ==
  ASSUME NEW k \in FormKinds, NEW t \in Targets \cup {NoTarget}, NEW m \in FormModes, NEW named \in BOOLEAN
  PROVE  Loaded(k, t, m, named) \in [FieldNames -> FieldValue]
  BY InitiallyTyped DEF Loaded, FieldValue

\* What a form that is reset is given belongs to its target.
LEMMA LoadedOwn ==
  ASSUME NEW k \in FormKinds, Resets(k), NEW t \in Targets, NEW m \in FormModes, NEW named \in BOOLEAN,
         NEW f \in FieldsOf(k)
  PROVE  Loaded(k, t, m, named)[f].from = t
  BY ResetsAreFields, FieldsAreNamed DEF Loaded

\* A wizard that reached its last step passes everywhere.
LEMMA LastStepPasses ==
  ASSUME FormsTypeInv, WizardInv, formKind = "vm", wizardStep = LastStep
  PROVE  \A m \in FormModes : Passes("vm", m, fields)
  <1> SUFFICES ASSUME NEW f \in FieldsOf("vm")
               PROVE  fields[f].ok
    BY DEF Passes, Checked
  <1>1. StepOf(f) \in 0..LastStep /\ StepOf(f) < wizardStep
    BY DEF StepOf, LastStep
  <1>2. QED
    BY <1>1 DEF WizardInv, StepPasses

\* A submission that did not change is as good as it was.
LEMMA SubmissionKept ==
  ASSUME SubmitsOnlyValid, formKind' = formKind,
         \A i \in Submissions : submission'[i] # NoSubmission =>
           /\ submission[i] # NoSubmission
           /\ submission'[i].fields = submission[i].fields
           /\ submission'[i].mode = submission[i].mode
           /\ submission'[i].target = submission[i].target
  PROVE  SubmitsOnlyValid'
  BY DEF SubmitsOnlyValid, Valid, Own

-----------------------------------------------------------------------------

LEMMA InitFormsIInv == FormsInit => FormsIInv
  <1> SUFFICES ASSUME FormsInit
               PROVE  FormsIInv
    OBVIOUS
  <1>1. FormsTypeInv
    BY InitiallyTyped, FormsAssumption DEF FormsInit, FormsTypeInv, FormModes, LastStep
  <1>2. FieldsInv
    BY DEF FormsInit, FieldsInv, KindInv, WizardInv, TargetInv
  <1>3. UnbrokenInv /\ SubmitsOnlyValid /\ AnswersItsForm
    BY DEF FormsInit, UnbrokenInv, SubmitsOnlyValid, AnswersItsForm
  <1>4. QED
    BY <1>1, <1>2, <1>3 DEF FormsIInv

\* Steps that leave the submissions, and what they were sent with, alone.
LEMMA QuietKeepsFormsIInv ==
  ASSUME FormsIInv, FormsTypeInv', FieldsInv',
         UNCHANGED <<formKind, formOpen, mounted, formTarget, fields, formMode, submission, breaks>>
  PROVE  FormsIInv'
  BY SubmissionKept DEF FormsIInv, UnbrokenInv, AnswersItsForm, Usable

\* Steps that nothing under submission can see: the form that would be disturbed
\* sent nothing that is still under way, or the page broke.
LEMMA UnseenKeepsFormsIInv ==
  ASSUME FormsIInv, FormsTypeInv', FieldsInv', mounted => mounted',
         UNCHANGED <<formKind, submission, breaks>>,
         ~Submitting \/ ~Usable
  PROVE  FormsIInv'
  <1>1. SubmitsOnlyValid'
    BY SubmissionKept DEF FormsIInv
  <1>2. UnbrokenInv'
    BY DEF FormsIInv, UnbrokenInv
  <1>3. AnswersItsForm'
    BY DEF FormsIInv, AnswersItsForm, Submitting
  <1>4. QED
    BY <1>1, <1>2, <1>3 DEF FormsIInv

-----------------------------------------------------------------------------
(***************************************************************************)
(* One lemma per action                                                    *)
(***************************************************************************)

LEMMA OpenKeepsFormsIInv ==
  ASSUME FormsIInv, NEW t \in Targets \cup {NoTarget}, OpenModal(t)
  PROVE  FormsIInv'
  <1>1. PICK named \in BOOLEAN :
          fields' = IF Resets(formKind) THEN Loaded(formKind, t, formMode', named) ELSE fields
    BY DEF OpenModal
  <1>2. formMode' \in FormModes
    BY DEF OpenModal, FormsIInv, FormsTypeInv
  <1>3. fields' \in [FieldNames -> FieldValue]
    BY <1>1, <1>2, LoadedTyped DEF FormsIInv, FormsTypeInv
  <1>4. FormsTypeInv'
    BY <1>2, <1>3 DEF OpenModal, FormsIInv, FormsTypeInv, LastStep
  <1>5. KindInv' /\ WizardInv'
    BY DEF OpenModal, FormsIInv, FormsTypeInv, FieldsInv, KindInv, WizardInv
  <1>6. TargetInv'
    <2> SUFFICES ASSUME Resets(formKind)
                 PROVE  t \in Targets /\ \A f \in FieldsOf(formKind) : fields'[f].from = t
      BY DEF OpenModal, TargetInv
    <2>1. t \in Targets
      BY FormsAssumption DEF OpenModal
    <2>2. QED
      BY <1>1, <1>2, <2>1, LoadedOwn DEF FormsIInv, FormsTypeInv
  <1>7. ~Usable /\ mounted' = mounted /\ UNCHANGED <<formKind, submission, breaks>>
    BY DEF OpenModal, Usable
  <1>8. QED
    BY <1>4, <1>5, <1>6, <1>7, UnseenKeepsFormsIInv DEF FieldsInv

LEMMA ListsLoadedKeepsFormsIInv ==
  ASSUME FormsIInv, ListsLoaded
  PROVE  FormsIInv'
  <1>1. PICK any \in BOOLEAN :
          fields' = IF fields["pool"].ok THEN fields
                    ELSE [fields EXCEPT !["pool"] = [ok |-> any, from |-> NoTarget]]
    BY DEF ListsLoaded
  <1>2. formKind = "vm" /\ "pool" \in FieldsOf("vm") /\ "pool" \in FieldNames
    BY WizardHasItsFields, FieldsAreNamed DEF ListsLoaded, FormsIInv, FieldsInv, KindInv, WizardFields, FormKinds
  <1>3. FormsTypeInv'
    BY <1>1, <1>2 DEF ListsLoaded, FormsIInv, FormsTypeInv, FieldValue
  <1>4. \A f \in FieldNames : fields[f].ok => fields'[f].ok
    BY <1>1 DEF FormsIInv, FormsTypeInv
  <1>5. WizardInv'
    BY <1>2, <1>4, FieldsAreNamed DEF ListsLoaded, FormsIInv, FormsTypeInv, FieldsInv, WizardInv, StepPasses
  <1>6. KindInv' /\ TargetInv'
    BY <1>2 DEF ListsLoaded, FormsIInv, FormsTypeInv, FieldsInv, KindInv, TargetInv, Resets
  <1>7. CASE fields["pool"].ok
    BY <1>1, <1>3, <1>5, <1>6, <1>7, QuietKeepsFormsIInv DEF ListsLoaded, FieldsInv
  <1>8. CASE ~fields["pool"].ok
    <2>1. SubmitsOnlyValid'
      BY SubmissionKept DEF ListsLoaded, FormsIInv
    <2>2. \A i \in Submissions : submission[i] # NoSubmission => submission[i].fields["pool"].ok
      BY <1>2 DEF FormsIInv, SubmitsOnlyValid, Valid, Passes, Checked
    <2>3. AnswersItsForm'
      BY <1>8, <2>2 DEF ListsLoaded, FormsIInv, AnswersItsForm
    <2>4. QED
      BY <1>3, <1>5, <1>6, <2>1, <2>3 DEF ListsLoaded, FormsIInv, FieldsInv, UnbrokenInv
  <1>9. QED
    BY <1>7, <1>8

LEMMA EditFieldKeepsFormsIInv ==
  ASSUME FormsIInv, NEW f \in FieldNames, NEW ok \in BOOLEAN, EditField(f, ok)
  PROVE  FormsIInv'
  <1>1. fields' = [fields EXCEPT ![f] = [ok |-> ok, from |-> formTarget]]
    BY DEF EditField
  <1>2. FormsTypeInv'
    BY <1>1 DEF EditField, FormsIInv, FormsTypeInv, FieldValue
  <1>3. WizardInv'
    <2> SUFFICES ASSUME formKind = "vm", NEW s \in 0..LastStep, s < wizardStep,
                        NEW g \in FieldsOf("vm"), StepOf(g) = s
                 PROVE  fields'[g].ok
      BY DEF EditField, WizardInv, StepPasses
    <2>1. g # f
      BY DEF EditField, FormsIInv, FormsTypeInv
    <2>2. QED
      BY <1>1, <2>1, FieldsAreNamed DEF FormsIInv, FormsTypeInv, FieldsInv, WizardInv, StepPasses, FormKinds
  <1>4. KindInv' /\ TargetInv'
    BY <1>1, FieldsAreNamed DEF EditField, FormsIInv, FormsTypeInv, FieldsInv, KindInv, TargetInv
  <1>5. QED
    BY <1>2, <1>3, <1>4, UnseenKeepsFormsIInv DEF EditField, Frozen, FieldsInv

LEMMA ChooseModeKeepsFormsIInv ==
  ASSUME FormsIInv, NEW m \in FormModes, ChooseMode(m)
  PROVE  FormsIInv'
  <1>1. FormsTypeInv'
    BY DEF ChooseMode, FormsIInv, FormsTypeInv
  <1>2. FieldsInv'
    BY DEF ChooseMode, FormsIInv, FieldsInv, KindInv, WizardInv, TargetInv, StepPasses
  <1>3. QED
    BY <1>1, <1>2, UnseenKeepsFormsIInv DEF ChooseMode, Frozen

LEMMA NextStepKeepsFormsIInv ==
  ASSUME FormsIInv, NextStep
  PROVE  FormsIInv'
  <1>1. FormsTypeInv'
    BY DEF NextStep, FormsIInv, FormsTypeInv, LastStep
  <1>2. WizardInv'
    <2> SUFFICES ASSUME NEW s \in 0..LastStep, s < wizardStep'
                 PROVE  StepPasses(s)'
      BY DEF WizardInv
    <2>1. s < wizardStep \/ s = wizardStep
      BY DEF NextStep, FormsIInv, FormsTypeInv
    <2>2. StepPasses(s)
      BY <2>1 DEF NextStep, MayAdvance, FormsIInv, FieldsInv, WizardInv
    <2>3. QED
      BY <2>2 DEF NextStep, StepPasses
  <1>3. KindInv' /\ TargetInv'
    BY DEF NextStep, FormsIInv, FieldsInv, KindInv, TargetInv
  <1>4. QED
    BY <1>1, <1>2, <1>3, QuietKeepsFormsIInv DEF NextStep, FieldsInv

LEMMA BackToKeepsFormsIInv ==
  ASSUME FormsIInv, NEW s \in 0..LastStep, BackTo(s)
  PROVE  FormsIInv'
  <1>1. FormsTypeInv'
    BY DEF BackTo, FormsIInv, FormsTypeInv
  <1>2. \A r \in 0..LastStep : r < s => r < wizardStep
    BY DEF BackTo, FormsIInv, FormsTypeInv
  <1>3. FieldsInv'
    BY <1>2 DEF BackTo, FormsIInv, FieldsInv, KindInv, WizardInv, TargetInv, StepPasses
  <1>4. QED
    BY <1>1, <1>3, QuietKeepsFormsIInv DEF BackTo

LEMMA CloseKeepsFormsIInv ==
  ASSUME FormsIInv, CloseForm
  PROVE  FormsIInv'
  <1>1. FormsTypeInv'
    BY DEF CloseForm, FormsIInv, FormsTypeInv
  <1>2. FieldsInv'
    BY DEF CloseForm, FormsIInv, FieldsInv, KindInv, WizardInv, TargetInv, StepPasses
  <1>3. QED
    BY <1>1, <1>2, UnseenKeepsFormsIInv DEF CloseForm, Frozen

\* What is submitted has just passed, or passed on the way to the last step.
LEMMA SubmitKeepsFormsIInv ==
  ASSUME FormsIInv, Submit
  PROVE  FormsIInv'
  <1> DEFINE Sent == [stage |-> "sent", kept |-> "form", fields |-> fields, mode |-> formMode,
                      target |-> formTarget]
  <1>1. PICK i \in Submissions :
          submission[i] = NoSubmission /\ submission' = [submission EXCEPT ![i] = Sent]
    BY DEF Submit
  <1>2. Sent \in SubmissionRecord
    BY DEF FormsIInv, FormsTypeInv, SubmissionRecord
  <1>3. FormsTypeInv'
    BY <1>1, <1>2 DEF Submit, FormsIInv, FormsTypeInv
  <1>4. FieldsInv'
    BY DEF Submit, FormsIInv, FieldsInv, KindInv, WizardInv, TargetInv, StepPasses
  <1>5. Passes(formKind, formMode, fields)
    BY LastStepPasses DEF Submit, MaySubmit, FormsIInv, FormsTypeInv, FieldsInv
  <1>6. Resets(formKind) => formTarget \in Targets /\ \A f \in FieldsOf(formKind) : fields[f].from = formTarget
    BY DEF Submit, Usable, FormsIInv, FieldsInv, TargetInv
  <1>7. SubmitsOnlyValid'
    <2> SUFFICES ASSUME NEW j \in Submissions, submission'[j] # NoSubmission
                 PROVE  (Valid(submission[j]) /\ Own(submission[j]))'
      BY DEF SubmitsOnlyValid
    <2>1. CASE j = i
      <3>1. submission'[j] = Sent
        BY <1>1, <2>1 DEF FormsIInv, FormsTypeInv
      <3>2. QED
        BY <3>1, <1>5, <1>6 DEF Submit, Valid, Own
    <2>2. CASE j # i
      <3>1. submission'[j] = submission[j]
        BY <1>1, <2>2 DEF FormsIInv, FormsTypeInv
      <3>2. QED
        BY <3>1 DEF Submit, FormsIInv, SubmitsOnlyValid, Valid, Own
    <2>3. QED
      BY <2>1, <2>2
  <1>8. \A j \in Submissions : submission'[j] # NoSubmission /\ submission'[j].kept = "form" => j = i
    BY <1>1 DEF Submit, Submitting, FormsIInv, FormsTypeInv
  <1>9. submission'[i] = Sent
    BY <1>1 DEF FormsIInv, FormsTypeInv
  <1>10. AnswersItsForm'
    BY <1>8, <1>9 DEF Submit, AnswersItsForm, Usable
  <1>11. UnbrokenInv'
    BY <1>1, <1>9 DEF Submit, FormsIInv, FormsTypeInv, UnbrokenInv
  <1>12. QED
    BY <1>3, <1>4, <1>7, <1>10, <1>11 DEF FormsIInv

LEMMA ServeKeepsFormsIInv ==
  ASSUME FormsIInv, NEW i \in Submissions, ServeForm(i)
  PROVE  FormsIInv'
  <1>1. PICK stage \in {"saved", "refused"} : submission' = [submission EXCEPT ![i].stage = stage]
    BY DEF ServeForm
  <1>2. submission[i] \in SubmissionRecord
    BY DEF ServeForm, FormsIInv, FormsTypeInv
  <1>3. /\ submission' \in [Submissions -> SubmissionRecord \cup {NoSubmission}]
        /\ \A j \in Submissions : submission'[j] # NoSubmission =>
             /\ submission[j] # NoSubmission
             /\ submission'[j].fields = submission[j].fields
             /\ submission'[j].mode = submission[j].mode
             /\ submission'[j].target = submission[j].target
             /\ submission'[j].kept = submission[j].kept
    BY <1>1, <1>2 DEF ServeForm, FormsIInv, FormsTypeInv, SubmissionRecord
  <1>4. FormsTypeInv'
    BY <1>3 DEF ServeForm, FormsIInv, FormsTypeInv
  <1>5. FieldsInv'
    BY DEF ServeForm, FormsIInv, FieldsInv, KindInv, WizardInv, TargetInv, StepPasses
  <1>6. SubmitsOnlyValid'
    BY <1>3, SubmissionKept DEF ServeForm, FormsIInv
  <1>7. UnbrokenInv'
    BY <1>3 DEF ServeForm, FormsIInv, UnbrokenInv
  <1>8. AnswersItsForm'
    BY <1>3 DEF ServeForm, FormsIInv, AnswersItsForm, Usable
  <1>9. QED
    BY <1>4, <1>5, <1>6, <1>7, <1>8 DEF FormsIInv

\* A form that is closed by its answer has no other submission under way.
LEMMA LandKeepsFormsIInv ==
  ASSUME FormsIInv, NEW i \in Submissions, LandForm(i)
  PROVE  FormsIInv'
  <1>1. submission' = [submission EXCEPT ![i] = NoSubmission]
    BY DEF LandForm
  <1>2. \A j \in Submissions : submission'[j] # NoSubmission => j # i /\ submission'[j] = submission[j]
    BY <1>1 DEF FormsIInv, FormsTypeInv
  <1>3. FormsTypeInv'
    BY <1>1 DEF LandForm, FormsIInv, FormsTypeInv
  <1>4. FieldsInv'
    BY DEF LandForm, FormsIInv, FieldsInv, KindInv, WizardInv, TargetInv, StepPasses
  <1>5. SubmitsOnlyValid'
    BY <1>2, SubmissionKept DEF LandForm, FormsIInv
  <1>6. UnbrokenInv'
    BY <1>2 DEF LandForm, FormsIInv, UnbrokenInv
  <1>7. AnswersItsForm'
    BY <1>2 DEF LandForm, FormsIInv, UnbrokenInv, AnswersItsForm
  <1>8. QED
    BY <1>3, <1>4, <1>5, <1>6, <1>7 DEF FormsIInv

\* Unmounting a form changes nothing of what it sent.
LEMMA KeptKeepsSubmissions ==
  ASSUME FormsIInv, formKind' = formKind, NEW where \in {"page", "none"}, Kept(where)
  PROVE  submission' \in [Submissions -> SubmissionRecord \cup {NoSubmission}] /\ SubmitsOnlyValid'
  <1>1. \A i \in Submissions :
          /\ submission'[i] \in SubmissionRecord \cup {NoSubmission}
          /\ submission'[i] # NoSubmission =>
               /\ submission[i] # NoSubmission
               /\ submission'[i].fields = submission[i].fields
               /\ submission'[i].mode = submission[i].mode
               /\ submission'[i].target = submission[i].target
    BY DEF Kept, FormsIInv, FormsTypeInv, SubmissionRecord
  <1>2. SubmitsOnlyValid'
    BY <1>1, SubmissionKept DEF FormsIInv
  <1>3. QED
    BY <1>1, <1>2 DEF Kept

LEMMA BreakKeepsFormsIInv ==
  ASSUME FormsIInv, BreakPage
  PROVE  FormsIInv'
  <1>1. submission' \in [Submissions -> SubmissionRecord \cup {NoSubmission}] /\ SubmitsOnlyValid'
    BY KeptKeepsSubmissions DEF BreakPage
  <1>2. FormsTypeInv' /\ breaks' # 0
    BY <1>1, FormsAssumption DEF BreakPage, FormsIInv, FormsTypeInv
  <1>3. FieldsInv'
    BY DEF BreakPage, FormsIInv, FieldsInv, KindInv, WizardInv, TargetInv, StepPasses
  <1>4. QED
    BY <1>1, <1>2, <1>3 DEF FormsIInv, UnbrokenInv, AnswersItsForm

LEMMA MendKeepsFormsIInv ==
  ASSUME FormsIInv, MendPage
  PROVE  FormsIInv'
  <1>1. PICK named \in BOOLEAN : fields' = Loaded(formKind, formTarget, formMode', named)
    BY DEF MendPage
  <1>2. formMode' \in FormModes
    BY DEF MendPage, FormModes
  <1>3. FormsTypeInv'
    BY <1>1, <1>2, LoadedTyped DEF MendPage, FormsIInv, FormsTypeInv
  <1>4. KindInv' /\ WizardInv'
    BY DEF MendPage, FormsIInv, FieldsInv, KindInv, WizardInv
  <1>5. TargetInv'
    BY <1>1, <1>2, LoadedOwn DEF MendPage, FormsIInv, FormsTypeInv, FieldsInv, TargetInv
  <1>6. QED
    BY <1>3, <1>4, <1>5, UnseenKeepsFormsIInv DEF MendPage, FieldsInv, Usable

LEMMA LeaveKeepsFormsIInv ==
  ASSUME FormsIInv, LeavePage
  PROVE  FormsIInv'
  <1>1. submission' \in [Submissions -> SubmissionRecord \cup {NoSubmission}] /\ SubmitsOnlyValid'
    BY KeptKeepsSubmissions DEF LeavePage
  <1>2. FormsTypeInv' /\ breaks' # 0
    BY <1>1, InitiallyTyped DEF LeavePage, FormsIInv, FormsTypeInv, FormModes, LastStep
  <1>3. FieldsInv'
    BY DEF LeavePage, FieldsInv, KindInv, WizardInv, TargetInv
  <1>4. QED
    BY <1>1, <1>2, <1>3 DEF FormsIInv, UnbrokenInv, AnswersItsForm

LEMMA NextKeepsFormsIInv == FormsIInv /\ [FormsNext]_formVars => FormsIInv'
  <1> SUFFICES ASSUME FormsIInv, [FormsNext]_formVars
               PROVE  FormsIInv'
    OBVIOUS
  <1>1. ASSUME NEW t \in Targets \cup {NoTarget}, OpenModal(t)
        PROVE  FormsIInv'
    BY <1>1, OpenKeepsFormsIInv
  <1>2. CASE ListsLoaded
    BY <1>2, ListsLoadedKeepsFormsIInv
  <1>3. CASE ListsFail
    <2>1. FormsTypeInv' /\ FieldsInv'
      BY <1>3 DEF ListsFail, FormsIInv, FormsTypeInv, FieldsInv, KindInv, WizardInv, TargetInv, StepPasses
    <2>2. QED
      BY <1>3, <2>1, QuietKeepsFormsIInv DEF ListsFail
  <1>4. ASSUME NEW f \in FieldNames, NEW ok \in BOOLEAN, EditField(f, ok)
        PROVE  FormsIInv'
    BY <1>4, EditFieldKeepsFormsIInv
  <1>5. ASSUME NEW m \in FormModes, ChooseMode(m)
        PROVE  FormsIInv'
    BY <1>5, ChooseModeKeepsFormsIInv
  <1>6. CASE NextStep
    BY <1>6, NextStepKeepsFormsIInv
  <1>7. CASE CloseForm
    BY <1>7, CloseKeepsFormsIInv
  <1>8. CASE Submit
    BY <1>8, SubmitKeepsFormsIInv
  <1>9. ASSUME NEW s \in 0..LastStep, BackTo(s)
        PROVE  FormsIInv'
    BY <1>9, BackToKeepsFormsIInv
  <1>10. ASSUME NEW i \in Submissions, ServeForm(i)
         PROVE  FormsIInv'
    BY <1>10, ServeKeepsFormsIInv
  <1>11. ASSUME NEW i \in Submissions, LandForm(i)
         PROVE  FormsIInv'
    BY <1>11, LandKeepsFormsIInv
  <1>12. CASE BreakPage
    BY <1>12, BreakKeepsFormsIInv
  <1>13. CASE MendPage
    BY <1>13, MendKeepsFormsIInv
  <1>14. CASE LeavePage
    BY <1>14, LeaveKeepsFormsIInv
  <1>15. CASE UNCHANGED formVars
    <2>1. FormsTypeInv' /\ FieldsInv'
      BY <1>15 DEF formVars, FormsIInv, FormsTypeInv, FieldsInv, KindInv, WizardInv, TargetInv, StepPasses
    <2>2. QED
      BY <1>15, <2>1, QuietKeepsFormsIInv DEF formVars
  <1>16. QED
    BY <1>1, <1>2, <1>3, <1>4, <1>5, <1>6, <1>7, <1>8, <1>9, <1>10, <1>11, <1>12, <1>13, <1>14, <1>15
       DEF FormsNext

-----------------------------------------------------------------------------
(***************************************************************************)
(* The theorems                                                            *)
(***************************************************************************)

\* The strengthened invariant holds in every state of the forms.
THEOREM FormsInductive == FormsSpec => []FormsIInv
  BY InitFormsIInv, NextKeepsFormsIInv, PTL DEF FormsSpec

\* However a form was closed, reopened and remounted, it submits only what its
\* checks have passed, the wizard included, which submits without looking at its
\* steps again; and of an edit only what belongs to the item it names.
THEOREM OnlyValid == FormsSpec => []SubmitsOnlyValid
  <1>1. FormsIInv => SubmitsOnlyValid
    BY DEF FormsIInv
  <1>2. QED
    BY <1>1, FormsInductive, PTL

\* Until the page breaks, a form under submission stays what it sent, and is the
\* only one, so that its answer closes that form and no other.
THEOREM AnswersOwn == FormsSpec => []AnswersItsForm
  <1>1. FormsIInv => AnswersItsForm
    BY DEF FormsIInv
  <1>2. QED
    BY <1>1, FormsInductive, PTL

-----------------------------------------------------------------------------
(***************************************************************************)
(* The app: what holds of each screen by itself holds in it                *)
(***************************************************************************)

\* A step of the app is a step of every screen, or none that it sees.
LEMMA WebStepsAreScreens ==
  [WebNext]_webVars =>
    /\ [SessionNext]_sessionVars /\ [ListNext]_listVars /\ [PollingNext]_pollingVars
    /\ [DetailsNext]_detailsVars /\ [ConsoleNext]_consoleVars /\ [FormsNext]_formVars
  BY DEF WebNext, webVars, SessionStep, MachineStep, FormStep

LEMMA WebRunsScreens ==
  WebSpec => /\ SessionSpec /\ ListSpec /\ DetailsSpec /\ ConsoleSpec /\ FormsSpec
             /\ PollingInit /\ [][PollingNext]_pollingVars
  <1>1. WebInit => SessionInit /\ ListInit /\ PollingInit /\ DetailsInit /\ ConsoleInit /\ FormsInit
    BY DEF WebInit
  <1>2. QED
    BY <1>1, WebStepsAreScreens, PTL
    DEF WebSpec, SessionSpec, ListSpec, DetailsSpec, ConsoleSpec, FormsSpec

\* Put together, the screens keep what each of them keeps alone: no step of one,
\* nor the choice of the screen, breaks what another shows.
THEOREM AppKeepsItsScreens ==
  WebSpec => /\ [](RightIdentity /\ OneCallPerRow /\ HistoryOfOneMachine /\ OneLiveConsole)
             /\ [](SubmitsOnlyValid /\ AnswersItsForm)
             /\ RefusedOnlyStale /\ UndoesOnlySeen
  BY WebRunsScreens, RightUser, OneCall, OneHistory, OneConnection, OnlyValid, AnswersOwn,
     RefusedStale, UndoesSeen, PTL

-----------------------------------------------------------------------------
(***************************************************************************)
(* The types of the app                                                    *)
(***************************************************************************)

LEMMA FirstPollsTyped ==
  ASSUME NEW f \in FirstPolls
  PROVE  f \in [PollSlots -> Poll \cup {NoPoll}]
  <1>1. Asked(NoSelection) \in Poll
    BY PollingAssumption DEF Asked, Poll, Selection
  <1>2. QED
    BY <1>1 DEF FirstPolls

LEMMA RefreshesTyped ==
  ASSUME PollingTypeOK, NEW s \in Selection, Refreshes(s)
  PROVE  polls' \in [PollSlots -> Poll \cup {NoPoll}]
  <1>1. Asked(s) \in Poll
    BY PollingAssumption DEF Asked, Poll
  <1>2. QED
    BY <1>1 DEF Refreshes, PollingTypeOK

LEMMA NoPollIsNone == \A p \in Poll : p # NoPoll /\ p.at # "none"
  <1>1. \A p \in Poll : p.at # "none"
    BY DEF Poll
  <1>2. QED
    BY <1>1 DEF NoPoll

LEMMA NextKeepsPollingTypeOK == PollingTypeOK /\ [PollingNext]_pollingVars => PollingTypeOK'
  <1> SUFFICES ASSUME PollingTypeOK, [PollingNext]_pollingVars
               PROVE  PollingTypeOK'
    OBVIOUS
  <1> USE PollingAssumption
  <1>1. CASE Revisit
    <2>1. polls' \in [PollSlots -> Poll \cup {NoPoll}]
      BY <1>1, FirstPollsTyped DEF Revisit
    <2>2. selected' \in Selection /\ data' \in [of : Selection, ver : 0..MaxVersions]
      BY <1>1 DEF Revisit, NoData, Selection
    <2>3. visits' \in 1..MaxVisits
      BY <1>1 DEF Revisit, PollingTypeOK
    <2>4. error' = FALSE /\ UNCHANGED <<version, selects, misses>>
      BY <1>1 DEF Revisit
    <2>5. QED
      BY <2>1, <2>2, <2>3, <2>4 DEF PollingTypeOK
  <1>2. CASE Interval
    BY <1>2, RefreshesTyped DEF Interval, PollingTypeOK
  <1>3. CASE ServerChanges
    BY <1>3 DEF ServerChanges, PollingTypeOK
  <1>4. ASSUME NEW s \in Selection, Select(s)
        PROVE  PollingTypeOK'
    <2>1. polls' \in [PollSlots -> Poll \cup {NoPoll}]
      BY <1>4, RefreshesTyped DEF Select, PollingTypeOK
    <2>2. QED
      BY <1>4, <2>1 DEF Select, PollingTypeOK
  <1>5. ASSUME NEW i \in PollSlots, AnswerPoll(i)
        PROVE  PollingTypeOK'
    <2>1. polls[i] \in Poll /\ version \in 0..MaxVersions
      BY <1>5 DEF AnswerPoll, PollingTypeOK
    <2>2. [polls[i] EXCEPT !.at = "answered", !.ver = version] \in Poll
      BY <2>1 DEF Poll
    <2>3. polls' = [polls EXCEPT ![i] = [polls[i] EXCEPT !.at = "answered", !.ver = version]]
      BY <1>5 DEF AnswerPoll, PollingTypeOK
    <2>4. QED
      BY <1>5, <2>2, <2>3 DEF AnswerPoll, PollingTypeOK
  <1>6. ASSUME NEW i \in PollSlots, MissPoll(i)
        PROVE  PollingTypeOK'
    <2>1. polls[i] \in Poll
      BY <1>6 DEF MissPoll, PollingTypeOK
    <2>2. [polls[i] EXCEPT !.at = "failed"] \in Poll
      BY <2>1 DEF Poll
    <2>3. polls' = [polls EXCEPT ![i] = [polls[i] EXCEPT !.at = "failed"]]
      BY <1>6 DEF MissPoll
    <2>4. QED
      BY <1>6, <2>2, <2>3 DEF MissPoll, PollingTypeOK
  <1>7. ASSUME NEW i \in PollSlots, LandPoll(i)
        PROVE  PollingTypeOK'
    <2>1. polls[i] \in Poll
      BY <1>7 DEF LandPoll, PollingTypeOK, NoPoll
    <2>2. data' \in [of : Selection, ver : 0..MaxVersions]
      BY <1>7, <2>1 DEF LandPoll, PollingTypeOK, Poll
    <2>3. polls' \in [PollSlots -> Poll \cup {NoPoll}]
      BY <1>7 DEF LandPoll, PollingTypeOK
    <2>4. QED
      BY <1>7, <2>2, <2>3 DEF LandPoll, PollingTypeOK
  <1>8. CASE UNCHANGED pollingVars
    BY <1>8 DEF pollingVars, PollingTypeOK
  <1>9. QED
    BY <1>1, <1>2, <1>3, <1>4, <1>5, <1>6, <1>7, <1>8 DEF PollingNext

LEMMA PollingTyped == PollingInit /\ [][PollingNext]_pollingVars => []PollingTypeOK
  <1>1. PollingInit => PollingTypeOK
    <2> SUFFICES ASSUME PollingInit PROVE PollingTypeOK
      OBVIOUS
    <2>1. polls \in [PollSlots -> Poll \cup {NoPoll}]
      BY FirstPollsTyped DEF PollingInit
    <2>2. selected \in Selection /\ data \in [of : Selection, ver : 0..MaxVersions]
      BY PollingAssumption DEF PollingInit, NoData, Selection
    <2>3. /\ version \in 1..MaxVersions /\ visits \in 1..MaxVisits
          /\ selects \in 0..MaxSelects /\ misses \in 0..MaxMisses
      BY PollingAssumption DEF PollingInit
    <2>4. error = FALSE
      BY DEF PollingInit
    <2>5. QED
      BY <2>1, <2>2, <2>3, <2>4 DEF PollingTypeOK
  <1>2. QED
    BY <1>1, NextKeepsPollingTypeOK, PTL

\* What the list pages' invariant leaves out.
DialogRecord == [row : Rows, verb : Verbs, seen : States(page)]

ListRest ==
  /\ Len(history) <= MaxChanges + 1
  /\ uploading \in BOOLEAN /\ broken \in BOOLEAN /\ overlapped \in BOOLEAN
  /\ dialog \in DialogRecord \cup {NoDialog}
  /\ faults \in 0..MaxFaults

LEMMA ChangesBounds ==
  ASSUME ListIInv, ListRest, NEW r, NEW s, Changes(r, s) \/ UNCHANGED history
  PROVE  Len(history') <= MaxChanges + 1
  <1>1. Len(history) \in Nat /\ MaxChanges \in Nat /\ history \in Seq([Rows -> States(page)])
    BY ListPagesAssumption DEF ListIInv, ListTypeInv
  <1>2. CASE UNCHANGED history
    BY <1>2 DEF ListRest
  <1>3. CASE Len(history) <= MaxChanges /\ history' = Append(history, [Now EXCEPT ![r] = s])
    <2>1. Len(history') = Len(history) + 1
      BY <1>1, <1>3
    <2>2. QED
      BY <1>1, <1>3, <2>1
  <1>4. QED
    BY <1>2, <1>3 DEF Changes

LEMMA NextKeepsListRest ==
  ASSUME ListIInv, ListRest, [ListNext]_listVars
  PROVE  ListRest'
  <1> USE ListPagesAssumption
  <1>1. ASSUME NEW r \in Rows, NEW v \in Verbs, Choose(r, v)
        PROVE  ListRest'
    <2>1. history[shown][r] \in States(page)
      BY ShownIsState DEF ListIInv
    <2>2. dialog' \in DialogRecord \cup {NoDialog}
      BY <1>1, <2>1 DEF Choose, ListRest, DialogRecord
    <2>3. overlapped' \in BOOLEAN
      BY <1>1 DEF Choose, Sends, ListRest
    <2>4. UNCHANGED <<page, history, uploading, broken, faults>>
      BY <1>1 DEF Choose
    <2>5. QED
      BY <2>2, <2>3, <2>4 DEF ListRest, DialogRecord
  <1>2. CASE Confirm
    <2>1. overlapped' \in BOOLEAN
      BY <1>2 DEF Confirm, Sends, ListRest
    <2>2. UNCHANGED <<page, history, uploading, broken, faults>> /\ (dialog' = dialog \/ dialog' = NoDialog)
      BY <1>2 DEF Confirm
    <2>3. QED
      BY <2>1, <2>2 DEF ListRest, DialogRecord
  <1>3. CASE Cancel \/ PollFails \/ \E v \in 1..Len(history) : PollLands(v)
    <2>1. UNCHANGED <<page, history, uploading, overlapped>> /\ (dialog' = dialog \/ dialog' = NoDialog)
      BY <1>3 DEF Cancel, PollFails, PollLands
    <2>2. broken' \in BOOLEAN
      BY <1>3 DEF Cancel, PollFails, PollLands, ListRest
    <2>3. faults' \in 0..MaxFaults
      BY <1>3 DEF Cancel, PollFails, PollLands, ListRest
    <2>4. QED
      BY <2>1, <2>2, <2>3 DEF ListRest, DialogRecord
  <1>4. ASSUME NEW r \in Rows, Upload(r)
        PROVE  ListRest'
    BY <1>4 DEF Upload, ListRest, DialogRecord
  <1>5. ASSUME NEW r \in Rows, NEW s \in States(page), Drift(r, s)
        PROVE  ListRest'
    <2>1. Len(history') <= MaxChanges + 1
      BY <1>5, ChangesBounds DEF Drift
    <2>2. QED
      BY <1>5, <2>1 DEF Drift, ListRest, DialogRecord
  <1>6. ASSUME NEW i \in CallSlots, ServeRow(i) \/ FailRow(i)
        PROVE  ListRest'
    <2>1. UNCHANGED history \/ \E r, s : Changes(r, s)
      BY <1>6 DEF ServeRow, FailRow
    <2>2. Len(history') <= MaxChanges + 1
      BY <2>1, ChangesBounds
    <2>3. UNCHANGED <<page, uploading, dialog, broken, overlapped>> /\ faults' \in 0..MaxFaults
      BY <1>6 DEF ServeRow, FailRow, ListRest
    <2>4. QED
      BY <2>2, <2>3 DEF ListRest, DialogRecord
  <1>7. ASSUME NEW i \in CallSlots, Release(i)
        PROVE  ListRest'
    <2>1. UNCHANGED <<page, history, overlapped, faults>>
      BY <1>7 DEF Release
    <2>2. uploading' \in BOOLEAN /\ (dialog' = dialog \/ dialog' = NoDialog)
      BY <1>7 DEF Release, Freed, ListRest
    <2>3. broken' \in BOOLEAN
      BY <1>7 DEF Release, Refreshed, ListRest
    <2>4. QED
      BY <2>1, <2>2, <2>3 DEF ListRest, DialogRecord
  <1>8. CASE Return
    <2>1. faults' \in 0..MaxFaults
      BY <1>8 DEF Return, ListRest
    <2>2. uploading' = FALSE /\ broken' = FALSE /\ overlapped' = FALSE /\ dialog' = NoDialog
      BY <1>8 DEF Return
    <2>3. UNCHANGED <<page, history>>
      BY <1>8 DEF Return
    <2>4. QED
      BY <2>1, <2>2, <2>3 DEF ListRest, DialogRecord
  <1>9. CASE UNCHANGED listVars
    BY <1>9 DEF listVars, ListRest, DialogRecord
  <1>10. QED
    BY <1>1, <1>2, <1>3, <1>4, <1>5, <1>6, <1>7, <1>8, <1>9 DEF ListNext

LEMMA ListTyped == ListSpec => []ListTypeOK
  <1>1. ListInit => ListRest
    <2> SUFFICES ASSUME ListInit PROVE ListRest
      OBVIOUS
    <2>1. PICK f \in [Rows -> States(page)] : history = <<f>>
      BY DEF ListInit
    <2>2. Len(history) = 1
      BY <2>1
    <2>3. Len(history) <= MaxChanges + 1 /\ faults \in 0..MaxFaults
      BY <2>2, ListPagesAssumption DEF ListInit
    <2>4. uploading = FALSE /\ broken = FALSE /\ overlapped = FALSE /\ dialog = NoDialog
      BY DEF ListInit
    <2>5. QED
      BY <2>3, <2>4 DEF ListRest
  <1>2. ListIInv /\ ListRest => ListTypeOK
    BY ListPagesAssumption DEF ListIInv, ListTypeInv, ListRest, ListTypeOK, DialogRecord, Call
  <1>3. QED
    BY <1>1, <1>2, NextKeepsListRest, ListInductive, PTL DEF ListSpec

\* What the invariant of the machine's page leaves out: the sizes of its values,
\* and what its counters and the buffer may come to.
ViewsRest ==
  /\ server \in [Machines -> Machine]
  /\ vm \in View \cup {None}
  /\ polled \in View \cup {None, Failed}

FormRest ==
  /\ form # None => form.opened \in View /\ \A f \in Fields : form.value[f] \in Values(f)
  /\ save # None => \A f \in Fields : save.value[f] \in Values(f)
  /\ Len(buf) <= MaxPoints

CountRest ==
  /\ tab \in {"overview", "settings", "other"}
  /\ moves \in 0..MaxMoves /\ events \in 0..MaxEvents

DetailsRest == ViewsRest /\ FormRest /\ CountRest

LEMMA FieldOfView ==
  ASSUME NEW v \in View, NEW f \in Fields
  PROVE  v[f] \in Values(f) /\ Rounded(f, v[f]) \in Values(f)
  <1>1. v["memory"] \in Sizes /\ v["iso"] \in {0, 1}
    BY DEF View
  <1>2. v["memory"] + (v["memory"] % 2) \in Sizes
    BY <1>1, MachineDetailsAssumption
  <1>3. CASE f = "memory"
    BY <1>1, <1>2, <1>3 DEF Values, Rounded
  <1>4. CASE f = "iso"
    BY <1>1, <1>4 DEF Values, Rounded
  <1>5. QED
    BY <1>3, <1>4 DEF Fields

LEMMA AnswerIsView ==
  ASSUME ViewsRest, NEW m \in Machines
  PROVE  Answer(m) \in View \cup {Failed}
  <1>1. server[m] \in Machine
    BY DEF ViewsRest
  <1>2. QED
    BY <1>1 DEF Answer, Machine, View, Failed

LEMMA ViewIsSomething == None \notin View /\ Failed \notin View
  <1>1. \A v \in View : DOMAIN v = {"of", "state", "memory", "iso"}
    BY DEF View
  <1>2. DOMAIN None = {"at"} /\ DOMAIN Failed = {"at"}
    BY DEF None, Failed
  <1>3. QED
    BY <1>1, <1>2

\* What the parts of the page take over is of the view that is shown.
LEMMA PartsKeepsFormRest ==
  ASSUME PartsInv, FormRest, NEW v \in View \cup {None}, NEW t, NEW anew \in BOOLEAN, Parts(v, t, anew)
  PROVE  FormRest'
  <1>1. form' # None => form'.opened \in View /\ \A f \in Fields : form'.value[f] \in Values(f)
    <2>1. CASE form' = OpenForm(v) /\ v # None
      <3>1. form'.opened = v /\ \A f \in Fields : form'.value[f] = Rounded(f, v[f])
        BY <2>1 DEF OpenForm
      <3>2. QED
        BY <2>1, <3>1, FieldOfView
    <2>2. CASE form' = form
      BY <2>2 DEF FormRest
    <2>3. QED
      BY <2>1, <2>2 DEF Parts
  <1>2. save' # None => \A f \in Fields : save'.value[f] \in Values(f)
    <2>1. CASE save' = save
      BY <2>1 DEF FormRest
    <2>2. CASE save # None /\ save' = [save EXCEPT !.left = TRUE]
      <3>1. save'.value = save.value
        BY <2>2 DEF PartsInv, SaveType, SaveRecord
      <3>2. QED
        BY <2>2, <3>1 DEF FormRest
    <2>3. QED
      BY <2>1, <2>2 DEF Parts
  <1>3. Len(buf') <= MaxPoints
    <2>1. buf' = <<>> \/ buf' = buf
      BY DEF Parts
    <2>2. Len(<<>>) = 0 /\ MaxPoints \in Nat
      BY MachineDetailsAssumption
    <2>3. QED
      BY <2>1, <2>2 DEF FormRest
  <1>4. QED
    BY <1>1, <1>2, <1>3 DEF FormRest

LEMMA ShownKeepsRest ==
  ASSUME DetailsIInv, FormRest, vm \in View \cup {None}, NEW a \in View \cup {Failed}, Shown(a)
  PROVE  FormRest' /\ vm' \in View \cup {None}
  <1>1. CASE a = Failed
    BY <1>1, PartsKeepsFormRest DEF Shown, Failed, DetailsIInv
  <1>2. CASE a # Failed
    <2>1. a \in View /\ vm' = a /\ Parts(a, tab, pageError \/ vm = None)
      BY <1>2 DEF Shown, Failed
    <2>2. (pageError \/ vm = None) \in BOOLEAN
      BY DEF DetailsIInv, DetailsTypeInv
    <2>3. QED
      BY <2>1, <2>2, PartsKeepsFormRest DEF DetailsIInv
  <1>3. QED
    BY <1>1, <1>2

LEMMA LastPointsBounded ==
  ASSUME NEW s \in Seq(Machines)
  PROVE  Len(LastPoints(s)) <= MaxPoints
  <1>1. MaxPoints \in Nat /\ Len(s) \in Nat
    BY MachineDetailsAssumption
  <1>2. CASE Len(s) > MaxPoints
    <2>1. LastPoints(s) = SubSeq(s, Len(s) - MaxPoints + 1, Len(s))
      BY <1>2 DEF LastPoints
    <2>2. Len(SubSeq(s, Len(s) - MaxPoints + 1, Len(s))) = MaxPoints
      BY <1>1, <1>2
    <2>3. QED
      BY <1>1, <2>1, <2>2
  <1>3. CASE ~(Len(s) > MaxPoints)
    BY <1>1, <1>3 DEF LastPoints
  <1>4. QED
    BY <1>2, <1>3

\* The steps that change the server's machines.
LEMMA ServerStaysTyped ==
  ASSUME DetailsIInv, DetailsRest,
         (\E m \in Machines : MachineDrifts(m)) \/ ServeAct \/ ServeSave
  PROVE  server' \in [Machines -> Machine]
  <1>1. server \in [Machines -> Machine]
    BY DEF DetailsRest, ViewsRest
  <1>2. ASSUME NEW m \in Machines, NEW n \in {"running", "paused", "stopped", "gone"},
               server' = [server EXCEPT ![m].state = n]
        PROVE  server' \in [Machines -> Machine]
    BY <1>1, <1>2 DEF Machine
  <1>3. CASE \E m \in Machines : MachineDrifts(m)
    <2>1. PICK m \in Machines : MachineDrifts(m)
      BY <1>3
    <2>2. ASSUME NEW f \in Fields, NEW v \in Values(f), server' = [server EXCEPT ![m][f] = v]
          PROVE  server' \in [Machines -> Machine]
      <3>1. server[m] \in Machine
        BY <1>1
      <3>2. [server[m] EXCEPT ![f] = v] \in Machine
        BY <3>1 DEF Machine, Fields, Values
      <3>3. QED
        BY <1>1, <2>2, <3>2
    <2>3. QED
      BY <1>2, <2>1, <2>2 DEF MachineDrifts
  <1>4. CASE ServeAct
    <2>1. act.of \in Machines
      BY <1>4 DEF ServeAct, DetailsIInv, DetailsTypeInv, ActRecord
    <2>2. server' = server \/ \E n \in {"running", "stopped", "gone"} : server' = [server EXCEPT ![act.of].state = n]
      BY <1>4 DEF ServeAct
    <2>3. QED
      BY <1>1, <1>2, <2>1, <2>2
  <1>5. CASE ServeSave
    <2> DEFINE s == server[save.of]
    <2>1. save # None /\ save \in SaveRecord
      BY <1>5 DEF ServeSave, DetailsIInv, PartsInv, SaveType
    <2>2. save.of \in Machines /\ save.body \subseteq Fields
      BY <2>1 DEF SaveRecord
    <2>3. save.value["memory"] \in Sizes /\ save.value["iso"] \in {0, 1}
      BY <2>1 DEF DetailsRest, FormRest, Fields, Values
    <2>4. s \in Machine
      BY <1>1, <2>2
    <2>5. ASSUME NEW applied \in SUBSET Fields
          PROVE  [f \in DOMAIN s |-> IF f \in applied THEN save.value[f] ELSE s[f]] \in Machine
      BY <2>3, <2>4 DEF Machine, Fields
    <2>6. server' = server \/ \E applied \in SUBSET Fields :
            server' = [server EXCEPT
              ![save.of] = [f \in DOMAIN s |-> IF f \in applied THEN save.value[f] ELSE s[f]]]
      <3>1. {{}, save.body \cap Offline, save.body} \subseteq SUBSET Fields
        BY <2>2
      <3>2. QED
        BY <1>5, <3>1 DEF ServeSave
    <2> HIDE DEF s
    <2>7. QED
      BY <1>1, <2>2, <2>5, <2>6
  <1>6. QED
    BY <1>3, <1>4, <1>5

LEMMA FormRestUntouched ==
  ASSUME FormRest, UNCHANGED <<form, save, buf>>
  PROVE  FormRest'
  BY DEF FormRest

LEMMA NextKeepsViewsRest ==
  ASSUME DetailsIInv, DetailsRest, [DetailsNext]_detailsVars
  PROVE  ViewsRest'
  <1> USE DEF DetailsRest, ViewsRest
  <1>1. CASE (\E m \in Machines : MachineDrifts(m)) \/ ServeAct \/ ServeSave
    <2>1. UNCHANGED <<vm, polled>>
      BY <1>1 DEF MachineDrifts, ServeAct, ServeSave
    <2>2. QED
      BY <1>1, <2>1, ServerStaysTyped
  <1>2. CASE PollMachine
    <2>1. routeId \in Machines
      BY <1>2 DEF PollMachine, DetailsIInv, DetailsTypeInv
    <2>2. Answer(routeId) \in View \cup {Failed}
      BY <2>1, AnswerIsView
    <2>3. QED
      BY <1>2, <2>2 DEF PollMachine
  <1>3. CASE PollLanded
    <2>1. polled \in View \cup {Failed}
      BY <1>3 DEF PollLanded
    <2>2. vm' \in View \cup {None}
      BY <1>3, <2>1, ShownKeepsRest DEF PollLanded
    <2>3. QED
      BY <1>3, <2>2 DEF PollLanded
  <1>4. CASE PollLost
    BY <1>4 DEF PollLost, Failed
  <1>5. CASE LandAct
    <2>1. server' = server /\ (polled' = polled \/ polled' = None)
      BY <1>5 DEF LandAct
    <2>2. CASE vm' = vm \/ vm' = None
      BY <2>1, <2>2
    <2>3. CASE Shown(Answer(routeId)) /\ ~act.left
      <3>1. routeId \in Machines
        BY <1>5, <2>3 DEF LandAct, DetailsIInv, DetailsTypeInv
      <3>2. vm' \in View \cup {None}
        BY <2>3, <3>1, AnswerIsView, ShownKeepsRest
      <3>3. QED
        BY <2>1, <3>2
    <2>4. QED
      BY <1>5, <2>2, <2>3 DEF LandAct
  <1>6. CASE \E m \in Machines \cup {NoMachine} : Visit(m)
    BY <1>6 DEF Visit
  <1>7. CASE \/ \E m \in Machines \cup {NoMachine} : Jump(m)
             \/ \E t \in {"overview", "settings", "other"} : ChooseTab(t)
             \/ \E v \in Acts : Press(v)
             \/ ConfirmAct \/ CancelAct
             \/ \E f \in Fields : \E v \in Values(f) : Touch(f, v)
             \/ SaveSettings \/ LandSave
             \/ \E k \in Tick : AskMetrics(k) \/ MetricsLand(k)
             \/ UNCHANGED detailsVars
    <2>1. UNCHANGED <<server, vm, polled>>
      BY <1>7 DEF Jump, ChooseTab, Press, ConfirmAct, CancelAct, Touch, SaveSettings, LandSave,
                  AskMetrics, MetricsLand, detailsVars
    <2>2. QED
      BY <2>1
  <1>8. QED
    BY <1>1, <1>2, <1>3, <1>4, <1>5, <1>6, <1>7 DEF DetailsNext

LEMMA NextKeepsFormRest ==
  ASSUME DetailsIInv, DetailsRest, [DetailsNext]_detailsVars
  PROVE  FormRest'
  <1>1. FormRest /\ vm \in View \cup {None} /\ PartsInv
    BY DEF DetailsRest, ViewsRest, DetailsIInv
  <1>2. ASSUME NEW m \in Machines \cup {NoMachine}, Visit(m)
        PROVE  FormRest'
    BY <1>1, <1>2, PartsKeepsFormRest DEF Visit
  <1>3. ASSUME NEW t \in {"overview", "settings", "other"}, ChooseTab(t)
        PROVE  FormRest'
    BY <1>1, <1>3, PartsKeepsFormRest DEF ChooseTab
  <1>4. CASE PollLanded
    <2>1. polled \in View \cup {Failed} /\ Shown(polled)
      BY <1>4 DEF PollLanded, DetailsRest, ViewsRest
    <2>2. QED
      BY <1>1, <2>1, ShownKeepsRest
  <1>5. CASE LandAct
    <2>1. CASE UNCHANGED <<form, save, buf>>
      BY <1>1, <2>1, FormRestUntouched
    <2>2. CASE Parts(None, "overview", TRUE)
      BY <1>1, <2>2, PartsKeepsFormRest
    <2>3. CASE Shown(Answer(routeId)) /\ ~act.left
      <3>1. routeId \in Machines
        BY <1>5, <2>3 DEF LandAct, DetailsIInv, DetailsTypeInv
      <3>2. Answer(routeId) \in View \cup {Failed}
        BY <3>1, AnswerIsView DEF DetailsRest
      <3>3. QED
        BY <1>1, <2>3, <3>2, ShownKeepsRest
    <2>4. QED
      BY <1>5, <2>1, <2>2, <2>3 DEF LandAct
  <1>6. ASSUME NEW g \in Fields, NEW v \in Values(g), Touch(g, v)
        PROVE  FormRest'
    <2>1. form \in AnyForm /\ form # None
      BY <1>1, <1>6 DEF Touch, PartsInv, FormType
    <2>2. form' = [form EXCEPT !.value[g] = v, !.touched = @ \cup {g}]
      BY <1>6 DEF Touch
    <2>3. /\ form'.opened = form.opened
          /\ \A f \in Fields : form'.value[f] = IF f = g THEN v ELSE form.value[f]
      BY <2>1, <2>2 DEF AnyForm
    <2>4. UNCHANGED <<save, buf>>
      BY <1>6 DEF Touch
    <2>5. QED
      BY <1>1, <2>1, <2>3, <2>4 DEF FormRest
  <1>7. CASE SaveSettings
    <2>1. form # None /\ save'.value = form.value /\ UNCHANGED <<form, buf>>
      BY <1>7 DEF SaveSettings
    <2>2. QED
      BY <1>1, <2>1 DEF FormRest
  <1>8. CASE ServeSave \/ LandSave
    <2>1. UNCHANGED <<form, buf>>
      BY <1>8 DEF ServeSave, LandSave
    <2>2. save' = None \/ (save # None /\ save' = [save EXCEPT !.at = "done"])
      BY <1>8 DEF ServeSave, LandSave
    <2>3. save' = None \/ (save # None /\ save'.value = save.value)
      BY <1>1, <2>2 DEF PartsInv, SaveType, SaveRecord
    <2>4. QED
      BY <1>1, <2>1, <2>3 DEF FormRest
  <1>9. ASSUME NEW k \in Tick, MetricsLand(k)
        PROVE  FormRest'
    <2>1. UNCHANGED <<form, save>>
      BY <1>9 DEF MetricsLand
    <2>2. Len(buf') <= MaxPoints
      <3>1. CASE UNCHANGED buf
        BY <1>1, <3>1 DEF FormRest
      <3>2. CASE buf' = LastPoints(Append(buf, ticks[k].of))
        <4>1. ticks[k].of \in Machines /\ buf \in Seq(Machines)
          BY <1>1, <1>9 DEF MetricsLand, PartsInv, HistoryType, TickRecord
        <4>2. Append(buf, ticks[k].of) \in Seq(Machines)
          BY <4>1
        <4>3. QED
          BY <3>2, <4>2, LastPointsBounded
      <3>3. QED
        BY <1>9, <3>1, <3>2 DEF MetricsLand
    <2>3. QED
      BY <1>1, <2>1, <2>2 DEF FormRest
  <1>10. CASE \/ \E m \in Machines \cup {NoMachine} : Jump(m)
              \/ PollMachine \/ PollLost
              \/ \E m \in Machines : MachineDrifts(m)
              \/ \E v \in Acts : Press(v)
              \/ ConfirmAct \/ CancelAct \/ ServeAct
              \/ \E k \in Tick : AskMetrics(k)
              \/ UNCHANGED detailsVars
    <2>1. UNCHANGED <<form, save, buf>>
      BY <1>10 DEF Jump, PollMachine, PollLost, MachineDrifts, Press, ConfirmAct, CancelAct, ServeAct,
                   AskMetrics, detailsVars
    <2>2. QED
      BY <1>1, <2>1, FormRestUntouched
  <1>11. QED
    BY <1>2, <1>3, <1>4, <1>5, <1>6, <1>7, <1>8, <1>9, <1>10 DEF DetailsNext

LEMMA NextKeepsCountRest ==
  ASSUME DetailsRest, [DetailsNext]_detailsVars
  PROVE  CountRest'
  <1> USE MachineDetailsAssumption DEF DetailsRest, CountRest
  <1>1. tab' \in {"overview", "settings", "other"}
    <2>1. CASE \E t \in {"overview", "settings", "other"} : ChooseTab(t)
      BY <2>1 DEF ChooseTab
    <2>2. CASE \/ \E m \in Machines \cup {NoMachine} : Visit(m)
               \/ LandAct
      BY <2>2 DEF Visit, LandAct
    <2>3. QED
      BY <2>1, <2>2 DEF DetailsNext, Jump, PollMachine, PollLanded, PollLost, MachineDrifts, Press,
           ConfirmAct, CancelAct, ServeAct, Touch, SaveSettings, ServeSave, LandSave, AskMetrics,
           MetricsLand, detailsVars
  <1>2. moves' = moves \/ (moves < MaxMoves /\ moves' = moves + 1)
    BY DEF DetailsNext, Visit, Jump, ChooseTab, PollMachine, PollLanded, PollLost, MachineDrifts, Press,
           ConfirmAct, CancelAct, ServeAct, LandAct, Touch, SaveSettings, ServeSave, LandSave,
           AskMetrics, MetricsLand, detailsVars
  <1>3. events' = events \/ (events < MaxEvents /\ events' = events + 1)
    BY DEF DetailsNext, Visit, Jump, ChooseTab, PollMachine, PollLanded, PollLost, MachineDrifts, Press,
           SendAct, ConfirmAct, CancelAct, ServeAct, LandAct, Touch, SaveSettings, ServeSave, LandSave,
           AskMetrics, MetricsLand, detailsVars
  <1>4. moves' \in 0..MaxMoves
    BY <1>2
  <1>5. events' \in 0..MaxEvents
    BY <1>3
  <1>6. QED
    BY <1>1, <1>4, <1>5

LEMMA DetailsTyped == DetailsSpec => []DetailsTypeOK
  <1>1. DetailsInit => DetailsRest
    <2> SUFFICES ASSUME DetailsInit PROVE DetailsRest
      OBVIOUS
    <2>1. ViewsRest
      BY DEF DetailsInit, ViewsRest
    <2>2. FormRest
      BY MachineDetailsAssumption DEF DetailsInit, FormRest
    <2>3. CountRest
      BY MachineDetailsAssumption DEF DetailsInit, CountRest
    <2>4. QED
      BY <2>1, <2>2, <2>3 DEF DetailsRest
  <1>2. DetailsIInv /\ DetailsRest /\ [DetailsNext]_detailsVars => DetailsRest'
    BY NextKeepsViewsRest, NextKeepsFormRest, NextKeepsCountRest DEF DetailsRest
  <1>3. ASSUME DetailsIInv, DetailsRest
        PROVE  DetailsTypeOK
    <2>1. form \in Form \cup {None}
      BY <1>3 DEF DetailsIInv, PartsInv, FormType, AnyForm, DetailsRest, FormRest, Form
    <2>2. polled \in View \cup {None} \cup [at : {"failed"}]
      BY <1>3 DEF DetailsRest, ViewsRest, Failed
    <2>3. act \in {None} \cup [at : {"sent", "done", "failed"}, of : Machines, verb : Acts, left : BOOLEAN]
      BY <1>3 DEF DetailsIInv, DetailsTypeInv, ActRecord
    <2>4. save \in {None} \cup [at : {"sent", "done"}, of : Machines, body : SUBSET Fields,
                                value : [Fields -> Nat], free : SUBSET Fields, left : BOOLEAN]
      BY <1>3 DEF DetailsIInv, PartsInv, SaveType, SaveRecord
    <2>5. ticks \in [Tick -> {None} \cup [of : Machines, alive : BOOLEAN]]
      BY <1>3 DEF DetailsIInv, PartsInv, HistoryType, TickRecord
    <2>6. samples \in Seq(Machines) /\ buf \in Seq(Machines) /\ Len(buf) <= MaxPoints
      BY <1>3 DEF DetailsIInv, PartsInv, HistoryType, DetailsRest, FormRest
    <2>7. /\ server \in [Machines -> Machine] /\ vm \in View \cup {None}
          /\ routeId \in Machines \cup {NoMachine} /\ pageError \in BOOLEAN
          /\ confirm \in {"none", "stop", "delete", "delete-disks"}
      BY <1>3 DEF DetailsIInv, DetailsTypeInv, DetailsRest, ViewsRest
    <2>8. tab \in {"overview", "settings", "other"} /\ moves \in 0..MaxMoves /\ events \in 0..MaxEvents
      BY <1>3 DEF DetailsRest, CountRest
    <2>9. QED
      BY <2>1, <2>2, <2>3, <2>4, <2>5, <2>6, <2>7, <2>8 DEF DetailsTypeOK
  <1>4. QED
    BY <1>1, <1>2, <1>3, DetailsInductive, PTL DEF DetailsSpec

\* What the console panel's invariant leaves out; a retry that runs was lost.
Flags == {graphical, panelOpen, vmRunning, unavailable, preflight, delay, hungUp} \subseteq BOOLEAN

ConsoleRest ==
  /\ Flags
  /\ consoleStatus \in {"connecting", "connected", "disconnected"}
  /\ retries \in Nat /\ drops \in Nat /\ retries <= drops /\ drops <= MaxDrops
  /\ flips \in 0..MaxFlips

LEMMA ReconnectsTyped ==
  ASSUME ConsoleRest, NEW open \in BOOLEAN, NEW running \in BOOLEAN, NEW none \in BOOLEAN,
         Reconnects(open, running, none)
  PROVE  /\ delay' \in BOOLEAN /\ hungUp' \in BOOLEAN
         /\ consoleStatus' \in {"connecting", "connected", "disconnected"}
  BY DEF Reconnects, Connects, ConsoleRest

LEMMA NextKeepsConsoleRest == ConsoleRest /\ [ConsoleNext]_consoleVars => ConsoleRest'
  <1> SUFFICES ASSUME ConsoleRest, [ConsoleNext]_consoleVars
               PROVE  ConsoleRest'
    OBVIOUS
  <1> USE ConsolePanelAssumption
  <1>1. /\ graphical \in BOOLEAN /\ panelOpen \in BOOLEAN /\ vmRunning \in BOOLEAN
        /\ unavailable \in BOOLEAN /\ preflight \in BOOLEAN /\ delay \in BOOLEAN /\ hungUp \in BOOLEAN
        /\ consoleStatus \in {"connecting", "connected", "disconnected"}
    BY DEF ConsoleRest, Flags
  <1> DEFINE Typed == /\ graphical' \in BOOLEAN /\ panelOpen' \in BOOLEAN /\ vmRunning' \in BOOLEAN
                      /\ unavailable' \in BOOLEAN /\ preflight' \in BOOLEAN /\ delay' \in BOOLEAN
                      /\ hungUp' \in BOOLEAN
                      /\ consoleStatus' \in {"connecting", "connected", "disconnected"}
  <1>2. Typed => Flags' /\ consoleStatus' \in {"connecting", "connected", "disconnected"}
    BY DEF Flags
  <1>3. Typed
    <2>1. CASE RunningFlips
      BY <1>1, <2>1, ReconnectsTyped DEF RunningFlips
    <2>2. CASE ClosePanel
      BY <1>1, <2>2, ReconnectsTyped DEF ClosePanel
    <2>3. CASE OpenPanel
      BY <1>1, <2>3 DEF OpenPanel
    <2>4. CASE PreflightLands
      BY <1>1, <2>4, ReconnectsTyped DEF PreflightLands
    <2>5. CASE Connect
      BY <1>1, <2>5 DEF Connect
    <2>6. CASE RetryFires
      BY <1>1, <2>6, ReconnectsTyped DEF RetryFires
    <2>7. CASE \E c \in Connection : Connected(c) \/ Ended(c) \/ \E clean \in BOOLEAN : Dropped(c, clean)
      BY <1>1, <2>7 DEF Connected, Ended, Dropped
    <2>8. CASE UNCHANGED consoleVars
      BY <1>1, <2>8 DEF consoleVars
    <2>9. QED
      BY <2>1, <2>2, <2>3, <2>4, <2>5, <2>6, <2>7, <2>8 DEF ConsoleNext
  <1> HIDE DEF Typed
  <1>4. \/ UNCHANGED <<retries, drops>>
        \/ drops < MaxDrops /\ drops' = drops + 1 /\ retries' \in {retries, retries + 1}
        \/ retries > 0 /\ retries' = retries - 1 /\ drops' = drops
    BY DEF ConsoleNext, RunningFlips, ClosePanel, OpenPanel, PreflightLands, Connect, RetryFires,
           Connected, Ended, Dropped, RetryAfter, consoleVars
  <1>5. retries' \in Nat /\ drops' \in Nat /\ retries' <= drops' /\ drops' <= MaxDrops
    BY <1>4 DEF ConsoleRest
  <1>6. flips' = flips \/ (flips < MaxFlips /\ flips' = flips + 1)
    BY DEF ConsoleNext, RunningFlips, ClosePanel, OpenPanel, PreflightLands, Connect, RetryFires,
           Connected, Ended, Dropped, consoleVars
  <1>7. flips' \in 0..MaxFlips
    BY <1>6 DEF ConsoleRest
  <1>8. QED
    BY <1>2, <1>3, <1>5, <1>7 DEF ConsoleRest

LEMMA ConsoleTyped == ConsoleSpec => []ConsoleTypeOK
  <1>1. ConsoleInit => ConsoleRest
    <2> SUFFICES ASSUME ConsoleInit PROVE ConsoleRest
      OBVIOUS
    <2>1. Flags
      BY DEF ConsoleInit, Flags
    <2>2. consoleStatus \in {"connecting", "connected", "disconnected"}
      BY DEF ConsoleInit
    <2>3. retries = 0 /\ drops = 0 /\ flips = 0
      BY DEF ConsoleInit
    <2>4. QED
      BY <2>1, <2>2, <2>3, ConsolePanelAssumption DEF ConsoleRest
  <1>2. ConsoleIInv /\ ConsoleRest => ConsoleTypeOK
    <2> SUFFICES ASSUME ConsoleIInv, ConsoleRest PROVE ConsoleTypeOK
      OBVIOUS
    <2>1. rfb \in [Connection -> {"none", "connecting", "connected", "closing", "closed"}]
          /\ current \in 0..MaxConnections
      BY DEF ConsoleIInv, ConnInv, Status
    <2>2. retries \in 0..MaxDrops /\ drops \in 0..MaxDrops
      BY ConsolePanelAssumption DEF ConsoleRest
    <2>3. QED
      BY <2>1, <2>2 DEF ConsoleRest, Flags, ConsoleTypeOK
  <1>3. QED
    BY <1>1, <1>2, NextKeepsConsoleRest, ConsoleInductive, PTL DEF ConsoleSpec

\* What the forms' invariant leaves out.
FormsRest ==
  /\ formOpen \in BOOLEAN /\ mounted \in BOOLEAN /\ locked \in BOOLEAN /\ poolFull \in BOOLEAN
  /\ loads \in 0..MaxLoads /\ breaks \in 0..MaxBreaks

LEMMA NextKeepsFormsRest == FormsRest /\ [FormsNext]_formVars => FormsRest'
  <1> SUFFICES ASSUME FormsRest, [FormsNext]_formVars
               PROVE  FormsRest'
    OBVIOUS
  <1>1. /\ formOpen \in BOOLEAN /\ mounted \in BOOLEAN /\ locked \in BOOLEAN /\ poolFull \in BOOLEAN
    BY DEF FormsRest
  <1>2. formOpen' \in BOOLEAN /\ mounted' \in BOOLEAN
    BY <1>1 DEF FormsNext, OpenModal, ListsLoaded, ListsFail, EditField, ChooseMode, NextStep, CloseForm,
       Submit, BackTo, ServeForm, LandForm, BreakPage, MendPage, LeavePage, formVars
  <1>3. locked' \in BOOLEAN /\ poolFull' \in BOOLEAN
    BY <1>1 DEF FormsNext, OpenModal, ListsLoaded, ListsFail, EditField, ChooseMode, NextStep, CloseForm,
       Submit, BackTo, ServeForm, LandForm, BreakPage, MendPage, LeavePage, formVars
  <1>4. \/ loads' \in {loads, 0}
        \/ loads < MaxLoads /\ loads' = loads + 1
        \/ loads > 0 /\ loads' = loads - 1
    BY DEF FormsNext, OpenModal, ListsLoaded, ListsFail, EditField, ChooseMode, NextStep, CloseForm,
       Submit, BackTo, ServeForm, LandForm, BreakPage, MendPage, LeavePage, formVars
  <1>5. breaks' = breaks \/ (breaks < MaxBreaks /\ breaks' = breaks + 1)
    BY DEF FormsNext, OpenModal, ListsLoaded, ListsFail, EditField, ChooseMode, NextStep, CloseForm,
       Submit, BackTo, ServeForm, LandForm, BreakPage, MendPage, LeavePage, formVars
  <1>6. loads' \in 0..MaxLoads
    BY <1>4 DEF FormsRest, MaxLoads
  <1>7. breaks' \in 0..MaxBreaks
    BY <1>5, FormsAssumption DEF FormsRest
  <1>8. QED
    BY <1>2, <1>3, <1>6, <1>7 DEF FormsRest

LEMMA FormsTyped == FormsSpec => []FormsTypeOK
  <1>1. FormsInit => FormsRest
    <2> SUFFICES ASSUME FormsInit PROVE FormsRest
      OBVIOUS
    <2>1. formOpen = FALSE /\ mounted = TRUE /\ locked = FALSE /\ poolFull = FALSE
      BY DEF FormsInit
    <2>2. loads \in 0..MaxLoads /\ breaks \in 0..MaxBreaks
      BY FormsAssumption DEF FormsInit, MaxLoads
    <2>3. QED
      BY <2>1, <2>2 DEF FormsRest
  <1>2. FormsIInv /\ FormsRest => FormsTypeOK
    BY DEF FormsIInv, FormsTypeInv, SubmissionRecord, FormsRest, FormsTypeOK
  <1>3. QED
    BY <1>1, <1>2, NextKeepsFormsRest, FormsInductive, PTL DEF FormsSpec

\* Every screen of the app keeps its types, whichever is followed: what a page
\* shows, what it has under way and what the server has never mix, a poll or a
\* save brings nothing that a machine cannot have, and no bound is passed.
THEOREM TypeCorrect == WebSpec => []WebTypeOK
  <1> DEFINE Followed == screen \in Screens
  <1>1. WebInit => Followed
    BY DEF WebInit
  <1>2. Followed /\ [WebNext]_webVars => Followed'
    BY DEF WebNext, webVars
  <1> HIDE DEF Followed
  <1>3. WebSpec => []Followed
    BY <1>1, <1>2, PTL DEF WebSpec
  <1>4. SessionIInv => SessionTypeOK
    BY DEF SessionIInv
  <1>5. SessionSpec => []SessionTypeOK
    BY <1>4, SessionInductive, PTL
  <1>6. /\ Followed /\ SessionTypeOK /\ ListTypeOK /\ PollingTypeOK
        /\ DetailsTypeOK /\ ConsoleTypeOK /\ FormsTypeOK
        => WebTypeOK
    BY DEF WebTypeOK, Followed
  <1>7. QED
    BY <1>3, <1>5, <1>6, WebRunsScreens, ListTyped, PollingTyped, DetailsTyped, ConsoleTyped, FormsTyped, PTL

=============================================================================

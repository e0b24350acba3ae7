---------------------------- MODULE BackupCatalog ----------------------------
(***************************************************************************)
(* What the backup library promises of one machine's points: a point is    *)
(* absent until it is published as a whole, its origin was published       *)
(* before it and is older, and a withdrawn point never returns.            *)
(***************************************************************************)
EXTENDS Naturals

CONSTANT MaxPoints

VARIABLES
  state,   \* point -> absent, visible or withdrawn
  origin   \* point -> the point it continues from, 0 for a full

vars == <<state, origin>>

Point == 1..MaxPoints

Init ==
  /\ state = [p \in Point |-> "absent"]
  /\ origin = [p \in Point |-> 0]

Publish(p, q) ==
  /\ state[p] = "absent"
  /\ q # 0 => q < p /\ state[q] # "absent"
  /\ state' = [state EXCEPT ![p] = "visible"]
  /\ origin' = [origin EXCEPT ![p] = q]

Withdraw(p) ==
  /\ state[p] = "visible"
  /\ state' = [state EXCEPT ![p] = "withdrawn"]
  /\ UNCHANGED origin

Next == \E p \in Point : Withdraw(p) \/ \E q \in 0..MaxPoints : Publish(p, q)

Spec == Init /\ [][Next]_vars

=============================================================================

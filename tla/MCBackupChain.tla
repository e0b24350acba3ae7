---------------------------- MODULE MCBackupChain ----------------------------
(***************************************************************************)
(* Model checking of BackupChain, with a record of what the code does not  *)
(* exclude and chains or restores cannot stand: backups of the machine     *)
(* that overlap, removals that fail, deletions by hand, and restores that  *)
(* replace each other's disks.  At most MaxBusy calls are under way at a   *)
(* time, whichever they are.                                               *)
(***************************************************************************)
EXTENDS BackupChain

CONSTANT MaxBusy  \* bound: calls under way at a time

VARIABLES
  mixed,       \* backups under way that have been so beside another
  spoilt,      \* points whose backup was mixed, or whose removal failed
  byHand,      \* the points made before the last deletion by hand are 1..byHand
  overwritten  \* restore -> the disks another has replaced since it did

hist == <<mixed, spoilt, byHand, overwritten>>

Writing(o)  == op[o].pc \in {"created", "polling", "verifying", "copying"}
Underway(o) == op[o].pc = "decided" \/ Writing(o)

\* The disk a restore replaces in this step.
Replaces(r) ==
  IF op[r].pc = "restoring" /\ op'[r].pc = "restoring" THEN op[r].todo \ op'[r].todo ELSE {}

Records ==
  /\ mixed' = {b \in Backups : Underway(b)' /\ (b \in mixed \/ \E a \in Backups \ {b} : Underway(a)')}
  /\ spoilt' = spoilt \cup {op'[b].point : b \in {a \in mixed' : Writing(a)'}}
                      \cup {op[c].point : c \in {d \in Deletes \cup Prunes : DeleteFails(d)}}
  /\ byHand' = IF \E d \in Deletes : op[d].pc = "idle" /\ op'[d].pc # "idle" THEN made ELSE byHand
  /\ overwritten' =
       [r \in Restores |->
          IF op'[r].pc = "idle" THEN {}
          ELSE (overwritten[r] \cup UNION {Replaces(s) : s \in Restores \ {r}}) \ op'[r].todo]

HInit == Init /\ mixed = {} /\ spoilt = {} /\ byHand = 0 /\ overwritten = [r \in Restores |-> {}]
HNext == Next /\ Records /\ Cardinality({o \in Call : op'[o].pc # "idle"}) <= MaxBusy
HSpec == HInit /\ [][HNext]_<<vars, hist>>
HFairSpec == HSpec /\ Fairness

\* The chain of a listed point is listed: retention (prune) never takes an
\* ancestor from under a point it keeps, from however stale a list it works and
\* wherever a crash stops it.  A chain can only break at a point of its own: one
\* whose backup overlapped another, one whose removal failed, or one that was
\* there when somebody deleted a point by hand.
UnspoiltChainsWhole ==
  \A p \in Listed : Chain(p) \cap (spoilt \cup 1..byHand) = {} => ChainListed(p)

\* A restore that reaches its last step has put its point on every disk of the
\* machine, but for the disks that another restore has replaced since it did.
RestoredUnlessOverwritten ==
  \A r \in Restores : op[r].pc = "redefining" =>
    \A d \in Disk \ overwritten[r] : content[d] = op[r].point

=============================================================================

------------------------------ MODULE ListPages ------------------------------
(***************************************************************************)
(* The list pages of the web app: machines, networks, storage pools, ISO   *)
(* images, tasks, backup points, backup schedules and users.  Each shows   *)
(* rows, a menu per row that depends on the row's state, a confirmation    *)
(* for what destroys something, and one slot (busy) that names the row     *)
(* whose call is under way.                                                *)
(*                                                                         *)
(* What is shown may be older than what the server has: history holds all  *)
(* states of the rows, shown is the index of the one the page has.  Module *)
(* Polling has the polls; here one lands with any state the server had.    *)
(* A call is sent, served and released in steps of its own.                *)
(***************************************************************************)
EXTENDS Naturals, Sequences

CONSTANTS
  Rows,         \* items of the page
  NoRow,        \* no item
  CallSlots,    \* bound: calls under way at once
  MaxChanges,   \* bound: changes of the server's state
  MaxFaults     \* bound: calls that fail, polls that do, and returns to the page

ASSUME ListPagesAssumption ==
  /\ NoRow \notin Rows
  /\ {MaxChanges, MaxFaults} \subseteq Nat

VARIABLES
  page,        \* the page that is open
  history,     \* the states of the rows, the newest last
  shown,       \* the position in history of what the page shows
  busy,        \* the row whose call is under way, as far as the page knows
  uploading,   \* the ISO page's upload under way
  dialog,      \* the confirmation that is open
  calls,       \* slot -> the call under way
  broken,      \* the page shows an error in place of its rows
  overlapped,  \* a call was sent while another row's was under way
  faults

listVars == <<page, history, shown, busy, uploading, dialog, calls, broken, overlapped, faults>>

Pages == {"machines", "networks", "pools", "isos", "tasks", "points", "schedules", "users"}

States(p) ==
  CASE p = "machines"  -> {"running", "paused", "stopping", "stopped", "absent"}
    [] p \in {"networks", "pools"} -> {"active", "inactive", "absent"}
    [] p = "tasks"     -> {"live", "ended"}
    [] p = "schedules" -> {"enabled", "disabled", "absent"}
    [] OTHER           -> {"present", "absent"}

AllStates == UNION {States(p) : p \in Pages}

Verbs == {"start", "shutdown", "reboot", "stop", "delete", "delete-disks", "refresh", "upload",
          "cancel", "restore", "backup", "toggle"}

\* A call remembers the state its row was shown with until it is served, and then
\* the version that has its effect.
CallRecord == [stage : {"sent", "done", "refused"}, row : Rows, verb : Verbs,
               seen : AllStates \cup {"any"}, effect : Nat, left : BOOLEAN]

NoCall   == [stage |-> "none"]
NoDialog == [row |-> NoRow]

ListTypeOK ==
  /\ page \in Pages
  /\ history \in Seq([Rows -> States(page)]) /\ Len(history) \in 1..(MaxChanges + 1)
  /\ shown \in 1..Len(history)
  /\ busy \in Rows \cup {NoRow}
  /\ uploading \in BOOLEAN
  /\ dialog \in [row : Rows, verb : Verbs, seen : States(page)] \cup {NoDialog}
  /\ calls \in [CallSlots -> CallRecord \cup {NoCall}]
  /\ broken \in BOOLEAN /\ overlapped \in BOOLEAN
  /\ faults \in 0..MaxFaults

Now == history[Len(history)]

-----------------------------------------------------------------------------
(***************************************************************************)
(* What the pages offer and ask for                                        *)
(***************************************************************************)

MutMachineOffers(s) ==
  CASE s = "running" -> {"shutdown", "reboot", "stop", "delete"}
    [] s \in {"stopped", "stopping"} -> {"start", "delete", "delete-disks"}
    [] OTHER -> {}

\* vmMenu: the API reports a machine that is stopping as stopped.
MachineOffers(s) ==
  CASE s = "running" -> {"shutdown", "reboot", "stop"}
    [] s \in {"stopped", "stopping"} -> {"start", "delete", "delete-disks"}
    [] OTHER -> {}

NetworkOffers(s) == IF s = "active" THEN {"stop"} ELSE {"start", "delete"}

PoolOffers(s) == {"delete"} \cup IF s = "active" THEN {"refresh"} ELSE {}

\* The button is there as long as the API says the task can be cancelled.
TaskOffers(s) == IF s = "live" THEN {"cancel"} ELSE {}

\* No deletion while an upload is under way.
IsoOffers == IF uploading THEN {} ELSE {"delete"}

\* The menu of a point; Backup Now is offered whatever points there are.
PointOffers == {"restore", "delete", "backup"}

ScheduleOffers == {"toggle", "delete"}

\* Any user but the own one.
UserOffers == {"delete"}

Offers(s) ==
  IF s = "absent" THEN {} ELSE
  CASE page = "machines"  -> MachineOffers(s)
    [] page = "networks"  -> NetworkOffers(s)
    [] page = "pools"     -> PoolOffers(s)
    [] page = "tasks"     -> TaskOffers(s)
    [] page = "isos"      -> IsoOffers
    [] page = "points"    -> PointOffers
    [] page = "schedules" -> ScheduleOffers
    [] page = "users"     -> UserOffers

\* What opens a confirmation first.
Confirmed(v) ==
  \/ page = "machines" /\ v \in {"stop", "delete", "delete-disks"}
  \/ page \in {"pools", "isos", "points", "schedules", "users"} /\ v \in {"delete", "restore"}

\* Pages where whatever is under way blocks all rows.
BlocksAll == page \in {"points", "schedules", "users"}

MutBlocked(r) == BlocksAll /\ busy # NoRow

\* Disabled while busy names the row.
Blocked(r) == busy = r \/ (BlocksAll /\ busy # NoRow)

-----------------------------------------------------------------------------
(***************************************************************************)
(* What the server does with a call                                        *)
(***************************************************************************)

\* The states in which libvirt's provider carries a machine's verb out; a
\* start of a machine that is stopping fails in libvirt.
MachineAccepts(v, s) ==
  CASE v = "start"    -> s \in {"paused", "stopped"}
    [] v = "shutdown" -> s \in {"running", "paused"}
    [] v = "reboot"   -> s = "running"
    [] v = "stop"     -> s # "stopped"
    [] OTHER          -> s \in {"stopped", "stopping"}

NetworkAccepts(v, s) == IF v = "stop" THEN s = "active" ELSE s = "inactive"

PoolAccepts(v, s) == v = "refresh" => s = "active"

Accepts(v, s) ==
  IF s = "absent" THEN v = "upload" ELSE
  CASE page = "machines" -> MachineAccepts(v, s)
    [] page = "networks" -> NetworkAccepts(v, s)
    [] page = "pools"    -> PoolAccepts(v, s)
    [] page = "tasks"    -> s = "live"
    [] OTHER             -> TRUE

\* What a verb makes of its row; the guest stops after a shutdown when it likes,
\* and a task that is cancelled ends when it notices.
After(v, s) ==
  CASE v \in {"delete", "delete-disks"} -> {"absent"}
    [] v = "start"    -> IF page = "machines" THEN {"running"} ELSE {"active"}
    [] v = "stop"     -> IF page = "machines" THEN {"stopped"} ELSE {"inactive"}
    [] v = "shutdown" -> {s, "stopping"}
    [] v = "upload"   -> {"present"}
    [] v = "cancel"   -> {s, "ended"}
    [] v = "toggle"   -> {"enabled", "disabled"} \ {s}
    [] OTHER          -> {s}

-----------------------------------------------------------------------------

ListInit ==
  /\ page \in Pages
  /\ history \in {<<f>> : f \in [Rows -> States(page)]}
  /\ shown = 1
  /\ busy = NoRow /\ uploading = FALSE /\ dialog = NoDialog
  /\ calls = [i \in CallSlots |-> NoCall]
  /\ broken = FALSE /\ overlapped = FALSE
  /\ faults = 0

\* The calls of this visit to the page.
Under(i) == calls[i] # NoCall /\ ~calls[i].left

\* setBusy and the request.
Sends(r, v, s) ==
  /\ \E i \in CallSlots :
       /\ calls[i] = NoCall
       /\ calls' = [calls EXCEPT ![i] =
            [stage |-> "sent", row |-> r, verb |-> v, seen |-> s, effect |-> 0, left |-> FALSE]]
  /\ overlapped' = (overlapped \/ \E i \in CallSlots : Under(i) /\ calls[i].verb # "upload"
                                                       /\ calls[i].row # r)
  /\ busy' = r

\* A row's menu: what must be confirmed opens the confirmation in place of any
\* other, the rest is sent.
Choose(r, v) ==
  /\ ~broken
  /\ v \in Offers(history[shown][r]) /\ ~Blocked(r)
  /\ IF Confirmed(v)
     THEN /\ dialog' = [row |-> r, verb |-> v, seen |-> history[shown][r]]
          /\ UNCHANGED <<busy, calls, overlapped>>
     ELSE Sends(r, v, history[shown][r]) /\ UNCHANGED dialog
  /\ UNCHANGED <<page, history, shown, uploading, broken, faults>>

\* Pages whose confirmation stays open until its call is over.
KeepsDialog == page \in {"machines", "isos", "users"}

\* The confirmation's button.  A deletion of a point or a schedule is sent only
\* for one that is still listed.
Confirm ==
  /\ ~broken /\ dialog # NoDialog /\ ~Blocked(dialog.row)
  /\ dialog' = IF KeepsDialog THEN dialog ELSE NoDialog
  /\ IF page \in {"points", "schedules"} /\ dialog.verb = "delete"
        /\ history[shown][dialog.row] = "absent"
     THEN UNCHANGED <<busy, calls, overlapped>>
     ELSE Sends(dialog.row, dialog.verb, dialog.seen)
  /\ UNCHANGED <<page, history, shown, uploading, broken, faults>>

\* The cross and the backdrop close it, but for a user's even while its call is
\* under way.
Cancel ==
  /\ dialog # NoDialog /\ ~(page = "users" /\ busy # NoRow)
  /\ dialog' = NoDialog
  /\ UNCHANGED <<page, history, shown, busy, uploading, calls, broken, overlapped, faults>>

\* One upload at a time, which does not take the busy slot.
Upload(r) ==
  /\ page = "isos" /\ ~uploading
  /\ uploading' = TRUE
  /\ \E i \in CallSlots :
       /\ calls[i] = NoCall
       /\ calls' = [calls EXCEPT ![i] =
            [stage |-> "sent", row |-> r, verb |-> "upload", seen |-> "any", effect |-> 0, left |-> FALSE]]
  /\ UNCHANGED <<page, history, shown, busy, dialog, broken, overlapped, faults>>

-----------------------------------------------------------------------------

Changes(r, s) ==
  IF s = Now[r] THEN UNCHANGED history
  ELSE Len(history) <= MaxChanges /\ history' = Append(history, [Now EXCEPT ![r] = s])

Served(i, stage) ==
  calls' = [calls EXCEPT ![i].stage = stage, ![i].seen = "any", ![i].effect = Len(history')]

\* The server carries the call out, or refuses it for the row's state.
ServeRow(i) ==
  /\ calls[i].stage = "sent"
  /\ LET c == calls[i]  s == Now[c.row] IN
       \/ /\ Accepts(c.verb, s)
          /\ \E n \in After(c.verb, s) : Changes(c.row, n)
          /\ Served(i, "done")
       \/ ~Accepts(c.verb, s) /\ UNCHANGED history /\ Served(i, "refused")
  /\ UNCHANGED <<page, shown, busy, uploading, dialog, broken, overlapped, faults>>

\* It fails, or its answer is lost, carried out or not.
FailRow(i) ==
  /\ calls[i].stage = "sent" /\ faults < MaxFaults
  /\ faults' = faults + 1
  /\ LET c == calls[i]  s == Now[c.row] IN
       \/ UNCHANGED history
       \/ Accepts(c.verb, s) /\ \E n \in After(c.verb, s) : Changes(c.row, n)
  /\ Served(i, "refused")
  /\ UNCHANGED <<page, shown, busy, uploading, dialog, broken, overlapped>>

\* The row changes for other reasons.
Drift(r, s) ==
  /\ s # Now[r]
  /\ Changes(r, s)
  /\ UNCHANGED <<page, shown, busy, uploading, dialog, calls, broken, overlapped, faults>>

-----------------------------------------------------------------------------

\* A poll lands, or the refresh of a call that is not awaited, or of the users
\* when one was created or had the password reset.
PollLands(v) ==
  /\ shown' = v /\ broken' = FALSE
  /\ UNCHANGED <<page, history, busy, uploading, dialog, calls, overlapped, faults>>

\* On two pages an error takes the place of the rows.
PollFails ==
  /\ page \in {"networks", "pools"} /\ faults < MaxFaults
  /\ faults' = faults + 1
  /\ broken' = TRUE
  /\ UNCHANGED <<page, history, shown, busy, uploading, dialog, calls, overlapped>>

\* A call that was carried out is followed by a refresh, asked after its answer;
\* the task and backup pages do not wait for it.
Refreshed(i) ==
  IF page \in {"tasks", "points", "schedules"} THEN UNCHANGED <<shown, broken>>
  ELSE \E v \in calls[i].effect..Len(history) : shown' = v /\ broken' = FALSE

\* finally: the slot is freed, whichever row it names by now, and where a
\* confirmation stays open it is closed, whichever it is by now.
Freed(i) ==
  IF calls[i].verb = "upload"
  THEN uploading' = FALSE /\ UNCHANGED <<busy, dialog>>
  ELSE /\ busy' = NoRow
       /\ dialog' = IF KeepsDialog THEN NoDialog ELSE dialog
       /\ UNCHANGED uploading

\* The answer lands on the page that sent the call, or on none.
Release(i) ==
  /\ calls[i].stage \in {"done", "refused"}
  /\ calls' = [calls EXCEPT ![i] = NoCall]
  /\ IF calls[i].left THEN UNCHANGED <<shown, broken, busy, uploading, dialog>>
     ELSE /\ Freed(i)
          /\ IF calls[i].stage = "done" THEN Refreshed(i) ELSE UNCHANGED <<shown, broken>>
  /\ UNCHANGED <<page, history, overlapped, faults>>

\* The page is left and opened again, or its error takes the ISO library away:
\* its state is gone, its calls go on.
Return ==
  /\ faults < MaxFaults
  /\ faults' = faults + 1
  /\ busy' = NoRow /\ uploading' = FALSE /\ dialog' = NoDialog /\ broken' = FALSE
  /\ overlapped' = FALSE
  /\ calls' = [i \in CallSlots |-> IF calls[i] = NoCall THEN NoCall ELSE [calls[i] EXCEPT !.left = TRUE]]
  /\ shown' = Len(history)
  /\ UNCHANGED <<page, history>>

ListNext ==
  \/ \E r \in Rows :
       \/ \E v \in Verbs : Choose(r, v)
       \/ Upload(r)
       \/ \E s \in States(page) : Drift(r, s)
  \/ Confirm \/ Cancel \/ PollFails \/ Return
  \/ \E i \in CallSlots : ServeRow(i) \/ FailRow(i) \/ Release(i)
  \/ \E v \in 1..Len(history) : PollLands(v)

ListSpec == ListInit /\ [][ListNext]_listVars

-----------------------------------------------------------------------------
(***************************************************************************)
(* Properties                                                              *)
(***************************************************************************)

RowCall(i) == Under(i) /\ calls[i].verb # "upload"

\* A row has two calls of one visit under way only after two rows had: one slot
\* is enough for calls one after the other, and the last call to be sent, or to
\* return, frees the others' rows.  Where it blocks every row no two calls are
\* ever under way.
OneCallPerRow ==
  /\ ~overlapped => \A i, j \in CallSlots : RowCall(i) /\ RowCall(j) => i = j
  /\ BlocksAll => ~overlapped

\* What a menu offers is what the server accepts: a call is refused for its
\* row's state only if that changed after the menu was shown, or for a machine
\* that is stopping, which the API reports as stopped (stateToModel).
RefusedOnlyStale ==
  [][\A i \in CallSlots :
       calls[i].stage = "sent" /\ calls'[i].stage = "refused" /\ faults' = faults
       /\ calls[i].verb # "upload" =>
         Now[calls[i].row] \notin {calls[i].seen} \ {"stopping"}]_listVars

=============================================================================

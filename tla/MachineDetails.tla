---------------------------- MODULE MachineDetails ----------------------------
(***************************************************************************)
(* The page of one machine (pages/VMDetails.tsx): the machine the address  *)
(* names and the one the last poll brought, the power and delete calls,    *)
(* the form of the settings tab, and the metrics that the overview collects*)
(* (components/LiveCharts.tsx).                                            *)
(*                                                                         *)
(* The page stays mounted when the browser's history goes from one machine *)
(* straight to another, and its parts learn of it at different times.      *)
(* Module Polling has overlapping polls; here one is under way at a time.  *)
(***************************************************************************)
EXTENDS Naturals, Sequences

CONSTANTS
  Machines,
  NoMachine,
  Sizes,       \* memory sizes in units that the form shows two of as one
  MaxPoints,   \* metric samples that are kept
  Tick,        \* bound: metric requests under way at once
  MaxMoves,    \* bound: moves of the browser between pages
  MaxEvents    \* bound: calls, changes of machines that others make, and failures

ASSUME MachineDetailsAssumption ==
  /\ NoMachine \notin Machines
  /\ Sizes \subseteq Nat /\ \A s \in Sizes : s + (s % 2) \in Sizes
  /\ {MaxPoints, MaxMoves, MaxEvents} \subseteq Nat

VARIABLES
  server,     \* machine -> its state and configuration
  routeId,    \* the machine of the address, none when another page is open
  vm,         \* what the last poll brought, and of which machine
  polled,     \* the answer of the poll under way
  pageError,  \* the page shows an error in place of everything
  tab,
  confirm,    \* the confirmation that is open
  act,        \* the power or delete call under way
  form,       \* the settings tab's fields, when it is mounted
  save,       \* the settings call under way
  samples,    \* the machine of each metric sample that the charts show
  buf,        \* the same for the buffer they are taken from
  ticks,      \* metric requests under way
  moves, events

detailsVars == <<server, routeId, vm, polled, pageError, tab, confirm, act, form, save, samples,
                 buf, ticks, moves, events>>

Fields  == {"memory", "iso"}
Offline == {"memory"}          \* the server changes them for a stopped machine only

Values(f) == IF f = "memory" THEN Sizes ELSE {0, 1}
Machine   == [state : {"running", "paused", "stopped", "gone"}, memory : Sizes, iso : {0, 1}]
View      == [of : Machines, state : {"running", "paused", "stopped"}, memory : Sizes, iso : {0, 1}]
Acts      == {"start", "shutdown", "reboot", "stop", "delete", "delete-disks"}

None  == [at |-> "none"]

\* A form has the value of each field, the view it was opened with and the fields
\* the user edited.
Form == [value : [Fields -> Nat], opened : View, touched : SUBSET Fields]

DetailsTypeOK ==
  /\ server \in [Machines -> Machine]
  /\ routeId \in Machines \cup {NoMachine}
  /\ vm \in View \cup {None}
  /\ polled \in View \cup {None} \cup [at : {"failed"}]
  /\ pageError \in BOOLEAN
  /\ tab \in {"overview", "settings", "other"}
  /\ confirm \in {"none", "stop", "delete", "delete-disks"}
  /\ act \in {None} \cup [at : {"sent", "done", "failed"}, of : Machines, verb : Acts, left : BOOLEAN]
  /\ form \in Form \cup {None}
  /\ save \in {None} \cup [at : {"sent", "done"}, of : Machines, body : SUBSET Fields, value : [Fields -> Nat],
                           free : SUBSET Fields, left : BOOLEAN]
  /\ samples \in Seq(Machines) /\ buf \in Seq(Machines) /\ Len(buf) <= MaxPoints
  /\ ticks \in [Tick -> {None} \cup [of : Machines, alive : BOOLEAN]]
  /\ moves \in 0..MaxMoves /\ events \in 0..MaxEvents

\* The page has something to show.
Shows == routeId # NoMachine /\ vm # None /\ ~pageError

-----------------------------------------------------------------------------

\* Memory is shown in GiB with two decimals, and read back from there.
Rounded(f, v) == IF f = "memory" THEN v + (v % 2) ELSE v

OpenForm(v) == [value |-> [f \in Fields |-> Rounded(f, v[f])], opened |-> v, touched |-> {}]

\* What becomes of the parts of the page when it shows v in place of vm: the
\* settings tab is mounted, or stays, with its fields, as another view is passed
\* to it; the metric history starts anew for another machine.
Parts(v, t, anew) ==
  /\ form' = IF v = None \/ t # "settings" THEN None
             ELSE IF anew \/ form = None THEN OpenForm(v) ELSE form
  /\ IF v = None \/ t # "overview" \/ anew
     THEN /\ samples' = <<>> /\ buf' = <<>>
          /\ ticks' = [k \in Tick |-> None]
     ELSE IF vm # None /\ v.of # vm.of
     THEN /\ buf' = <<>>
          /\ ticks' = [k \in Tick |-> IF ticks[k] = None THEN None ELSE [ticks[k] EXCEPT !.alive = FALSE]]
          /\ UNCHANGED samples
     ELSE UNCHANGED <<samples, buf, ticks>>
  /\ save' = IF save # None /\ form' = None THEN [save EXCEPT !.left = TRUE] ELSE save

DetailsInit ==
  /\ server \in [Machines -> Machine] /\ \A m \in Machines : server[m].state # "gone"
  /\ routeId = NoMachine
  /\ vm = None /\ polled = None /\ pageError = FALSE
  /\ tab = "overview" /\ confirm = "none"
  /\ act = None /\ form = None /\ save = None
  /\ samples = <<>> /\ buf = <<>> /\ ticks = [k \in Tick |-> None]
  /\ moves = 0 /\ events = 0

\* The page is opened, or another one is.
Visit(m) ==
  /\ m # routeId /\ moves < MaxMoves
  /\ (routeId # NoMachine => m = NoMachine)
  /\ moves' = moves + 1
  /\ routeId' = m
  /\ vm' = None /\ polled' = None /\ pageError' = FALSE
  /\ tab' = "overview" /\ confirm' = "none"
  /\ act' = IF act = None THEN None ELSE [act EXCEPT !.left = TRUE]
  /\ Parts(None, "overview", TRUE)
  /\ UNCHANGED <<server, events>>

\* The browser's history goes straight to another machine: the route is the same,
\* so the page stays mounted, and nothing but the address it will poll changes.
Jump(m) ==
  /\ routeId # NoMachine /\ m \in Machines \ {routeId} /\ moves < MaxMoves
  /\ moves' = moves + 1
  /\ routeId' = m
  /\ UNCHANGED <<server, vm, polled, pageError, tab, confirm, act, form, save, samples, buf, ticks,
                 events>>

ChooseTab(t) ==
  /\ Shows /\ t # tab
  /\ tab' = t
  /\ Parts(vm, t, TRUE)
  /\ UNCHANGED <<server, routeId, vm, polled, pageError, confirm, act, moves, events>>

-----------------------------------------------------------------------------
(***************************************************************************)
(* Polls                                                                   *)
(***************************************************************************)

\* What the API says of a machine, one that is gone being an error.
Answer(m) ==
  IF server[m].state = "gone" THEN [at |-> "failed"]
  ELSE [of |-> m, state |-> server[m].state, memory |-> server[m].memory, iso |-> server[m].iso]

PollMachine ==
  /\ routeId # NoMachine /\ polled = None
  /\ polled' = Answer(routeId)
  /\ UNCHANGED <<server, routeId, vm, pageError, tab, confirm, act, form, save, samples, buf, ticks,
                 moves, events>>

\* What landing an answer does to the page: an error takes the place of all of
\* it, and the tabs lose what they had.
Shown(a) ==
  IF a = [at |-> "failed"]
  THEN pageError' = TRUE /\ UNCHANGED vm /\ Parts(None, tab, FALSE)
  ELSE pageError' = FALSE /\ vm' = a /\ Parts(a, tab, pageError \/ vm = None)

PollLanded ==
  /\ polled # None
  /\ polled' = None
  /\ Shown(polled)
  /\ UNCHANGED <<server, routeId, tab, confirm, act, moves, events>>

PollLost ==
  /\ polled # None /\ polled # [at |-> "failed"] /\ events < MaxEvents
  /\ events' = events + 1
  /\ polled' = [at |-> "failed"]
  /\ UNCHANGED <<server, routeId, vm, pageError, tab, confirm, act, form, save, samples, buf, ticks,
                 moves>>

\* Others change a machine.
MachineDrifts(m) ==
  /\ events < MaxEvents
  /\ events' = events + 1
  /\ server[m].state # "gone"
  /\ \/ \E n \in {"running", "paused", "stopped", "gone"} \ {server[m].state} :
          server' = [server EXCEPT ![m].state = n]
     \/ \E f \in Fields : \E v \in Values(f) \ {server[m][f]} : server' = [server EXCEPT ![m][f] = v]
  /\ UNCHANGED <<routeId, vm, polled, pageError, tab, confirm, act, form, save, samples, buf, ticks,
                 moves>>

-----------------------------------------------------------------------------
(***************************************************************************)
(* Power and deletion                                                      *)
(***************************************************************************)

BusyDetails == act # None /\ ~act.left

\* What the buttons and the menu offer: deletion of whatever does not run, a
\* paused machine too, and nothing else for a paused one.
DetailsOffers(state) ==
  CASE state = "running" -> {"shutdown", "reboot", "stop"}
    [] state = "stopped" -> {"start", "delete", "delete-disks"}
    [] OTHER             -> {"delete", "delete-disks"}

\* The call goes to the machine of the address.
SendAct(v) ==
  /\ act = None /\ events < MaxEvents
  /\ events' = events + 1
  /\ act' = [at |-> "sent", of |-> routeId, verb |-> v, left |-> FALSE]

Press(v) ==
  /\ Shows /\ ~BusyDetails /\ v \in DetailsOffers(vm.state)
  /\ IF v \in {"stop", "delete", "delete-disks"} THEN confirm' = v /\ UNCHANGED <<act, events>>
     ELSE SendAct(v) /\ UNCHANGED confirm
  /\ UNCHANGED <<server, routeId, vm, polled, pageError, tab, form, save, samples, buf, ticks, moves>>

ConfirmAct ==
  /\ Shows /\ ~BusyDetails /\ confirm # "none"
  /\ SendAct(confirm)
  /\ UNCHANGED <<server, routeId, vm, polled, pageError, tab, confirm, form, save, samples, buf, ticks,
                 moves>>

CancelAct ==
  /\ Shows /\ confirm # "none"
  /\ confirm' = "none"
  /\ UNCHANGED <<server, routeId, vm, polled, pageError, tab, act, form, save, samples, buf, ticks,
                 moves, events>>

\* The server carries it out, where the machine's state allows it.
ServeAct ==
  /\ act # None /\ act.at = "sent"
  /\ LET s == server[act.of].state
         n == CASE act.verb = "start" /\ s \in {"stopped", "paused"} -> "running"
                [] act.verb \in {"stop", "shutdown"} /\ s \in {"running", "paused"} -> "stopped"
                [] act.verb = "reboot" /\ s = "running" -> "running"
                [] act.verb \in {"delete", "delete-disks"} /\ s = "stopped" -> "gone"
                [] OTHER -> "refused"
     IN IF n = "refused" THEN act' = [act EXCEPT !.at = "failed"] /\ UNCHANGED server
        ELSE act' = [act EXCEPT !.at = "done"] /\ server' = [server EXCEPT ![act.of].state = n]
  /\ UNCHANGED <<routeId, vm, polled, pageError, tab, confirm, form, save, samples, buf, ticks, moves,
                 events>>

\* The answer: after a deletion the page is left, after a power call it shows
\* what a new request for the address's machine brings.
LandAct ==
  /\ act # None /\ act.at # "sent"
  /\ act' = None
  /\ IF act.left
     THEN UNCHANGED <<routeId, vm, polled, pageError, tab, confirm, form, save, samples, buf, ticks>>
     ELSE /\ confirm' = "none"
          /\ IF act.at = "done" /\ act.verb \in {"delete", "delete-disks"}
             THEN /\ routeId' = NoMachine /\ vm' = None /\ polled' = None /\ pageError' = FALSE
                  /\ tab' = "overview"
                  /\ Parts(None, "overview", TRUE)
             ELSE /\ IF act.at = "done" THEN Shown(Answer(routeId))
                     ELSE UNCHANGED <<vm, pageError, form, save, samples, buf, ticks>>
                  /\ UNCHANGED <<routeId, polled, tab>>
  /\ UNCHANGED <<server, moves, events>>

-----------------------------------------------------------------------------
(***************************************************************************)
(* The settings tab                                                        *)
(***************************************************************************)

Saving == save # None /\ ~save.left

Touch(f, v) ==
  /\ form # None /\ ~Saving /\ v \in Values(f) /\ Rounded(f, v) = v
  /\ f \in Offline => vm.state = "stopped"
  /\ form' = [form EXCEPT !.value[f] = v, !.touched = @ \cup {f}]
  /\ UNCHANGED <<server, routeId, vm, polled, pageError, tab, confirm, act, save, samples, buf, ticks,
                 moves, events>>

MutDirty(v) == Fields

\* A field is sent when it differs from the last poll's.
Dirty(v) == {f \in Fields : form.value[f] # v[f]}

\* What a save may well change: what the user edited, what the page has shown
\* another value of since the tab was opened, and what the form cannot show.
Free == form.touched \cup {f \in Fields : vm[f] # form.opened[f] \/ Rounded(f, vm[f]) # vm[f]}

SaveSettings ==
  /\ form # None /\ save = None /\ Dirty(vm) # {} /\ events < MaxEvents
  /\ events' = events + 1
  /\ save' = [at |-> "sent", of |-> vm.of, body |-> Dirty(vm), value |-> form.value,
              free |-> Free, left |-> FALSE]
  /\ UNCHANGED <<server, routeId, vm, polled, pageError, tab, confirm, act, form, samples, buf, ticks,
                 moves>>

\* What only a stopped machine can change comes first and is refused for another;
\* what fails, for whatever reason, leaves what came before it.
ServeSave ==
  /\ save # None /\ save.at = "sent"
  /\ save' = [save EXCEPT !.at = "done"]
  /\ LET s == server[save.of] IN
       IF s.state = "gone" \/ (s.state # "stopped" /\ save.body \cap Offline # {}) THEN UNCHANGED server
       ELSE \E applied \in {{}, save.body \cap Offline, save.body} :
              server' = [server EXCEPT
                ![save.of] = [f \in DOMAIN s |-> IF f \in applied THEN save.value[f] ELSE s[f]]]
  /\ UNCHANGED <<routeId, vm, polled, pageError, tab, confirm, act, form, samples, buf, ticks, moves,
                 events>>

\* The refresh that follows a save is a poll like any other.
LandSave ==
  /\ save # None /\ save.at = "done"
  /\ save' = None
  /\ UNCHANGED <<server, routeId, vm, polled, pageError, tab, confirm, act, form, samples, buf, ticks,
                 moves, events>>

-----------------------------------------------------------------------------
(***************************************************************************)
(* Metrics                                                                 *)
(***************************************************************************)

AskMetrics(k) ==
  /\ Shows /\ tab = "overview" /\ ticks[k] = None
  /\ ticks' = [ticks EXCEPT ![k] = [of |-> vm.of, alive |-> TRUE]]
  /\ UNCHANGED <<server, routeId, vm, polled, pageError, tab, confirm, act, form, save, samples, buf,
                 moves, events>>

MutCounts(k) == TRUE

\* The effect that asked has not been cleaned up.
Counts(k) == ticks[k].alive

MutLastPoints(s) == s

LastPoints(s) == IF Len(s) > MaxPoints THEN SubSeq(s, Len(s) - MaxPoints + 1, Len(s)) ELSE s

\* A sample is added; a request that failed adds none.
MetricsLand(k) ==
  /\ ticks[k] # None
  /\ ticks' = [ticks EXCEPT ![k] = None]
  /\ IF Counts(k) /\ server[ticks[k].of].state # "gone"
     THEN buf' = LastPoints(Append(buf, ticks[k].of)) /\ samples' = buf'
     ELSE UNCHANGED <<buf, samples>>
  /\ UNCHANGED <<server, routeId, vm, polled, pageError, tab, confirm, act, form, save, moves,
                 events>>

DetailsNext ==
  \/ \E m \in Machines \cup {NoMachine} : Visit(m) \/ Jump(m)
  \/ \E t \in {"overview", "settings", "other"} : ChooseTab(t)
  \/ PollMachine \/ PollLanded \/ PollLost
  \/ \E m \in Machines : MachineDrifts(m)
  \/ \E v \in Acts : Press(v)
  \/ ConfirmAct \/ CancelAct \/ ServeAct \/ LandAct
  \/ \E f \in Fields : \E v \in Values(f) : Touch(f, v)
  \/ SaveSettings \/ ServeSave \/ LandSave
  \/ \E k \in Tick : AskMetrics(k) \/ MetricsLand(k)

DetailsSpec == DetailsInit /\ [][DetailsNext]_detailsVars

-----------------------------------------------------------------------------
(***************************************************************************)
(* Properties                                                              *)
(***************************************************************************)

\* A save changes only what the user edited, or the page has shown another value
\* of while the form was open, or the form rounds.  So it undoes a change that
\* others made only when the page has shown that change, not when it has not.
UndoesOnlySeen ==
  [][\A m \in Machines : \A f \in Fields :
       save # None /\ save.at = "sent" /\ save' # None /\ save'.at = "done"
       /\ server'[m][f] # server[m][f] => m = save.of /\ f \in save.free]_detailsVars

\* The charts never mix machines, and the buffer they grow from is the shown
\* machine's, however late the answers to the last machine's requests come.
HistoryOfOneMachine ==
  /\ \A i, j \in DOMAIN samples : samples[i] = samples[j]
  /\ \A i \in DOMAIN buf : vm # None /\ buf[i] = vm.of

=============================================================================

-------------------------------- MODULE WebApp --------------------------------
(***************************************************************************)
(* The web app: one screen is followed at a time, chosen at the start, the *)
(* session across its tabs being one of them.  The screens share no state  *)
(* but the server's, which each module models as far as it is shown there. *)
(*                                                                         *)
(* The instance is small enough for TLC: which of the screens' steps it    *)
(* leaves out is said where they are left out.                             *)
(***************************************************************************)
EXTENDS Session, ListPages, Polling, MachineDetails, ConsolePanel, Forms, TLC

CONSTANTS t1, t2, r1, r2, m1, m2, item1, item2

VARIABLE screen

webVars == <<screen, sessionVars, listVars, pollingVars, detailsVars, consoleVars, formVars>>

MCTabs == {t1, t2}

\* One tab is opened at the sign-in page or the shell, the other at the console.
MCUses == (t1 :> {"login", "shell"}) @@ (t2 :> {"console"})

Screens == {"session", "list", "polling", "machine", "console", "form"}

\* The variables of the other screens have any one initial value.
WebInit ==
  /\ screen \in Screens
  /\ SessionInit /\ ListInit /\ PollingInit /\ DetailsInit /\ ConsoleInit /\ FormsInit
  /\ screen # "session" => route[t1] = "login"
  /\ screen # "polling" => polls[1] # NoPoll
  /\ screen # "console" => graphical /\ vmRunning
  /\ screen # "form"    => formKind = "vm"
  /\ IF screen = "list"
     THEN history[1][r2] \in {"paused", "active", "live", "present", "enabled"}
     ELSE page = "tasks" /\ \A r \in Rows : history[1][r] = "live"
  /\ server = (m1 :> [state |-> "running", memory |-> 1, iso |-> 0])
           @@ (m2 :> [state |-> "stopped", memory |-> 2, iso |-> 0])

\* The second tab does not sign in itself.  The first token is ann's, the users
\* being interchangeable.
SessionStep ==
  /\ SessionNext
  /\ request'[t2]["login"] = NoRequest
  /\ tokens = <<>> => request'[t1]["login"].by # "bob"

\* The machine's page has no power or delete call under way together with a form
\* or a metric request, nor a save with a metric request, and of the machines
\* others change one.
MachineStep ==
  /\ DetailsNext
  /\ act' # None => form' = None /\ save' = None
  /\ act' # None \/ save' # None => \A k \in Tick : ticks'[k] = None
  /\ server'[m2] # server[m2] => act # None \/ save # None

\* One schedule to edit is enough, as nothing ties the form to it.
FormStep == FormsNext /\ (formKind = "schedule" => formTarget' # item2)

WebNext ==
  \/ /\ screen = "session" /\ SessionStep
     /\ UNCHANGED <<screen, listVars, pollingVars, detailsVars, consoleVars, formVars>>
  \/ /\ screen = "list" /\ ListNext
     /\ UNCHANGED <<screen, sessionVars, pollingVars, detailsVars, consoleVars, formVars>>
  \/ /\ screen = "polling" /\ PollingNext
     /\ UNCHANGED <<screen, sessionVars, listVars, detailsVars, consoleVars, formVars>>
  \/ /\ screen = "machine" /\ MachineStep
     /\ UNCHANGED <<screen, sessionVars, listVars, pollingVars, consoleVars, formVars>>
  \/ /\ screen = "console" /\ ConsoleNext
     /\ UNCHANGED <<screen, sessionVars, listVars, pollingVars, detailsVars, formVars>>
  \/ /\ screen = "form" /\ FormStep
     /\ UNCHANGED <<screen, sessionVars, listVars, pollingVars, detailsVars, consoleVars>>

\* Pages poll every few seconds as long as they are open; a request is answered,
\* or fails, and its answer lands; timers fire, and noVNC reports.
WebFairness ==
  /\ \A t \in Tabs :
       /\ WF_sessionVars(screen = "session" /\ PollPage(t))
       /\ WF_sessionVars(screen = "session" /\ Answers(t))
       /\ WF_sessionVars(screen = "session" /\ Landings(t))
  /\ WF_pollingVars(screen = "polling" /\ Interval)
  /\ \A i \in PollSlots :
       /\ WF_pollingVars(screen = "polling" /\ AnswerPoll(i))
       /\ WF_pollingVars(screen = "polling" /\ LandPoll(i))
  /\ WF_consoleVars(screen = "console" /\ PreflightLands)
  /\ WF_consoleVars(screen = "console" /\ Connect)
  /\ WF_consoleVars(screen = "console" /\ RetryFires)
  /\ WF_consoleVars(screen = "console" /\ \E c \in Connection : Connected(c) \/ Ended(c))

WebSpec == WebInit /\ [][WebNext]_webVars /\ WebFairness

-----------------------------------------------------------------------------
(***************************************************************************)
(* Properties                                                              *)
(***************************************************************************)

\* The types of all screens.
WebTypeOK ==
  /\ screen \in Screens
  /\ SessionTypeOK /\ ListTypeOK /\ PollingTypeOK /\ DetailsTypeOK /\ ConsoleTypeOK /\ FormsTypeOK

\* usePolling: when the server and the user stop changing things the page ends
\* up, and stays, with the newest data of what is selected, and without error,
\* although polls overlap and land in any order.
ShownSettles == <>[](screen # "polling" \/ UpToDate)

\* "Console disconnected - retrying...": when the machine's state and the other
\* end stop changing, a console that is open and that the machine has ends up
\* connected, unless the other end closed the last connection cleanly.
ConsoleComesBack == <>[](screen # "console" \/ ConsoleBack)

=============================================================================

---------------------------- MODULE ConsolePanel ----------------------------
(***************************************************************************)
(* The graphical console of a machine (components/ConsolePanel.tsx): the   *)
(* preflight request that finds out whether there is one, the effect that  *)
(* connects after a short delay, the retries after a connection was lost,  *)
(* and the events of noVNC's connections, which outlive the effect that    *)
(* made them.                                                              *)
(*                                                                         *)
(* noVNC's RFB object is modelled from how the panel uses it: it connects, *)
(* or is closed by the other end, cleanly or not, and after disconnect it  *)
(* reports a clean end some time later.                                    *)
(***************************************************************************)
EXTENDS Naturals

CONSTANTS
  MaxConnections,  \* bound: connections ever made
  MaxDrops,        \* bound: connections the other end closes
  MaxFlips         \* bound: changes of the shown state, and openings of the panel

ASSUME ConsolePanelAssumption == {MaxConnections, MaxDrops, MaxFlips} \subseteq Nat

VARIABLES
  graphical,    \* the machine has a graphics device
  panelOpen,    \* the panel is mounted
  vmRunning,    \* the machine is shown as running
  unavailable,  \* the panel says that there is no console
  preflight,    \* a preflight whose answer still counts is under way
  delay,        \* the effect's delay before it connects is running
  rfb,          \* connection -> its state
  current,      \* rfbRef: the connection keys are sent to, 0 for none
  consoleStatus,
  retries,      \* retry timers that run; none is ever cleared
  hungUp,       \* the last connection was closed cleanly by the other end
  drops, flips

consoleVars == <<graphical, panelOpen, vmRunning, unavailable, preflight, delay, rfb, current,
                 consoleStatus, retries, hungUp, drops, flips>>

Connection == 1..MaxConnections

ConsoleTypeOK ==
  /\ {graphical, panelOpen, vmRunning, unavailable, preflight, delay, hungUp} \subseteq BOOLEAN
  /\ rfb \in [Connection -> {"none", "connecting", "connected", "closing", "closed"}]
  /\ current \in 0..MaxConnections
  /\ consoleStatus \in {"connecting", "connected", "disconnected"}
  /\ retries \in 0..MaxDrops /\ drops \in 0..MaxDrops
  /\ flips \in 0..MaxFlips

Live(c) == rfb[c] \in {"connecting", "connected"}

\* Whether the connect effect does anything, and its screen is there.
Connects(open, running, none) == open /\ running /\ ~none

ConsoleInit ==
  /\ graphical \in BOOLEAN /\ vmRunning \in BOOLEAN
  /\ panelOpen = TRUE /\ unavailable = FALSE
  /\ preflight = vmRunning /\ delay = vmRunning
  /\ rfb = [c \in Connection |-> "none"] /\ current = 0
  /\ consoleStatus = IF vmRunning THEN "connecting" ELSE "disconnected"
  /\ retries = 0 /\ hungUp = FALSE
  /\ drops = 0 /\ flips = 0

-----------------------------------------------------------------------------

MutClosed == rfb

\* The cleanup of the connect effect disconnects the connection it made.
Closed == [c \in Connection |-> IF c = current /\ Live(c) THEN "closing" ELSE rfb[c]]

\* The connect effect is cleaned up and run again: its delay starts anew.
Reconnects(open, running, none) ==
  /\ rfb' = Closed /\ current' = 0
  /\ delay' = Connects(open, running, none)
  /\ consoleStatus' = IF Connects(open, running, none) THEN "connecting" ELSE consoleStatus
  /\ hungUp' = FALSE

\* The shown state of the machine changes: the preflight is repeated, and an
\* answer to the one before does not count any more.
RunningFlips ==
  /\ panelOpen /\ flips < MaxFlips
  /\ flips' = flips + 1
  /\ vmRunning' = ~vmRunning
  /\ preflight' = vmRunning'
  /\ Reconnects(TRUE, vmRunning', unavailable)
  /\ UNCHANGED <<graphical, panelOpen, unavailable, retries, drops>>

\* Another tab is chosen, or the page is left or shows an error.
ClosePanel ==
  /\ panelOpen
  /\ panelOpen' = FALSE /\ preflight' = FALSE
  /\ Reconnects(FALSE, vmRunning, unavailable)
  /\ UNCHANGED <<graphical, vmRunning, unavailable, retries, drops, flips>>

OpenPanel ==
  /\ ~panelOpen /\ flips < MaxFlips
  /\ flips' = flips + 1
  /\ panelOpen' = TRUE /\ unavailable' = FALSE
  /\ preflight' = vmRunning /\ delay' = vmRunning
  /\ consoleStatus' = IF vmRunning THEN "connecting" ELSE "disconnected"
  /\ hungUp' = FALSE
  /\ UNCHANGED <<graphical, vmRunning, rfb, current, retries, drops>>

\* The endpoint says that the machine has no console; any other answer, or
\* none, means that it may have one, and one conflict of another kind nothing.
PreflightLands ==
  /\ preflight
  /\ preflight' = FALSE
  /\ \E none \in {~graphical, unavailable} :
       /\ unavailable' = none
       /\ IF none # unavailable THEN Reconnects(panelOpen, vmRunning, none)
          ELSE UNCHANGED <<rfb, current, delay, consoleStatus, hungUp>>
  /\ UNCHANGED <<graphical, panelOpen, vmRunning, retries, drops, flips>>

\* The delay is over.
Connect ==
  /\ delay
  /\ delay' = FALSE
  /\ \E c \in Connection :
       /\ rfb[c] = "none" /\ \A d \in Connection : d < c => rfb[d] # "none"
       /\ rfb' = [rfb EXCEPT ![c] = "connecting"]
       /\ current' = c
  /\ UNCHANGED <<graphical, panelOpen, vmRunning, unavailable, preflight, consoleStatus, retries,
                 hungUp, drops, flips>>

-----------------------------------------------------------------------------
(***************************************************************************)
(* Events                                                                  *)
(***************************************************************************)

Connected(c) ==
  /\ rfb[c] = "connecting" /\ graphical
  /\ rfb' = [rfb EXCEPT ![c] = "connected"]
  /\ consoleStatus' = "connected"
  /\ UNCHANGED <<graphical, panelOpen, vmRunning, unavailable, preflight, delay, current, retries,
                 hungUp, drops, flips>>

MutRetryAfter(clean) == UNCHANGED retries

\* Only an unclean end is retried.
RetryAfter(clean) == retries' = IF clean THEN retries ELSE retries + 1

\* The other end closes a connection, cleanly only once it was there.
Dropped(c, clean) ==
  /\ Live(c) /\ (clean => rfb[c] = "connected")
  /\ drops < MaxDrops
  /\ drops' = drops + 1
  /\ rfb' = [rfb EXCEPT ![c] = "closed"]
  /\ consoleStatus' = "disconnected"
  /\ RetryAfter(clean)
  /\ hungUp' = clean
  /\ UNCHANGED <<graphical, panelOpen, vmRunning, unavailable, preflight, delay, current, flips>>

\* A connection that was disconnected reports its end, whatever came after it.
Ended(c) ==
  /\ rfb[c] = "closing"
  /\ rfb' = [rfb EXCEPT ![c] = "closed"]
  /\ consoleStatus' = IF panelOpen THEN "disconnected" ELSE consoleStatus
  /\ UNCHANGED <<graphical, panelOpen, vmRunning, unavailable, preflight, delay, current, retries,
                 hungUp, drops, flips>>

\* A retry timer, of any connection lost so far, runs the connect effect again.
RetryFires ==
  /\ retries > 0
  /\ retries' = retries - 1
  /\ IF panelOpen THEN Reconnects(TRUE, vmRunning, unavailable)
     ELSE UNCHANGED <<rfb, current, delay, consoleStatus, hungUp>>
  /\ UNCHANGED <<graphical, panelOpen, vmRunning, unavailable, preflight, drops, flips>>

ConsoleNext ==
  \/ RunningFlips \/ ClosePanel \/ OpenPanel \/ PreflightLands \/ Connect \/ RetryFires
  \/ \E c \in Connection :
       Connected(c) \/ Ended(c) \/ \E clean \in BOOLEAN : Dropped(c, clean)

ConsoleSpec == ConsoleInit /\ [][ConsoleNext]_consoleVars

-----------------------------------------------------------------------------
(***************************************************************************)
(* Properties                                                              *)
(***************************************************************************)

\* However effects, retries and late events interleave, at most one connection
\* of the panel is alive, and when the panel says connected it is that one, and
\* the one Ctrl+Alt+Del goes to.
OneLiveConsole ==
  /\ \A c \in Connection : Live(c) => c = current
  /\ Connects(panelOpen, vmRunning, unavailable) /\ consoleStatus = "connected" =>
       current # 0 /\ rfb[current] = "connected"

\* "Console disconnected - retrying...": while the machine is shown running the
\* panel gets its connection back, unless the other end closed the last one
\* cleanly, which nothing retries.
ConsoleBack ==
  Connects(panelOpen, vmRunning, unavailable) /\ graphical =>
    hungUp \/ \E c \in Connection : rfb[c] = "connected"

=============================================================================

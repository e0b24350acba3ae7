------------------------------- MODULE Polling -------------------------------
(***************************************************************************)
(* usePolling (lib/hooks.ts), the hook through which every page of the web *)
(* app keeps what it shows fresh, on a page whose loader depends on a      *)
(* selection (the machine of Backups, the status filter of Tasks).         *)
(*                                                                         *)
(* A poll is asked with the loader of that moment, answered with what the  *)
(* server has at another, and lands at a third; nothing orders the polls   *)
(* under way, and nothing ties an answer to the selection it lands on.     *)
(* What the server has is a version number.                                *)
(***************************************************************************)
EXTENDS Naturals

CONSTANTS
  Selections,    \* what can be selected
  NoSelection,   \* nothing to select yet
  PollSlots,     \* bound: polls under way at once
  MaxVersions,   \* bound: versions of the server's data
  MaxSelects,    \* bound: changes of the selection
  MaxMisses,     \* bound: polls that fail
  MaxVisits      \* bound: times the page is opened

ASSUME PollingAssumption ==
  /\ NoSelection \notin Selections
  /\ {MaxVersions, MaxVisits} \subseteq Nat \ {0}
  /\ {MaxSelects, MaxMisses} \subseteq Nat

VARIABLES
  version,   \* the version the server has
  selected,  \* the current selection
  polls,     \* slot -> the poll under way
  data,      \* what the page shows
  error,     \* the last poll to land had failed
  selects, misses, visits  \* counters of the bounds

pollingVars == <<version, selected, polls, data, error, selects, misses, visits>>

Selection == Selections \cup {NoSelection}

\* A poll or what is shown: for which selection, of which version.
Poll == [at : {"asked", "answered", "failed"}, of : Selection, ver : 0..MaxVersions]

NoPoll == [at |-> "none", of |-> NoSelection, ver |-> 0]
NoData == [of |-> NoSelection, ver |-> 0]

PollingTypeOK ==
  /\ version \in 1..MaxVersions
  /\ selected \in Selection
  /\ polls \in [PollSlots -> Poll \cup {NoPoll}]
  /\ data \in [of : Selection, ver : 0..MaxVersions]
  /\ error \in BOOLEAN
  /\ selects \in 0..MaxSelects /\ misses \in 0..MaxMisses /\ visits \in 1..MaxVisits

-----------------------------------------------------------------------------

MutAsked(s) == [at |-> "asked", of |-> CHOOSE x \in Selections : TRUE, ver |-> 0]

\* refresh asks with the newest loader, which has the selection of that moment.
Asked(s) == [at |-> "asked", of |-> s, ver |-> 0]

\* refresh, in a free slot.
Refreshes(s) == \E i \in PollSlots : polls[i] = NoPoll /\ polls' = [polls EXCEPT ![i] = Asked(s)]

\* The page is opened and polls at once.
FirstPolls == {[p \in PollSlots |-> IF p = i THEN Asked(NoSelection) ELSE NoPoll] : i \in PollSlots}

PollingInit ==
  /\ version = 1
  /\ selected = NoSelection
  /\ polls \in FirstPolls
  /\ data = NoData /\ error = FALSE
  /\ selects = 0 /\ misses = 0 /\ visits = 1

\* The page is left and opened again: what it showed and selected is gone, and
\* the answers of its old polls have nowhere to land.
Revisit ==
  /\ visits < MaxVisits
  /\ visits' = visits + 1
  /\ polls' \in FirstPolls
  /\ selected' = NoSelection /\ data' = NoData /\ error' = FALSE
  /\ UNCHANGED <<version, selects, misses>>

\* The interval elapses.
Interval ==
  /\ Refreshes(selected)
  /\ UNCHANGED <<version, selected, data, error, selects, misses, visits>>

\* Another machine or filter is selected, which the next interval will see.  The
\* first machine to select sets another interval, and its effect polls at once.
Select(s) ==
  /\ selects < MaxSelects /\ s # selected
  /\ selects' = selects + 1
  /\ selected' = s
  /\ IF (selected = NoSelection) # (s = NoSelection) THEN Refreshes(s) ELSE UNCHANGED polls
  /\ UNCHANGED <<version, data, error, misses, visits>>

\* The loader's requests are answered, or one fails.
AnswerPoll(i) ==
  /\ polls[i] # NoPoll /\ polls[i].at = "asked"
  /\ polls' = [polls EXCEPT ![i].at = "answered", ![i].ver = version]
  /\ UNCHANGED <<version, selected, data, error, selects, misses, visits>>

MissPoll(i) ==
  /\ polls[i] # NoPoll /\ polls[i].at = "asked" /\ misses < MaxMisses
  /\ misses' = misses + 1
  /\ polls' = [polls EXCEPT ![i].at = "failed"]
  /\ UNCHANGED <<version, selected, data, error, selects, visits>>

\* The answer replaces what is shown, a failure only marks it.
LandPoll(i) ==
  /\ polls[i].at \in {"answered", "failed"}
  /\ polls' = [polls EXCEPT ![i] = NoPoll]
  /\ error' = (polls[i].at = "failed")
  /\ data' = IF polls[i].at = "failed" THEN data ELSE [of |-> polls[i].of, ver |-> polls[i].ver]
  /\ UNCHANGED <<version, selected, selects, misses, visits>>

ServerChanges ==
  /\ version < MaxVersions
  /\ version' = version + 1
  /\ UNCHANGED <<selected, polls, data, error, selects, misses, visits>>

PollingNext ==
  \/ Revisit \/ Interval \/ ServerChanges
  \/ \E s \in Selection : Select(s)
  \/ \E i \in PollSlots : AnswerPoll(i) \/ MissPoll(i) \/ LandPoll(i)

-----------------------------------------------------------------------------
(***************************************************************************)
(* Properties                                                              *)
(***************************************************************************)

\* Polls overlap, land out of order, and land under a selection they were not
\* asked for; when the server and the user stop changing things the page ends
\* up, and stays, with the newest data of what is selected, and without error.
UpToDate == data = [of |-> selected, ver |-> version] /\ ~error

=============================================================================

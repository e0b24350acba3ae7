--------------------------------- MODULE Forms ---------------------------------
(***************************************************************************)
(* The web app's modal forms: the wizard that creates a machine, and the   *)
(* forms for networks, storage pools, backup schedules, users and          *)
(* passwords.  A form stays mounted with its page while it is closed, so   *)
(* what it does not reset is there when it is opened again.                *)
(*                                                                         *)
(* A field is abstracted to whether it passes its check, and to the item   *)
(* whose value it has or for which it was typed.  Submissions are sent,    *)
(* served and landed in steps of their own; on the network and storage     *)
(* pages the error of a poll unmounts the form in between.                 *)
(***************************************************************************)
EXTENDS Naturals

CONSTANTS
  Targets,      \* items that can be edited
  NoTarget,     \* none: something is created
  Submissions,  \* bound: submissions under way at once
  MaxBreaks     \* bound: times that the page breaks, or is left

ASSUME FormsAssumption == NoTarget \notin Targets /\ MaxBreaks \in Nat

VARIABLES
  formKind,    \* which form it is
  formOpen,    \* the page has it open
  mounted,     \* the page shows its content, not an error
  formTarget,  \* what it edits
  fields,      \* the fields' values
  formMode,    \* a network's mode
  locked,      \* the edited network was active when the form was opened
  wizardStep,
  loads,       \* requests for the wizard's lists under way
  poolFull,    \* the disk does not fit the selected pool, as last loaded
  submission,  \* slot -> the submission under way
  breaks

formVars == <<formKind, formOpen, mounted, formTarget, fields, formMode, locked, wizardStep, loads,
              poolFull, submission, breaks>>

FormKinds == {"vm", "network", "editNetwork", "pool", "schedule", "user", "password"}
FormModes == {"subnet", "bridge"}
LastStep  == 4
MaxLoads  == 2    \* loads under way at once

\* The fields whose value can be wrong.
WizardFields      == {"general", "pool", "disk"}
NetworkFields     == {"name", "cidr", "bridge"}
EditNetworkFields == {"cidr", "bridge"}
PoolFields        == {"name", "path"}
ScheduleFields    == {"time", "targets", "keep"}
UserFields        == {"name", "password"}
PasswordFields    == {"password"}

FieldsOf(k) ==
  CASE k = "vm"          -> WizardFields
    [] k = "network"     -> NetworkFields
    [] k = "editNetwork" -> EditNetworkFields
    [] k = "pool"        -> PoolFields
    [] k = "schedule"    -> ScheduleFields
    [] k = "user"        -> UserFields
    [] k = "password"    -> PasswordFields

FieldNames == UNION {FieldsOf(k) : k \in FormKinds}

FieldValue == [ok : BOOLEAN, from : Targets \cup {NoTarget}]

NoSubmission == [stage |-> "none"]

FormsTypeOK ==
  /\ formKind \in FormKinds /\ formMode \in FormModes
  /\ {formOpen, mounted, locked, poolFull} \subseteq BOOLEAN
  /\ formTarget \in Targets \cup {NoTarget}
  /\ fields \in [FieldNames -> FieldValue]
  /\ wizardStep \in 0..LastStep /\ loads \in 0..MaxLoads
  /\ submission \in [Submissions ->
       [stage : {"sent", "saved", "refused"}, kept : {"form", "page", "none"},
        fields : [FieldNames -> FieldValue], mode : FormModes, target : Targets \cup {NoTarget}]
       \cup {NoSubmission}]
  /\ breaks \in 0..MaxBreaks

-----------------------------------------------------------------------------

\* The step of the wizard that a field is on; the network and the media that are
\* chosen on steps 2 and 3 always have a value.
StepOf(f) == IF f = "general" THEN 0 ELSE 1

\* What a form has when it is mounted: what starts empty fails its check.
Initially(f) == [ok |-> f \in {"disk", "cidr", "time", "targets", "keep"}, from |-> NoTarget]

\* What an edit form is given for its target.  A password is typed; a network has
\* a subnet, or gets the default one, and always a bridge in bridge mode, in the
\* others when libvirt has named one.
Loaded(k, t, m, named) ==
  [f \in FieldNames |->
     IF k = "editNetwork" /\ f \in FieldsOf(k) THEN [ok |-> f = "cidr" \/ m = "bridge" \/ named, from |-> t]
     ELSE IF k = "password" /\ f \in FieldsOf(k) THEN [ok |-> FALSE, from |-> t]
     ELSE Initially(f)]

\* The fields that are checked: of a network only what its mode uses, of a
\* schedule not the name.
Checked(k, m) ==
  IF k \in {"network", "editNetwork"}
  THEN FieldsOf(k) \ {IF m = "bridge" THEN "cidr" ELSE "bridge"}
  ELSE FieldsOf(k)

Passes(k, m, values) == \A f \in Checked(k, m) : values[f].ok

StepPasses(s) == \A f \in FieldsOf("vm") : StepOf(f) = s => fields[f].ok

Submitting == \E i \in Submissions : submission[i] # NoSubmission /\ submission[i].kept = "form"

Usable == formOpen /\ mounted

-----------------------------------------------------------------------------

FormsInit ==
  /\ formKind \in FormKinds
  /\ formOpen = FALSE /\ mounted = TRUE /\ formTarget = NoTarget
  /\ fields = [f \in FieldNames |-> Initially(f)]
  /\ formMode = "subnet" /\ locked = FALSE
  /\ wizardStep = 0 /\ loads = 0 /\ poolFull = FALSE
  /\ submission = [i \in Submissions |-> NoSubmission]
  /\ breaks = 0

\* The forms whose fields are set anew for the target they are opened for.  The
\* schedule form is not one of them: its fields are initialised when its page is
\* opened, whatever schedule it edits later.
Resets(k) == k \in {"editNetwork", "password"}

EditKinds == {"editNetwork", "password", "schedule"}

\* The wizard starts at its first step and asks for the lists again.
OpenModal(t) ==
  /\ ~formOpen /\ mounted
  /\ (t \in Targets /\ formKind \in EditKinds) \/ (t = NoTarget /\ ~Resets(formKind))
  /\ formOpen' = TRUE /\ formTarget' = t
  /\ IF formKind = "editNetwork" THEN formMode' \in FormModes /\ locked' \in BOOLEAN
     ELSE UNCHANGED <<formMode, locked>>
  /\ \E named \in BOOLEAN :
       fields' = IF Resets(formKind) THEN Loaded(formKind, t, formMode', named) ELSE fields
  /\ IF formKind = "vm" THEN wizardStep' = 0 /\ loads < MaxLoads /\ loads' = loads + 1
     ELSE UNCHANGED <<wizardStep, loads>>
  /\ UNCHANGED <<formKind, mounted, poolFull, submission, breaks>>

\* The lists arrive, of this opening or of an earlier one: a pool is chosen if
\* none is, unless there is no pool.
ListsLoaded ==
  /\ loads > 0
  /\ loads' = loads - 1
  /\ \E any \in BOOLEAN :
       fields' = IF fields["pool"].ok THEN fields
                 ELSE [fields EXCEPT !["pool"] = [ok |-> any, from |-> NoTarget]]
  /\ poolFull' \in BOOLEAN
  /\ UNCHANGED <<formKind, formOpen, mounted, formTarget, formMode, locked, wizardStep, submission, breaks>>

ListsFail ==
  /\ loads > 0
  /\ loads' = loads - 1
  /\ UNCHANGED <<formKind, formOpen, mounted, formTarget, fields, formMode, locked, wizardStep,
                 poolFull, submission, breaks>>

MutFrozen == FALSE

\* Nothing can be entered, nor the form closed, while it is submitted.
Frozen == Submitting

\* A pool is selected from the list, so it is one.
EditField(f, ok) ==
  /\ Usable /\ ~Frozen /\ ~(locked /\ formKind = "editNetwork")
  /\ f \in FieldsOf(formKind)
  /\ formKind = "vm" => wizardStep = StepOf(f) /\ (f = "pool" => ok)
  /\ fields' = [fields EXCEPT ![f] = [ok |-> ok, from |-> formTarget]]
  /\ IF f \in {"pool", "disk"} THEN poolFull' \in BOOLEAN ELSE UNCHANGED poolFull
  /\ UNCHANGED <<formKind, formOpen, mounted, formTarget, formMode, locked, wizardStep, loads,
                 submission, breaks>>

ChooseMode(m) ==
  /\ Usable /\ ~Frozen /\ m # formMode
  /\ formKind = "network" \/ (formKind = "editNetwork" /\ ~locked)
  /\ formMode' = m
  /\ UNCHANGED <<formKind, formOpen, mounted, formTarget, fields, locked, wizardStep, loads, poolFull,
                 submission, breaks>>

MutMayAdvance == TRUE

\* canNext
MayAdvance == StepPasses(wizardStep)

NextStep ==
  /\ formKind = "vm" /\ Usable /\ ~Frozen /\ wizardStep < LastStep
  /\ MayAdvance
  /\ wizardStep' = wizardStep + 1
  /\ UNCHANGED <<formKind, formOpen, mounted, formTarget, fields, formMode, locked, loads, poolFull,
                 submission, breaks>>

\* Back, or a click on a step that was done, which nothing disables.
BackTo(s) ==
  /\ formKind = "vm" /\ Usable /\ s < wizardStep
  /\ wizardStep' = s
  /\ UNCHANGED <<formKind, formOpen, mounted, formTarget, fields, formMode, locked, loads, poolFull,
                 submission, breaks>>

CloseForm ==
  /\ Usable /\ ~Frozen
  /\ formOpen' = FALSE /\ formTarget' = NoTarget
  /\ UNCHANGED <<formKind, mounted, fields, formMode, locked, wizardStep, loads, poolFull, submission, breaks>>

-----------------------------------------------------------------------------

\* The wizard submits from its last step, without looking at the others again.
MaySubmit ==
  IF formKind = "vm" THEN wizardStep = LastStep /\ ~poolFull
  ELSE Passes(formKind, formMode, fields)

Submit ==
  /\ Usable /\ ~Submitting /\ MaySubmit
  /\ \E i \in Submissions :
       /\ submission[i] = NoSubmission
       /\ submission' = [submission EXCEPT ![i] =
            [stage |-> "sent", kept |-> "form", fields |-> fields, mode |-> formMode, target |-> formTarget]]
  /\ UNCHANGED <<formKind, formOpen, mounted, formTarget, fields, formMode, locked, wizardStep, loads,
                 poolFull, breaks>>

ServeForm(i) ==
  /\ submission[i] # NoSubmission /\ submission[i].stage = "sent"
  /\ \E stage \in {"saved", "refused"} : submission' = [submission EXCEPT ![i].stage = stage]
  /\ UNCHANGED <<formKind, formOpen, mounted, formTarget, fields, formMode, locked, wizardStep, loads,
                 poolFull, breaks>>

\* A form that was saved is closed.  A form that was unmounted meanwhile, its page
\* being there, closes the one that took its place.
LandForm(i) ==
  /\ submission[i] # NoSubmission /\ submission[i].stage # "sent"
  /\ submission' = [submission EXCEPT ![i] = NoSubmission]
  /\ IF submission[i].stage = "saved" /\ submission[i].kept # "none"
     THEN formOpen' = FALSE /\ formTarget' = NoTarget
     ELSE UNCHANGED <<formOpen, formTarget>>
  /\ UNCHANGED <<formKind, mounted, fields, formMode, locked, wizardStep, loads, poolFull, breaks>>

\* What the submissions of a form belong to once it is unmounted.
Kept(where) ==
  submission' = [i \in Submissions |->
    IF submission[i] = NoSubmission \/ submission[i].kept = "none" THEN submission[i]
    ELSE [submission[i] EXCEPT !.kept = where]]

\* The network and storage pages show the error of a poll in place of everything.
BreakPage ==
  /\ formKind \in {"network", "editNetwork", "pool"} /\ mounted /\ breaks < MaxBreaks
  /\ breaks' = breaks + 1
  /\ mounted' = FALSE
  /\ Kept("page")
  /\ UNCHANGED <<formKind, formOpen, formTarget, fields, formMode, locked, wizardStep, loads, poolFull>>

\* The next poll brings the page back, and a form that was open is mounted anew.
MendPage ==
  /\ ~mounted
  /\ mounted' = TRUE
  /\ IF formKind = "editNetwork" THEN UNCHANGED locked /\ formMode' \in FormModes
     ELSE formMode' = "subnet" /\ UNCHANGED locked
  /\ \E named \in BOOLEAN : fields' = Loaded(formKind, formTarget, formMode', named)
  /\ UNCHANGED <<formKind, formOpen, formTarget, wizardStep, loads, poolFull, submission, breaks>>

\* Another page is opened, and this one again.
LeavePage ==
  /\ breaks < MaxBreaks
  /\ breaks' = breaks + 1
  /\ formOpen' = FALSE /\ mounted' = TRUE /\ formTarget' = NoTarget
  /\ fields' = [f \in FieldNames |-> Initially(f)]
  /\ formMode' = "subnet" /\ locked' = FALSE
  /\ wizardStep' = 0 /\ loads' = 0 /\ poolFull' = FALSE
  /\ Kept("none")
  /\ UNCHANGED formKind

FormsNext ==
  \/ \E t \in Targets \cup {NoTarget} : OpenModal(t)
  \/ ListsLoaded \/ ListsFail
  \/ \E f \in FieldNames, ok \in BOOLEAN : EditField(f, ok)
  \/ \E m \in FormModes : ChooseMode(m)
  \/ NextStep \/ CloseForm \/ Submit
  \/ \E s \in 0..LastStep : BackTo(s)
  \/ \E i \in Submissions : ServeForm(i) \/ LandForm(i)
  \/ BreakPage \/ MendPage \/ LeavePage

FormsSpec == FormsInit /\ [][FormsNext]_formVars

-----------------------------------------------------------------------------
(***************************************************************************)
(* Properties                                                              *)
(***************************************************************************)

\* What is submitted has passed every check of its form.  The wizard checks only
\* the step it is on: that all steps pass at the last one rests on how it moves
\* between them, and on lists that arrive late taking nothing away.
Valid(s) == Passes(formKind, s.mode, s.fields)

\* An edit submits nothing that was loaded or typed for another item.
Own(s) == Resets(formKind) => s.target \in Targets /\ \A f \in FieldsOf(formKind) : s.fields[f].from = s.target

\* However a form was closed, reopened and remounted, it submits only what its
\* checks have passed, and of an edit only what belongs to the item it names.
\* The schedule form, which is not reset, is left out of the second part.
SubmitsOnlyValid ==
  \A i \in Submissions : submission[i] # NoSubmission => Valid(submission[i]) /\ Own(submission[i])

\* While a submission is under way the form that sent it stays open with what it
\* sent, so that its answer neither closes another form nor discards an edit, and
\* nothing is sent twice: until the page broke.  The answer to a form that was
\* unmounted closes the one that took its place.
AnswersItsForm ==
  \A i \in Submissions :
    submission[i] # NoSubmission /\ submission[i].kept = "form" /\ breaks = 0 =>
      /\ Usable /\ formTarget = submission[i].target
      /\ fields = submission[i].fields /\ formMode = submission[i].mode
      /\ \A j \in Submissions : submission[j] # NoSubmission /\ submission[j].kept = "form" => j = i

=============================================================================

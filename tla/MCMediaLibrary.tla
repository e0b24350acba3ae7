--------------------------- MODULE MCMediaLibrary ---------------------------
(***************************************************************************)
(* Model checking of MediaLibrary, with a record of the images each upload *)
(* could have found when it checked.                                       *)
(***************************************************************************)
EXTENDS MediaLibrary, TLC

VARIABLE before   \* upload request -> the images published when it checked

HInit == Init /\ before = [u \in Uploads |-> {}]
HNext ==
  /\ Next
  /\ before' = [u \in Uploads |->
                  IF op[u].pc = "resolved" /\ op'[u].pc = "checked" THEN {file[p] : p \in Place}
                  ELSE IF op'[u].pc = "idle" THEN {} ELSE before[u]]
HSpec == HInit /\ [][HNext]_<<vars, before>>

\* An upload replaces an image only if that one was published after the upload
\* had found nothing in its place.
ReplacesOnlyUnseen ==
  [][\A u \in Uploads : op[u].pc = "copying" /\ op'[u].pc = "renamed" =>
       file[op[u].at] \notin before[u] \ {0}]_<<vars, before>>

Symmetry == Permutations(Uploads) \cup Permutations(Creations)

=============================================================================

SPECIFICATION Spec
CONSTANTS
  Names = {"vm1"}
  Formats = {"qcow2", "raw"}
  MaxDomains = 2
  Changes <- MCChanges
  Creates = {c1, c2}
  Deletes = {d1}
  Updates = {q1}
  c1 = c1
  c2 = c2
  d1 = d1
  q1 = q1
SYMMETRY Symmetric
INVARIANTS
  TypeOK
  DefinedHasVolume
  NoOtherOrphans
CHECK_DEADLOCK FALSE

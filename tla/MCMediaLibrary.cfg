SPECIFICATION HSpec
CONSTANTS
  Dirs = {"isos", "data"}
  IsoDir = "isos"
  Isos = {"debian"}
  Pools = {"p1"}
  Uploads = {u1, u2}
  Removals = {u1, u2}
  Creations = {c1, c2}
  Deletions = {c1, c2}
  MaxUploads = 2
  MaxPools = 2
  MaxFaults = 1
  MaxCrashes = 1
SYMMETRY Symmetry
INVARIANTS TypeOK LibrarySurvivesRestart NothingUnfinished
PROPERTY ReplacesOnlyUnseen

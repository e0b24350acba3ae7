SPECIFICATION Spec
CONSTANTS
  Names = {"admin", "ana", "bo"}
  AdminName = "admin"
  Passwords = {"p", "q"}
  Requests = {r1, r2}
  SecretKept = FALSE
  MaxId = 3
  MaxCrashes = 1
SYMMETRY Symmetry
INVARIANTS AdminRemains DeletedOnce
PROPERTY ActsOnMeant
\* Once no user is left, nobody can log in.
CHECK_DEADLOCK FALSE

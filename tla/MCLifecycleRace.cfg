\* A disconnect that loses its race after it deleted the credentials.
SPECIFICATION Spec
CONSTANTS
  c1 = c1  c2 = c2  c3 = c3  c4 = c4
  Calls <- Four
  OpsOf <- RaceOps
  None = None
  MaxTouches = 0
INVARIANTS StatusMeansCredentials
CHECK_DEADLOCK FALSE

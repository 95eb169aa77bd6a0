\* Every pair of operations beside a connect, in processes that may die.
SPECIFICATION Spec
CONSTANTS
  c1 = c1  c2 = c2  c3 = c3  c4 = c4
  Calls <- Four
  OpsOf <- FourOps
  None = None
  MaxTouches = 1
INVARIANTS TypeOK ActiveIsEarned DanglesOnlyByFailedDisconnect LeftoversAreExplained
PROPERTIES Promise RevocationIsKept WithheldUntilPatched
CHECK_DEADLOCK FALSE

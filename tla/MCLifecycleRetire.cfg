\* A retired account that is revoked, or patched.
SPECIFICATION Spec
CONSTANTS
  c1 = c1  c2 = c2  c3 = c3  c4 = c4
  Calls <- Four
  OpsOf <- RetireOps
  None = None
  MaxTouches = 0
PROPERTIES RetireIsTerminal
CHECK_DEADLOCK FALSE

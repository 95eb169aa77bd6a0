\* Two calls at a time by two agents; every race of two writers on the row, and
\* whether a served call returns.  No symmetry, since liveness is asked.
SPECIFICATION FairSpec
CONSTANTS
  Calls = {c1, c2}
  Holders = {alice, bob}
  NoLock = NoLock
  MaxTTL = 1
  MaxRetries = 2
  MaxTime = 2
  MaxVersion = 4
  MaxTokens = 2
INVARIANTS TypeOK NoLostEdit ContentionIsReal
PROPERTIES NoStolenLease NoTokenReturns PatchUnderLease Promise CallsReturn

\* An override of a rate by zero.
SPECIFICATION Spec
CONSTANTS
  Overrides <- Zero
  Consents <- SomeConsents
  Uses <- FewUses
  Ledgers <- FewLedgers
  DryRun = FALSE
INVARIANTS OverridesOnlyTighten

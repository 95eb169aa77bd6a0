\* Every platform under every override that is not zero, on a server in dry run.
SPECIFICATION Spec
CONSTANTS
  Overrides <- Single
  Consents <- SomeConsents
  Uses <- FewUses
  Ledgers <- FewLedgers
  DryRun = TRUE
INVARIANTS TypeOK OverridesOnlyTighten ReviewIsTheLastWord WritesAreDisclosed
           UnsupportedNeverReached TiersAreHonest VotesNeverPass 

\* Two agents' requests beside a review, or one act beside any call, or an edit and a
\* resubmission beside a decision; processes die.
SPECIFICATION Spec
CONSTANTS
  r1 = r1  r2 = r2  r3 = r3  r4 = r4
  agents = agents  admin = admin  alice = alice  key = key
  beside = beside  alone = alone  again = again
  Mixes = {beside, alone, again}
  Requests <- Four
  OpsOf <- FourOps
  ProcessOf <- FourProcesses
  AgentOf <- FourAgents
  KeyOf <- FourKeys
  Agents = {alice}
  Nobody = Nobody
  Keys = {key}
  NoKey = NoKey
  Original = Original
  LeaseTTL = 1
  ReviewTTL = 1
  MaxTime = 2
  Crashes = TRUE
INVARIANTS TypeOK ReviewedTextOnly OnePostPerApproval RoutedHasApproval RevocationHolds
           LeaseHolds KeyNamesOneAction RetriesActOnce PerformedIsOnRecord
           StuckIsExplained ActsAreAudited AllowMeansPerformed

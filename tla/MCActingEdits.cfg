\* Two edits in two server processes around an approval.
SPECIFICATION Spec
CONSTANTS
  r1 = r1  r2 = r2  r3 = r3  r4 = r4
  agents = agents  admin = admin  alice = alice  key = key
  beside = beside  alone = alone  again = again
  Mixes = {beside}
  Requests <- Four
  OpsOf <- EditsOps
  ProcessOf <- FourApart
  AgentOf <- FourAgents
  KeyOf <- FourNoKeys
  Agents = {alice}
  Nobody = Nobody
  Keys = {key}
  NoKey = NoKey
  Original = Original
  LeaseTTL = 1
  ReviewTTL = 0
  MaxTime = 2
  Crashes = FALSE
INVARIANTS EditInvalidatesApproval

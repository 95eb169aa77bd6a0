\* A resubmission of an approval that was granted.
SPECIFICATION Spec
CONSTANTS
  r1 = r1  r2 = r2  r3 = r3  r4 = r4
  agents = agents  admin = admin  alice = alice  key = key
  beside = beside  alone = alone  again = again
  Mixes = {beside}
  Requests <- Three
  OpsOf <- ReopenOps
  ProcessOf <- ThreeProcesses
  AgentOf <- ThreeAgents
  KeyOf <- NoKeys
  Agents = {alice}
  Nobody = Nobody
  Keys = {key}
  NoKey = NoKey
  Original = Original
  LeaseTTL = 1
  ReviewTTL = 0
  MaxTime = 2
  Crashes = FALSE
PROPERTIES ApprovedIsNotReopened

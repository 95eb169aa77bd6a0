\* An adapter that raises.
SPECIFICATION Spec
CONSTANTS
  r1 = r1  r2 = r2  r3 = r3  r4 = r4
  agents = agents  admin = admin  alice = alice  key = key
  beside = beside  alone = alone  again = again
  Mixes = {alone}
  Requests <- Three
  OpsOf <- AuditOps
  ProcessOf <- ThreeProcesses
  AgentOf <- ThreeAgents
  KeyOf <- NoKeys
  Agents = {alice}
  Nobody = Nobody
  Keys = {key}
  NoKey = NoKey
  Original = Original
  LeaseTTL = 1
  ReviewTTL = 0
  MaxTime = 2
  Crashes = FALSE
INVARIANTS AuditedOnEveryPath

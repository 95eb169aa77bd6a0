\* Three acts of two accounts in two server processes.
SPECIFICATION Spec
CONSTANTS
  ann = ann  ben = ben  post = post
  Requests = {r1, r2, r3}
  Processes = {mcp, admin}
  Accounts = {ann, ben}
  Targets = {post}
  NoTarget = NoTarget
  NoLimit = NoLimit
  Asks <- MixedAsks
  Base <- Limited
  Override <- Lowered
  Ratio = 2
  MaxDistinct = 1
  RateWindow = 1
  TargetWindow = 2
  MaxTime = 3
SYMMETRY Same
INVARIANTS TypeOK RateHoldsAlone RatioHoldsAlone CoordinationHoldsAlone CountsWhatWasDone
CHECK_DEADLOCK FALSE

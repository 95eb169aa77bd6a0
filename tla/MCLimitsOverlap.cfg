\* Two publications under way at once in one process.
SPECIFICATION Spec
CONSTANTS
  ann = ann  ben = ben  post = post
  Requests = {r1, r2}
  Processes = {mcp}
  Accounts = {ann, ben}
  Targets = {post}
  NoTarget = NoTarget
  NoLimit = NoLimit
  Asks <- PlainAsks
  Base <- Once
  Override <- AsGiven
  Ratio = 2
  MaxDistinct = 1
  RateWindow = 1
  TargetWindow = 2
  MaxTime = 3
INVARIANTS RateHolds
CHECK_DEADLOCK FALSE

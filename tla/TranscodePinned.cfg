SPECIFICATION Spec
CONSTANTS
  v1 = v1
  v2 = v2
  v3 = v3
  c1 = c1
  c2 = c2
  c3 = c3
  w1 = w1
  Variants = {v1, v2}
  Requests = {c1, c2}
  Warmers = {w1}
  FgCap = 1
  LiveFloor = 2
  WarmMax = 1
  MaxRuns = 3
  Env = {"play", "direct"}
INVARIANT RetryStartsAfresh
CHECK_DEADLOCK FALSE

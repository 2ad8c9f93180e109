SPECIFICATION Together
CONSTANTS
  g1 = g1
  g2 = g2
  g3 = g3
  e1 = e1
  e2 = e2
  None = None
  scan = scan
  enrich = enrich
  Unrun = Unrun
  came = came
  bare = bare
  v1 = v1
  v2 = v2
  v3 = v3
  c1 = c1
  c2 = c2
  c3 = c3
  w1 = w1
  Variants = {v1}
  Requests = {c1}
  Warmers = {w1}
  FgCap = 1
  LiveFloor = 2
  WarmMax = 1
  MaxRuns = 3
  Env = {"play", "direct", "warm", "fail"}
  Tracks = {g1, g2, g3}
  SizeOf <- Sizes
  CapBytes = 4
  Parallel = 2
  MaxWants = 4
  CacheEnv = {"slow", "drop"}
INVARIANTS TypesOK AliveIsRunning DoneComplete CacheCounted
PROPERTIES Settles OnlyWhole SlotsReturn ButtonAgrees CaughtUp Answered Fetched
CHECK_DEADLOCK FALSE

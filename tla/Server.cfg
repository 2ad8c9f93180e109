SPECIFICATION Together
CONSTANTS
  sweep = sweep
  enrich = enrich
  upgrade = upgrade
  fetch = fetch
  None = None
  xm = xm
  xf = xf
  ym = ym
  zm = zm
  mp3 = mp3
  flac = flac
  other = other
  came = came
  bare = bare
  album = album
  Unrun = Unrun
  Defs <- Order
  Alongside = {fetch}
  Watched = {sweep}
  Modes <- Schedules
  Hours = 1
  DayStart <- Starts
  Points <- Daily
  Day = 2
  MaxTime = 3
  MaxOps = 1
  Env = {"hand", "sched", "change", "crash"}
  Songs = {came, bare}
  Came = {came}
  MaxAsks = 2
  MaxTurns = 3
  LyricsEnv = {"crash", "scan", "fetch", "remove", "busy"}
  Albums = {album}
  Nil = Nil
  Total = 2
  GiveUp = 1
  Stuck = 0
  MaxClock = 4
  MaxWishes = 2
  WatchEnv = {"log", "fallback", "wrong", "fail", "crash"}
INVARIANTS TypesOK NobodyStarves OncePerPoint MusicFileKept
PROPERTIES KeepsLikes NeverLastCopy GivenAChance
CHECK_DEADLOCK FALSE

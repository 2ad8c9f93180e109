SPECIFICATION Together
CONSTANTS
  p1 = p1
  p2 = p2
  s1 = s1
  s2 = s2
  s3 = s3
  e1 = e1
  e2 = e2
  None = None
  Nothing = Nothing
  Players = {p1, p2}
  Speakers = {s1, s2, s3}
  Household <- Pair
  MaxOps = 2
  MaxEdits = 1
  Els = {e1, e2}
  Songs = 3
  Downloaded <- OneKept
  MaxGen = 3
  MaxWorld = 1
  SoundEnv = {"seek", "rapid", "pause", "resume", "yield", "refused", "stuck", "fade"}
  Env = {"play", "toggle", "yield", "input", "busy", "lost", "poll", "gone", "foreign", "ended", "stopped"}
  Lists <- Chosen
  Similar = {3}
  Kept = {2}
  NoSong = NoSong
  MaxActs = 3
  MaxLen = 5
  MaxAsks = 2
  QueueEnv = {"edit", "modes", "routed", "reload", "offline", "storage"}
INVARIANTS TypesOK OwnersAgree NoGhost Followed
  HeardIsShown
PROPERTIES AnswersKeepSong RestoredSame
SYMMETRY Symmetric
CHECK_DEADLOCK FALSE

SPECIFICATION LyricsSpec
CONSTANTS
  a = a
  b = b
  None = None
  Songs = {a, b}
  Came = {a}
  MaxAsks = 3
  MaxTurns = 3
  LyricsEnv = {"undo"}
INVARIANT MusicFileKept
CHECK_DEADLOCK FALSE

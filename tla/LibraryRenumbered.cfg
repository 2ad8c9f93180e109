SPECIFICATION Spec
CONSTANTS
  xm = xm
  xf = xf
  ym = ym
  zm = zm
  mp3 = mp3
  flac = flac
  other = other
  None = None
  Paths = {xm, ym, zm}
  DirOf <- Folder
  FlacOf <- Flac
  Audio = {mp3, other}
  SongOf <- Song
  Lossy = {mp3}
  Holds <- Renumbered
  Shelved <- Album
  MaxOps = 5
  Env = {"move", "like"}
PROPERTY KeepsLikes
CHECK_DEADLOCK FALSE

SPECIFICATION OfflineSpec
CONSTANTS
  a1 = a1
  l1 = l1
  l2 = l2
  s1 = s1
  s2 = s2
  Unset = Unset
  Accounts = {a1}
  Songs = {s1, s2}
  Lists <- Playlists
  Quals = {"aac", "flac"}
  MaxOps = 4
  OfflineEnv = {"fail", "close"}
INVARIANT QualityAsNoted
CHECK_DEADLOCK FALSE

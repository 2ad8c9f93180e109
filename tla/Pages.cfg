SPECIFICATION Together
CONSTANTS
  u1 = u1
  u2 = u2
  p1 = p1
  p2 = p2
  p3 = p3
  a = a
  b = b
  c = c
  k1 = k1
  k2 = k2
  k3 = k3
  here = here
  r1 = r1
  r2 = r2
  v1 = v1
  v2 = v2
  c1 = c1
  c2 = c2
  c3 = c3
  w1 = w1
  a1 = a1
  a2 = a2
  q1 = q1
  q2 = q2
  s1 = s1
  l1 = l1
  l2 = l2
  None = None
  Users = {u1, u2}
  Pages = {p1, p2, p3}
  Ids = {a, b, c}
  Conns = {k1, k2, k3}
  UserOf <- TwoAccounts
  BaseId <- SameId
  MaxNow = 1
  UpCap = 1
  DownCap = 1
  Env = {"leave", "stop", "beat", "time"}
  Builds = 2
  Slots = {1, 2}
  MaxActs = 3
  ShellEnv = {"fail", "stop", "portal"}
  People = {a1, a2}
  Nothing = Nothing
  Requests = {1, 2}
  Values = 3
  MaxAsked = 5
  AnswersEnv = {"down", "switch"}
  Accounts = {a1, a2}
  Songs = {s1}
  Lists <- Playlists
  Quals = {q1, q2}
  Unset = Unset
  MaxOps = 4
  OfflineEnv = {"switch", "fail", "close"}
SYMMETRY Alike
INVARIANTS TypesOK AloneAtRest SlotsExact ListedIsHere AppKept OwnAnswers
  BehindNothing
PROPERTIES NeverEvicted NewestWins
CHECK_DEADLOCK FALSE

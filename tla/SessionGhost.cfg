SPECIFICATION Spec
CONSTANTS
  u1 = u1
  u2 = u2
  p1 = p1
  p2 = p2
  p3 = p3
  a = a
  b = b
  c = c
  k1 = k1
  k2 = k2
  k3 = k3
  None = None
  Users = {u1}
  Pages = {p1, p2}
  Ids = {a, b}
  Conns = {k1, k2, k3}
  UserOf <- OneAccount
  BaseId <- OwnIds
  MaxNow = 1
  UpCap = 1
  DownCap = 2
  Env = {"drop"}
INVARIANT ActiveRegistered
CHECK_DEADLOCK FALSE

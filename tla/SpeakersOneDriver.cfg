SPECIFICATION Spec
CONSTANTS
  p1 = p1
  p2 = p2
  s1 = s1
  s2 = s2
  s3 = s3
  None = None
  Players = {p1, p2}
  Speakers = {s1, s2, s3}
  Household <- Pair
  MaxOps = 1
  MaxEdits = 1
  Env = {"overlap"}
INVARIANT OneDriver
SYMMETRY Symmetric
CHECK_DEADLOCK FALSE

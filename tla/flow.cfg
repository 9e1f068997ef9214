SPECIFICATION Spec
CONSTANTS
  None = None
  b1 = b1
  b2 = b2
  h1 = h1
  h2 = h2
  u1 = u1
  Bridge = {b1, b2}
  Host = {h1, h2}
  Home <- MCHome
  Announcing = {b1}
  User = {u1}
  MaxChanges = 1
  MaxFaults = 2
  MaxSubmits = 2
INVARIANTS NoReplacement
PROPERTIES StoredWasTrue FollowsBridge
CHECK_DEADLOCK FALSE

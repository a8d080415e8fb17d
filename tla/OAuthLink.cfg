SPECIFICATION Spec
CONSTANTS
  u1 = u1
  u2 = u2
  b1 = b1
  b2 = b2
  s1 = s1
  s2 = s2
  s3 = s3
  c1 = c1
  c2 = c2
  c3 = c3
  None = None
  Users <- MCUsers
  Bnets <- MCBnets
  States <- MCStates
  Callbacks <- MCCallbacks
PROPERTIES CallbacksEnd ImplementsRegistry
CHECK_DEADLOCK FALSE

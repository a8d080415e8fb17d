CONSTANTS
  c1 = c1
  c2 = c2
  k1 = k1
  u1 = u1
  NoCall = NoCall
  Calls <- MCCalls
  Keys <- MCKeys
  Users <- MCUsers
  MaxRetries = 2
  Concurrency = 1
  MaxEvents = 1
SPECIFICATION ClientFairSpec
INVARIANTS FetchesAreOwed DataIsPrivate MissingWasMissing
PROPERTY CallsEnd
CHECK_DEADLOCK FALSE

CONSTANTS
  r1 = r1
  r2 = r2
  a1 = a1
  a2 = a2
  a3 = a3
  Replicas <- MCReplicas
  Linkable <- MCLinkable
  Failing <- MCFailing
  BatchSize = 2
  LockTTL = 2
  MaxEvents = 1
  NoReplica = NoReplica
SPECIFICATION SweepFairSpec
INVARIANTS OneSweep
PROPERTIES LockIsFreed NoStarvation

SPECIFICATION Spec
CONSTANTS
  Profiles <- PROFILES
  Specializations <- SPECIALIZATIONS
  Targets <- MCTargets
  Pools <- MCPools
INVARIANTS AlwaysSomethingToPress PlansAgree
PROPERTY MoreNeverHurts

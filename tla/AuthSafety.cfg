CONSTANTS
  q1 = q1
  q2 = q2
  Requests <- MCRequests
  MaxTokens = 3
  Lifetime = 2
  Horizon = 5
  MaxFaults = 1
SPECIFICATION AuthSpec
SYMMETRY MCSymmetry
INVARIANTS RevokedIsRefused
CHECK_DEADLOCK FALSE

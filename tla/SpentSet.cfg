\* Three calls, tokens that expire while calls are in flight, one restart.
CONSTANTS
  c1 = c1
  c2 = c2
  c3 = c3
  me = me
  friend = friend
  stranger = stranger
  t1 = t1
  t2 = t2
  Calls   <- MCCalls
  Ids     <- MCIds
  Submits <- MCSubmits
  Allowlist = {friend}
  HasRoots = TRUE
  Self = me
  NoCredential = NoCredential
  Patience = 2
  MaxClock = 4
  MaxRuns  = 1
SYMMETRY MCSymmetry
SPECIFICATION Spec
INVARIANTS
  OneUseUntilExpiry
  RefusalHasWinner
  SpentWasUsed
  ExpiredAcceptedBriefly
\* The clock and the supply of calls are bounded.
CHECK_DEADLOCK FALSE

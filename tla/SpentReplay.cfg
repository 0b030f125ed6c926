\* Three calls with two one-shot tokens, no restart.
CONSTANTS
  c1 = c1
  c2 = c2
  c3 = c3
  me = me
  friend = friend
  stranger = stranger
  t1 = t1
  t2 = t2
  Calls   <- MCCalls
  Ids     <- MCIds
  Submits <- MCTwoTokens
  Allowlist = {friend}
  HasRoots = TRUE
  Self = me
  NoCredential = NoCredential
  Patience = 2
  MaxClock = 4
  MaxRuns  = 0
SYMMETRY MCSymmetry
SPECIFICATION Spec
INVARIANT NoReplayInRun
\* The clock and the supply of calls are bounded.
CHECK_DEADLOCK FALSE

\* Three connections of one peer, one of another, each cap tightest in turn.
CONSTANTS
  alice = alice
  bob   = bob
  a1 = a1
  a2 = a2
  a3 = a3
  b1 = b1
  Peers    <- MCPeers
  Conns    <- MCConns
  PeerOf   <- MCPeerOf
  Configs  <- MCConfigs
  Window   = 2
  MaxLag   = 1
  MaxClock = 3
SYMMETRY MCSymmetry
SPECIFICATION Spec
INVARIANTS
  PermitsCounted
  CapsHold
  PromptWindowCap
  RefusedForCause
\* The clock and the supply of connections are bounded.
CHECK_DEADLOCK FALSE

\* A rate-limited dial on a network that loses nothing.
CONSTANTS
  Behaviors  <- Stub
  Verdicts   <- Limited
  Shutdowns  <- NoOne
  Timers     <- NoOne
  LinkFaults <- NoOne
  Hooks      <- NoHook
  Calms      <- Rough
SPECIFICATION Spec
INVARIANTS
  RateLimitedAgreed
\* A call ends.
CHECK_DEADLOCK FALSE

\* Every behavior, verdict, fault, timer and shutdown, with and without
\* request_cancel, and calls that nothing disturbs.
CONSTANTS
  Behaviors  <- AnyBehavior
  Verdicts   <- AnyVerdict
  Shutdowns  <- Everyone
  Timers     <- Everyone
  LinkFaults <- AnyFault
  Hooks      <- AnyHook
  Calms      <- AnyWeather
SPECIFICATION TimedSpec
INVARIANTS
  AnswersMatch
  TaskInBothRecords
  RateLimitedBeforeTask
PROPERTIES
  ImplementsProtocol
  EveryCallRecorded
  StubCompletes
\* A call ends.
CHECK_DEADLOCK FALSE

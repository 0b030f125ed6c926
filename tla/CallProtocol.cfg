\* Every loss code, both timers; messages and timers as late as may be.
CONSTANTS
  LossCodes   <- AllCodes
  Timers      <- BothTimers
  MaxInFlight = 3
  Deadlines   <- TwoDeadlines
  GRACE       = 2
SPECIFICATION PromptSpec
INVARIANTS
  NoIllegalReceive
  AnswerAgreement
  CanceledOnRequest
  OneQuestionOpen
  TimesOutForCause
PROPERTIES
  NoRejectionOnceAccepted
  CancelResolves
\* A finished call stays finished.
CHECK_DEADLOCK FALSE

\* Two frames, maxima reached from both sides.
CONSTANTS
  Base        = 2
  MAX_FRAME   = 5
  MAX_HDR_LEN = 2
  KindOf      <- Documents
  Bodies      <- SomeBodies
  MaxSent     = 2
SPECIFICATION Spec
INVARIANTS
  TypeOK
  InSync
  FailsForCause
  SameBounds
PROPERTIES
  SentIsRead
\* A reader that failed, or has read everything, is done.
CHECK_DEADLOCK FALSE

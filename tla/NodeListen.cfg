\* One finished call; the only session is the first request of `uat listen`.
CONSTANTS
  Conns    = {a}
  Clients  = {k}
  Probes   = {k}
  NoEvent  = NoEvent
  QueueCap = 1
SPECIFICATION Spec
INVARIANT EachEventPrinted

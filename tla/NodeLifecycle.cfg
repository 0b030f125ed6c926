\* Three calls and two local sessions over a channel of one place.
CONSTANTS
  Conns    = {a, b, c}
  Clients  = {k, l}
  Probes   = {}
  NoEvent  = NoEvent
  QueueCap = 1
SPECIFICATION RunningSpec
INVARIANT QuietWhenClosed
PROPERTIES
  ShutdownReturns
  QueueDrains
  KeepsPromise

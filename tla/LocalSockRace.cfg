\* Daemons may start at the same time.
CONSTANTS
  Daemons  = {d1, d2, d3}
  Clients  = {c1, c2}
  NoFile   = NoFile
  Settings <- StartsOverlap
SYMMETRY MCSymmetry
SPECIFICATION Spec
INVARIANT SecondRefused
\* Every process comes to its end.
CHECK_DEADLOCK FALSE

\* Daemons that start and stop one at a time, that stop at any time, and
\* everything that may go wrong, where modes are kept and where not.
CONSTANTS
  Daemons  = {d1, d2, d3}
  Clients  = {c1, c2}
  NoFile   = NoFile
  Settings <- CareAndLess
SYMMETRY MCSymmetry
SPECIFICATION Spec
INVARIANTS
  OneServes
  NoLitter
  ServedPrivately
PROPERTIES
  StartsOverLitter
  ErrorsHonest
\* Every process comes to its end.
CHECK_DEADLOCK FALSE

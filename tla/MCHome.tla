------------------------------- MODULE MCHome -------------------------------
EXTENDS Home, TLC

CONSTANTS p1, p2, p3, c1, c2, c3

MCStem == [c \in Calls |-> "s"]
MCProcessOf == (c1 :> p1) @@ (c2 :> p2) @@ (c3 :> p2)

\* Two calls of one process and one stem.
MCSymmetry == Permutations({c2, c3})
=============================================================================

----------------------------- MODULE MCLocalSock -----------------------------
(* An instance of LocalSock for TLC: interchangeable daemons and clients.  *)
EXTENDS LocalSock, TLC

CareAndLess   == {{}, {"stops", "accept"}, Disorder \ {"modes"}, Disorder}
StartsOverlap == {{"starts"}}

MCSymmetry == Permutations(Daemons) \cup Permutations(Clients)

=============================================================================

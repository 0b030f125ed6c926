--------------------------- MODULE MCCallProtocol ---------------------------
(* Instances of CallProtocol, with its timers, for TLC.                    *)
EXTENDS CallProtocolInv, CallTimers

BothTimers   == Sides
AllCodes     == CloseCode
TwoDeadlines == {0, 2}

=============================================================================

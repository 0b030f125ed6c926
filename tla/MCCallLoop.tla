----------------------------- MODULE MCCallLoop -----------------------------
(* Instances of CallLoop for TLC.                                          *)
EXTENDS CallLoop

NoOne       == {}
Everyone    == Side
AnyBehavior == CalleeBehavior
AnyVerdict  == Verdict
AnyFault    == {"Timeout", "ProtocolViolation"}
AnyHook     == BOOLEAN
NoHook      == {FALSE}
AnyWeather  == BOOLEAN
Rough       == {FALSE}
Stub        == {"StubComplete"}
Limited     == {"rate_limited"}

=============================================================================

----------------------------- MODULE MCSpentSet -----------------------------
(* An instance of SpentSet for TLC: three calls, one one-shot token also   *)
(* seen with a further block, and Submits that fail for other facts.       *)
EXTENDS SpentSet, TLC

CONSTANTS c1, c2, c3, me, friend, stranger, t1, t2

MCCalls == {c1, c2, c3}
MCIds   == {t1, t2}

Token(i, expires, one_shot) ==
  [id |-> i, genuine |-> TRUE, callee |-> {me}, expires |-> expires,
   max_deadline |-> {}, content_type |-> {}, one_shot |-> one_shot]

From(peer, credential) ==
  [peer |-> peer, deadline |-> 2, content_type |-> "text", credential |-> credential]

Minted     == Token(t1, {3}, TRUE)
Attenuated == [Token(t1, {1, 3}, TRUE) EXCEPT !.max_deadline = {2}]
Narrow     == [Minted EXCEPT !.max_deadline = {1}]

MCSubmits ==
  {From(friend, Minted), From(stranger, NoCredential),
   From(stranger, Minted), From(stranger, Attenuated), From(stranger, Narrow),
   From(stranger, Token(t2, {2}, FALSE))}

(* Two one-shot tokens, the first of which expires soon.                   *)
MCTwoTokens == {From(stranger, Token(t1, {1}, TRUE)), From(stranger, Token(t2, {3}, TRUE))}

MCSymmetry == Permutations(MCCalls)

=============================================================================

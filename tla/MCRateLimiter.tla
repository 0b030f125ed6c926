--------------------------- MODULE MCRateLimiter ---------------------------
(* Instances of RateLimiter for TLC: one peer with several connections,    *)
(* one with a single one.                                                  *)
EXTENDS RateLimiter, TLC

CONSTANTS alice, bob, a1, a2, a3, b1

MCPeers  == {alice, bob}
MCConns  == {a1, a2, a3, b1}
MCPeerOf == [c \in MCConns |-> IF c = b1 THEN bob ELSE alice]

Caps(calls, minute, frames) ==
  [max_concurrent_calls |-> calls, max_calls_per_minute |-> minute, max_live_frames |-> frames]

(* The connections of alice are interchangeable.                           *)
MCSymmetry == Permutations({a1, a2, a3})

(* Each cap is the tightest once; RateLimitConfig::tight(n) is among them. *)
MCConfigs == {Caps(1, 3, 2), Caps(2, 3, 1), Caps(3, 2, 3), Caps(1, 1, 1)}

=============================================================================

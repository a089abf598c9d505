----------------------- MODULE MCRateLimiterHistory ------------------------
(***************************************************************************)
(* A small instance of RateLimiterHistory: two calls in flight, tools      *)
(* limited to one and to two calls and one that is blocked, a window of    *)
(* three ticks.                                                            *)
(***************************************************************************)
EXTENDS RateLimiterHistory, TLC

CONSTANTS c1, c2

MCCalls == {c1, c2}
MCLimits == {0, 1, 2}

Symmetry == Permutations(MCCalls)
=============================================================================

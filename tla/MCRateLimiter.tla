---------------------------- MODULE MCRateLimiter ----------------------------
(* RateLimiter on a few calls and a short clock, for TLC.                    *)
EXTENDS RateLimiter, TLC

CONSTANTS c1, c2, c3, c4

Symmetry == Permutations(Calls)
==============================================================================

---------------------------- MODULE MCRequestDetail ----------------------------
(* RequestDetail with a few pages and calls, for TLC.                        *)
EXTENDS RequestDetail, TLC

CONSTANTS r1, r2, h1, h2, h3, t1, t2, p1, p2

Symmetry == Permutations(Requests) \cup Permutations(Resolvers)
              \cup Permutations(Tenants) \cup Permutations(Pages)
================================================================================

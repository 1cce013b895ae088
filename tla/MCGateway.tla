------------------------------ MODULE MCGateway ------------------------------
(* Gateway on small sets of calls, for TLC.                                  *)
EXTENDS Gateway, TLC

CONSTANTS r1, r2, h1, h2, h3, t1, t2

\* Calls of a kind are interchangeable, and so are tenants.
Symmetry == Permutations(Requests) \cup Permutations(Resolvers)
              \cup Permutations(Tenants)
==============================================================================

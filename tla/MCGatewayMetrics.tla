--------------------------- MODULE MCGatewayMetrics ---------------------------
(* GatewayMetrics on small sets of calls and replicas, for TLC.              *)
EXTENDS GatewayMetrics, GatewayInvariant, TLC

CONSTANTS r1, r2, h1, h2, n1, n2, t1

Symmetry == Permutations(Requests) \cup Permutations(Resolvers)
              \cup Permutations(Replicas)
===============================================================================

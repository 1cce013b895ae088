-------------------------- MODULE MCGovernedGateway --------------------------
(* GovernedGateway on small sets of calls and policies, for TLC.             *)
EXTENDS GovernedGateway, GatewayImplements, TLC

CONSTANTS r1, r2, h1, h2, p1, p2, p3, t1, t2

Body(n, d, a) == [priority |-> n, decision |-> d, applies |-> a]

\* An allow, a hold, and an emergency block above both; to a call, a policy that
\* does not apply is like one that is not there.
MCBodies == {Body(1, "allow", Requests), Body(1, "approval_required", Requests),
             Body(2, "deny", Requests)}

Symmetry == Permutations(Requests) \cup Permutations(Resolvers)
              \cup Permutations(Policies) \cup Permutations(Tenants)
==============================================================================

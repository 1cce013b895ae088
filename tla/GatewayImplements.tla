--------------------------- MODULE GatewayImplements ---------------------------
(***************************************************************************)
(* The gateway implements ToolGovernance.  Where a request stands is read  *)
(* off the policy_decisions and approvals rows and off the executions; the *)
(* status of gateway_requests plays no part, which is why the races that   *)
(* corrupt it (README, "Findings") never let a tool run twice.             *)
(***************************************************************************)
EXTENDS GatewayInvariant

CallOf(r) ==
    CASE Executed(r)                      -> "run"
      [] ~Executed(r) /\ decision[r] = "none"  -> "proposed"
      [] ~Executed(r) /\ decision[r] = "allow" -> "allowed"
      [] ~Executed(r) /\ decision[r] = "deny"  -> "refused"
      [] OTHER ->
            CASE approval[r] = "approved" -> "approved"
              [] approval[r] = "denied"   -> "refused"
              [] OTHER                    -> "held"

RanBy(r) == {h \in Handlers : Event(r, h) \in executions}

Governance == INSTANCE ToolGovernance
    WITH call  <- [r \in Requests |-> CallOf(r)],
         ranBy <- [r \in Requests |-> RanBy(r)]

\* Every behaviour of the handlers, failures included, is one of the promise:
\* decided once, resolved only while held, run once and only when authorised.
Implements == Governance!Spec
=================================================================================

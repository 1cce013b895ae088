--------------------------- MODULE GatewayInvariant ---------------------------
(***************************************************************************)
(* The inductive invariant of Gateway: what ties the control points of the *)
(* handlers to the rows they have written, and to each other.              *)
(***************************************************************************)
EXTENDS Gateway

BeforeRecord == {"idle", "rate", "agent", "insert", "evaluate", "record"}
DenyPath     == {"deny", "denyAudit", "denied403"}
HoldPath     == {"hold", "holdStatus", "holdAudit", "held202"}
InvokeRan    == {"allow", "allowCost", "allowAudit", "allowed200"}
AllowPath    == InvokeRan \cup {"execute", "error", "errorAudit"}

ResolveRan == {"settle", "settleCost", "settleAudit", "granted200"}
Owning     == ResolveRan \cup {"run", "rollback"}
Found      == ResolveSteps \cup {"granted200", "denied200"}

\* The branch an invoke handler is on is the one it recorded, and an approval
\* exists only on the branch that asks for one.
DecisionInv ==
    \A r \in Requests :
        /\ invoke[r] \in BeforeRecord => decision[r] = "none"
        /\ invoke[r] = "record" => verdict[r] \in Decisions
        /\ invoke[r] \in DenyPath => decision[r] = "deny"
        /\ invoke[r] \in HoldPath => decision[r] = "approval_required"
        /\ invoke[r] \in AllowPath => decision[r] = "allow"
        /\ invoke[r] = "hold" => approval[r] = "none"
        /\ invoke[r] \in HoldPath \ {"hold"} => approval[r] # "none"
        /\ approval[r] # "none" => decision[r] = "approval_required"

\* A resolver that got past its lookup works on an approval of its tenant.
TargetInv ==
    \A h \in Resolvers : resolve[h] \in Found =>
        /\ target[h] \in Requests
        /\ caller[h] = tenant[target[h]]
        /\ approval[target[h]] # "none"

\* Resolver h owns the approval of r from its claim on, and for ever once it
\* has run the tool, even if it fails after that.
Owns(h, r) ==
    target[h] = r /\ (resolve[h] \in Owning \/ Event(r, h) \in executions)

\* An owned approval is approved, and it has one owner.
OwnerInv ==
    \A h \in Resolvers, r \in Requests : Owns(h, r) =>
        /\ approval[r] = "approved"
        /\ \A g \in Resolvers : Owns(g, r) => g = h

\* A handler has run the tool exactly when it is past doing so; one that
\* failed may or may not have.
RanInv ==
    /\ \A r \in Requests : invoke[r] \in InvokeRan => Event(r, r) \in executions
    /\ \A h \in Resolvers : resolve[h] \in ResolveRan =>
          Event(target[h], h) \in executions
    /\ \A e \in executions :
          /\ e.handler \in Requests =>
                invoke[e.handler] \in InvokeRan \cup {"failed500"}
          /\ e.handler \in Resolvers =>
                resolve[e.handler] \in ResolveRan \cup {"failed500"}

CostInv ==
    /\ costEvents \subseteq executions
    /\ \A r \in Requests : invoke[r] \in {"allowAudit", "allowed200"} =>
          Event(r, r) \in costEvents
    /\ \A h \in Resolvers : resolve[h] \in {"settleAudit", "granted200"} =>
          Event(target[h], h) \in costEvents

\* The status a path of invoke writes is not written over on another path,
\* but for the branch that asks for approval.
StatusInv ==
    \A r \in Requests :
        /\ invoke[r] \in {"denyAudit", "denied403"} => status[r] = "denied"
        /\ invoke[r] = "errorAudit" => status[r] = "error"
        /\ invoke[r] \in InvokeRan \ {"allow"} => status[r] = "allowed"
        /\ status[r] = "denied" => decision[r] = "deny"
        /\ status[r] = "error" => /\ decision[r] = "allow" /\ ~Executed(r)
                                  /\ invoke[r] \in {"errorAudit", "failed500"}
        /\ status[r] = "allowed" =>
              /\ decision[r] = "allow" /\ Executed(r)
              /\ invoke[r] \in {"allowCost", "allowAudit", "allowed200", "failed500"}
        /\ status[r] = "approved" => approval[r] = "approved" /\ Executed(r)

\* Every audit row is backed by the rows its handler wrote before it.
AuditInv == \A a \in auditLogs : AuditBacked(a)

\* An approved approval was claimed; a deny past its update, and what it has
\* written, is accounted for.
DenialInv ==
    /\ \A r \in Requests : approval[r] = "approved" => Overtaken(r)
    /\ \A h \in Resolvers : resolve[h] \in {"reject", "rejectAudit", "denied200"} =>
          DenialAccounted(target[h])
    /\ \A r \in Requests : DenialRecorded(r) => DenialAccounted(r)

\* The part that authority and at-most-once rest on.
AuthorityInv == /\ TypeOK /\ DecisionInv /\ TargetInv /\ OwnerInv /\ RanInv
                /\ ExecutedOnlyIfAuthorised

\* What every reachable state satisfies and every step preserves, whatever
\* fails: the executions, the decisions and the approvals stay in agreement,
\* and so do the rows that record them.
Inv == AuthorityInv /\ CostInv /\ StatusInv /\ AuditInv /\ DenialInv
===============================================================================

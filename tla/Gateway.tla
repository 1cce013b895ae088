------------------------------- MODULE Gateway -------------------------------
(***************************************************************************)
(* The gateway API: the handler of POST /v1/gateway/invoke                 *)
(* (routes/gateway.ts) and those of POST /v1/approvals/:id/approve and     *)
(* /deny (routes/approvals.ts), running concurrently over the Postgres     *)
(* tables they share (db/schema.ts).                                       *)
(*                                                                         *)
(* Every handler is an async function on one of several replicas, and      *)
(* every statement it awaits commits by itself: the code opens no          *)
(* transaction.  So each awaited statement is one action, taken together   *)
(* with the synchronous code that follows it, and handlers interleave      *)
(* between any two of them.  A handler is named by the call it serves: a   *)
(* request for invoke, a resolver for one approve or deny call.            *)
(***************************************************************************)
CONSTANTS
    Requests,      \* invoke calls: the request ids the gateway hands out
    Resolvers,     \* approve and deny calls, retries included
    Tenants,
    ToolOutcomes,  \* how executeTool may settle: "returns", "throws"
    MayFail,       \* whether a statement may be rejected or a replica die
    None           \* a field not set yet

ASSUME ConstantsAssumption ==
    /\ ToolOutcomes \subseteq {"returns", "throws"}
    /\ MayFail \in BOOLEAN
    /\ None \notin Requests \cup Tenants

ASSUME HandlersAssumption == Requests \cap Resolvers = {}

VARIABLES
    \* the invoke handlers: control point, tenant of the API key, evalResult
    invoke, tenant, verdict,
    \* the approve and deny handlers: control point, :id, tenant of the key
    resolve, target, caller,
    \* the tables, keyed by request where at most one row can exist
    status, decision, approval, costEvents, auditLogs,
    \* the calls of executeTool that returned (not stored by the program)
    executions

invokeVars  == <<invoke, tenant, verdict>>
resolveVars == <<resolve, target, caller>>
ledger      == <<costEvents, auditLogs>>
vars == <<invokeVars, resolveVars, status, decision, approval, ledger,
          executions>>

Handlers  == Requests \cup Resolvers
Decisions == {"allow", "deny", "approval_required"}

\* gateway_requests.status; "none" is a row not yet inserted.
Statuses == {"none", "pending", "allowed", "denied", "approval_required",
             "approved", "rejected", "error"}
ApprovalStatuses == {"none", "pending", "approved", "denied"}

\* A control point is named for the statement the handler awaits next.
InvokeSteps == {"rate", "agent", "insert", "evaluate", "record",
                "deny", "denyAudit", "hold", "holdStatus", "holdAudit",
                "execute", "error", "errorAudit",
                "allow", "allowCost", "allowAudit"}
InvokeReplies == {"allowed200", "held202", "invalid400", "unauthorized401",
                  "denied403", "missing404", "limited429", "failed500"}

ApproveSteps == {"approveRead", "claim", "run", "rollback", "settle",
                 "settleCost", "settleAudit"}
DenySteps    == {"denyRead", "flip", "reject", "rejectAudit"}
ResolveSteps == ApproveSteps \cup DenySteps
ResolveReplies == {"granted200", "denied200", "unauthorized401",
                   "missing404", "conflict409", "failed500"}

\* The rows of cost_events and the entries of executions.
Events == [request : Requests, handler : Handlers]

Event(r, h) == [request |-> r, handler |-> h]

\* The rows of audit_logs, with the handler that wrote each.
AuditActions == {"policy.evaluated", "approval.requested", "tool.executed",
                 "approval.granted", "approval.denied"}
AuditRows == [request : Requests, handler : Handlers,
              action : AuditActions, outcome : {"success", "failure"}]

TypeOK ==
    /\ invoke \in [Requests -> {"idle"} \cup InvokeSteps \cup InvokeReplies]
    /\ tenant \in [Requests -> Tenants \cup {None}]
    /\ verdict \in [Requests -> Decisions \cup {"none"}]
    /\ resolve \in [Resolvers -> {"idle"} \cup ResolveSteps \cup ResolveReplies]
    /\ target \in [Resolvers -> Requests \cup {None}]
    /\ caller \in [Resolvers -> Tenants \cup {None}]
    /\ status \in [Requests -> Statuses]
    /\ decision \in [Requests -> Decisions \cup {"none"}]
    /\ approval \in [Requests -> ApprovalStatuses]
    /\ costEvents \subseteq Events
    /\ auditLogs \subseteq AuditRows
    /\ executions \subseteq Events

Init ==
    /\ invoke = [r \in Requests |-> "idle"]
    /\ tenant = [r \in Requests |-> None]
    /\ verdict = [r \in Requests |-> "none"]
    /\ resolve = [h \in Resolvers |-> "idle"]
    /\ target = [h \in Resolvers |-> None]
    /\ caller = [h \in Resolvers |-> None]
    /\ status = [r \in Requests |-> "none"]
    /\ decision = [r \in Requests |-> "none"]
    /\ approval = [r \in Requests |-> "none"]
    /\ costEvents = {}
    /\ auditLogs = {}
    /\ executions = {}

-----------------------------------------------------------------------------
(* Statements the handlers share.                                          *)

InvokeStep(r, from, to) ==
    /\ invoke[r] = from
    /\ invoke' = [invoke EXCEPT ![r] = to]

ResolveStep(h, from, to) ==
    /\ resolve[h] = from
    /\ resolve' = [resolve EXCEPT ![h] = to]

\* UPDATE gateway_requests SET status = s WHERE id = r: no other condition.
SetStatus(r, s) == status' = [status EXCEPT ![r] = s]

\* The insert into cost_events; the figures of estimateCost are left out.
AddCost(r, h) == costEvents' = costEvents \cup {Event(r, h)}

WriteAudit(r, h, action, outcome) ==
    auditLogs' = auditLogs \cup {[request |-> r, handler |-> h,
                                  action |-> action, outcome |-> outcome]}

\* executeTool runs the tool for handler h and returns, or throws.  The mock
\* executor of the repository catches what its tools throw and returns
\* "success: false" for it, which neither caller looks at: both go on as after a
\* success (gateway.ts:330, approvals.ts:129), so the two returns are one here.
\* "throws" is what the catch branches of the callers are written for.
ToolReturns(r, h) ==
    /\ "returns" \in ToolOutcomes
    /\ executions' = executions \cup {Event(r, h)}

ToolThrows ==
    /\ "throws" \in ToolOutcomes
    /\ UNCHANGED executions

-----------------------------------------------------------------------------
(* POST /v1/gateway/invoke, serving request r.                             *)

\* authenticate finds the tenant t of the API key and the body is validated.
Receive(r, t) ==
    /\ InvokeStep(r, "idle", "rate")
    /\ tenant' = [tenant EXCEPT ![r] = t]
    /\ UNCHANGED <<verdict, resolveVars, status, decision, approval, ledger,
                   executions>>

\* No tenant has the key, or the body does not match InvokeSchema.
Refuse(r) ==
    /\ \E reply \in {"unauthorized401", "invalid400"} :
          InvokeStep(r, "idle", reply)
    /\ UNCHANGED <<tenant, verdict, resolveVars, status, decision, approval,
                   ledger, executions>>

CheckRateLimit(r) ==
    /\ \E next \in {"agent", "limited429"} : InvokeStep(r, "rate", next)
    /\ UNCHANGED <<tenant, verdict, resolveVars, status, decision, approval,
                   ledger, executions>>

\* The agent is looked up by id; one of another tenant counts as missing.
ResolveAgent(r) ==
    /\ \E next \in {"insert", "missing404"} : InvokeStep(r, "agent", next)
    /\ UNCHANGED <<tenant, verdict, resolveVars, status, decision, approval,
                   ledger, executions>>

InsertRequest(r) ==
    /\ InvokeStep(r, "insert", "evaluate")
    /\ SetStatus(r, "pending")
    /\ UNCHANGED <<tenant, verdict, resolveVars, decision, approval, ledger,
                   executions>>

\* The tenant's policies are read and the evaluator decides d on that
\* snapshot (module PolicyEngine says which d).
EvaluatePolicy(r, d) ==
    /\ InvokeStep(r, "evaluate", "record")
    /\ verdict' = [verdict EXCEPT ![r] = d]
    /\ UNCHANGED <<tenant, resolveVars, status, decision, approval, ledger,
                   executions>>

Branch(d) == CASE d = "deny" -> "deny"
               [] d = "approval_required" -> "hold"
               [] OTHER -> "execute"

RecordDecision(r) ==
    /\ InvokeStep(r, "record", Branch(verdict[r]))
    /\ decision' = [decision EXCEPT ![r] = verdict[r]]
    /\ UNCHANGED <<tenant, verdict, resolveVars, status, approval, ledger,
                   executions>>

\* (mutant) the row of a denied request is left pending
DenyWithoutStatus(r) ==
    /\ InvokeStep(r, "deny", "denyAudit")
    /\ UNCHANGED <<tenant, verdict, resolveVars, status, decision, approval,
                   ledger, executions>>

Deny(r) ==
    /\ InvokeStep(r, "deny", "denyAudit")
    /\ SetStatus(r, "denied")
    /\ UNCHANGED <<tenant, verdict, resolveVars, decision, approval, ledger,
                   executions>>

AuditDeny(r) ==
    /\ InvokeStep(r, "denyAudit", "denied403")
    /\ WriteAudit(r, r, "policy.evaluated", "success")
    /\ UNCHANGED <<tenant, verdict, resolveVars, status, decision, approval,
                   costEvents, executions>>

\* From here on the approval can be found, and resolved, by an operator.
InsertApproval(r) ==
    /\ InvokeStep(r, "hold", "holdStatus")
    /\ approval' = [approval EXCEPT ![r] = "pending"]
    /\ UNCHANGED <<tenant, verdict, resolveVars, status, decision, ledger,
                   executions>>

Hold(r) ==
    /\ InvokeStep(r, "holdStatus", "holdAudit")
    /\ SetStatus(r, "approval_required")
    /\ UNCHANGED <<tenant, verdict, resolveVars, decision, approval, ledger,
                   executions>>

AuditHold(r) ==
    /\ InvokeStep(r, "holdAudit", "held202")
    /\ WriteAudit(r, r, "approval.requested", "success")
    /\ UNCHANGED <<tenant, verdict, resolveVars, status, decision, approval,
                   costEvents, executions>>

Execute(r) ==
    /\ \/ ToolReturns(r, r) /\ InvokeStep(r, "execute", "allow")
       \/ ToolThrows /\ InvokeStep(r, "execute", "error")
    /\ UNCHANGED <<tenant, verdict, resolveVars, status, decision, approval,
                   ledger>>

MarkError(r) ==
    /\ InvokeStep(r, "error", "errorAudit")
    /\ SetStatus(r, "error")
    /\ UNCHANGED <<tenant, verdict, resolveVars, decision, approval, ledger,
                   executions>>

AuditError(r) ==
    /\ InvokeStep(r, "errorAudit", "failed500")
    /\ WriteAudit(r, r, "tool.executed", "failure")
    /\ UNCHANGED <<tenant, verdict, resolveVars, status, decision, approval,
                   costEvents, executions>>

Allow(r) ==
    /\ InvokeStep(r, "allow", "allowCost")
    /\ SetStatus(r, "allowed")
    /\ UNCHANGED <<tenant, verdict, resolveVars, decision, approval, ledger,
                   executions>>

CostAllow(r) ==
    /\ InvokeStep(r, "allowCost", "allowAudit")
    /\ AddCost(r, r)
    /\ UNCHANGED <<tenant, verdict, resolveVars, status, decision, approval,
                   auditLogs, executions>>

AuditAllow(r) ==
    /\ InvokeStep(r, "allowAudit", "allowed200")
    /\ WriteAudit(r, r, "tool.executed", "success")
    /\ UNCHANGED <<tenant, verdict, resolveVars, status, decision, approval,
                   costEvents, executions>>

\* A statement is rejected, which the error handler answers with a 500, or
\* the replica dies; what was written stays written.
FailInvoke(r) ==
    /\ MayFail
    /\ invoke[r] \in InvokeSteps
    /\ invoke' = [invoke EXCEPT ![r] = "failed500"]
    /\ UNCHANGED <<tenant, verdict, resolveVars, status, decision, approval,
                   ledger, executions>>

-----------------------------------------------------------------------------
(* POST /v1/approvals/:id/approve and /deny, served by resolver h.  A       *)
(* request has at most one approval, so :id is written as its request.      *)

\* (mutant) the lookup does not filter on the tenant
LookupAnyTenant(h, r, t, found) ==
    /\ resolve[h] = "idle"
    /\ resolve' = [resolve EXCEPT ![h] =
          IF approval[r] = "none" THEN "missing404"
          ELSE IF approval[r] # "pending" THEN "conflict409"
          ELSE found]
    /\ target' = [target EXCEPT ![h] = r]
    /\ caller' = [caller EXCEPT ![h] = t]
    /\ UNCHANGED <<invokeVars, status, decision, approval, ledger, executions>>

\* The first read, of the approval of request r, by a caller of tenant t:
\* the row must be of the tenant and must be pending.
Lookup(h, r, t, found) ==
    /\ resolve[h] = "idle"
    /\ resolve' = [resolve EXCEPT ![h] =
          IF approval[r] = "none" \/ tenant[r] # t THEN "missing404"
          ELSE IF approval[r] # "pending" THEN "conflict409"
          ELSE found]
    /\ target' = [target EXCEPT ![h] = r]
    /\ caller' = [caller EXCEPT ![h] = t]
    /\ UNCHANGED <<invokeVars, status, decision, approval, ledger, executions>>

ReadForApprove(h, r, t) == Lookup(h, r, t, "approveRead")

ReadForDeny(h, r, t) == Lookup(h, r, t, "denyRead")

\* No tenant has the API key.
RefuseResolver(h) ==
    /\ ResolveStep(h, "idle", "unauthorized401")
    /\ UNCHANGED <<invokeVars, target, caller, status, decision, approval,
                   ledger, executions>>

\* The second read, of the request: approvals.request_id references it, so
\* it is there, and what the handler uses of it never changes.
ReadRequest(h) ==
    /\ \/ ResolveStep(h, "approveRead", "claim")
       \/ ResolveStep(h, "denyRead", "flip")
    /\ UNCHANGED <<invokeVars, target, caller, status, decision, approval,
                   ledger, executions>>

\* (mutant) the update does not require the row to be pending
FlipAlways(r, to) == approval' = [approval EXCEPT ![r] = to]

\* UPDATE approvals SET status = to WHERE id AND status = 'pending'.
FlipPending(r, to) ==
    approval' = IF approval[r] = "pending"
                THEN [approval EXCEPT ![r] = to] ELSE approval

\* (mutant) the number of rows updated is not looked at
ClaimUnchecked(h) ==
    /\ ResolveStep(h, "claim", "run")
    /\ FlipPending(target[h], "approved")
    /\ UNCHANGED <<invokeVars, target, caller, status, decision, ledger,
                   executions>>

\* (mutant) the number of rows updated is tested the wrong way round
ClaimInverted(h) ==
    /\ ResolveStep(h, "claim",
          IF approval[target[h]] = "pending" THEN "conflict409" ELSE "run")
    /\ FlipPending(target[h], "approved")
    /\ UNCHANGED <<invokeVars, target, caller, status, decision, ledger,
                   executions>>

\* (mutant) the request is marked approved before the tool runs
ClaimMarksApproved(h) ==
    LET won == approval[target[h]] = "pending"
    IN  /\ ResolveStep(h, "claim", IF won THEN "run" ELSE "conflict409")
        /\ FlipPending(target[h], "approved")
        /\ status' = IF won THEN [status EXCEPT ![target[h]] = "approved"]
                     ELSE status
        /\ UNCHANGED <<invokeVars, target, caller, decision, ledger,
                       executions>>

\* The approve handler goes on only if its update found the row pending.
Claim(h) ==
    /\ ResolveStep(h, "claim",
          IF approval[target[h]] = "pending" THEN "run" ELSE "conflict409")
    /\ FlipPending(target[h], "approved")
    /\ UNCHANGED <<invokeVars, target, caller, status, decision, ledger,
                   executions>>

\* (mutant) the catch branch falls through to the writes after it
RunDeferredFallsThrough(h) ==
    /\ \/ ToolReturns(target[h], h) /\ ResolveStep(h, "run", "settle")
       \/ ToolThrows /\ ResolveStep(h, "run", "settle")
    /\ UNCHANGED <<invokeVars, target, caller, status, decision, approval,
                   ledger>>

\* (mutant) the approval is put back in a finally clause
RunDeferredFinally(h) ==
    /\ \/ ToolReturns(target[h], h) /\ ResolveStep(h, "run", "rollback")
       \/ ToolThrows /\ ResolveStep(h, "run", "rollback")
    /\ UNCHANGED <<invokeVars, target, caller, status, decision, approval,
                   ledger>>

RunDeferred(h) ==
    /\ \/ ToolReturns(target[h], h) /\ ResolveStep(h, "run", "settle")
       \/ ToolThrows /\ ResolveStep(h, "run", "rollback")
    /\ UNCHANGED <<invokeVars, target, caller, status, decision, approval,
                   ledger>>

\* (mutant) the approval is put back to a status of the other table
RollbackToHeld(h) ==
    /\ ResolveStep(h, "rollback", "failed500")
    /\ approval' = [approval EXCEPT ![target[h]] = "approval_required"]
    /\ UNCHANGED <<invokeVars, target, caller, status, decision, ledger,
                   executions>>

\* The catch branch: the approval is put back, whatever its status.
Rollback(h) ==
    /\ ResolveStep(h, "rollback", "failed500")
    /\ approval' = [approval EXCEPT ![target[h]] = "pending"]
    /\ UNCHANGED <<invokeVars, target, caller, status, decision, ledger,
                   executions>>

Settle(h) ==
    /\ ResolveStep(h, "settle", "settleCost")
    /\ SetStatus(target[h], "approved")
    /\ UNCHANGED <<invokeVars, target, caller, decision, approval, ledger,
                   executions>>

CostSettle(h) ==
    /\ ResolveStep(h, "settleCost", "settleAudit")
    /\ AddCost(target[h], h)
    /\ UNCHANGED <<invokeVars, target, caller, status, decision, approval,
                   auditLogs, executions>>

AuditSettle(h) ==
    /\ ResolveStep(h, "settleAudit", "granted200")
    /\ WriteAudit(target[h], h, "approval.granted", "success")
    /\ UNCHANGED <<invokeVars, target, caller, status, decision, approval,
                   costEvents, executions>>

\* The deny handler goes on whether or not its update found the row pending.
Flip(h) ==
    /\ ResolveStep(h, "flip", "reject")
    /\ FlipPending(target[h], "denied")
    /\ UNCHANGED <<invokeVars, target, caller, status, decision, ledger,
                   executions>>

Reject(h) ==
    /\ ResolveStep(h, "reject", "rejectAudit")
    /\ SetStatus(target[h], "rejected")
    /\ UNCHANGED <<invokeVars, target, caller, decision, approval, ledger,
                   executions>>

AuditReject(h) ==
    /\ ResolveStep(h, "rejectAudit", "denied200")
    /\ WriteAudit(target[h], h, "approval.denied", "success")
    /\ UNCHANGED <<invokeVars, target, caller, status, decision, approval,
                   costEvents, executions>>

FailResolve(h) ==
    /\ MayFail
    /\ resolve[h] \in ResolveSteps
    /\ resolve' = [resolve EXCEPT ![h] = "failed500"]
    /\ UNCHANGED <<invokeVars, target, caller, status, decision, approval,
                   ledger, executions>>

-----------------------------------------------------------------------------
\* What the handler of r does once the call has arrived.
InvokeProgress(r) ==
    \/ CheckRateLimit(r) \/ ResolveAgent(r) \/ InsertRequest(r)
    \/ \E d \in Decisions : EvaluatePolicy(r, d)
    \/ RecordDecision(r)
    \/ Deny(r) \/ AuditDeny(r)
    \/ InsertApproval(r) \/ Hold(r) \/ AuditHold(r)
    \/ Execute(r) \/ MarkError(r) \/ AuditError(r)
    \/ Allow(r) \/ CostAllow(r) \/ AuditAllow(r)

ResolveProgress(h) ==
    \/ ReadRequest(h)
    \/ Claim(h) \/ RunDeferred(h) \/ Rollback(h)
    \/ Settle(h) \/ CostSettle(h) \/ AuditSettle(h)
    \/ Flip(h) \/ Reject(h) \/ AuditReject(h)

Next ==
    \/ \E r \in Requests :
          \/ \E t \in Tenants : Receive(r, t)
          \/ Refuse(r) \/ InvokeProgress(r) \/ FailInvoke(r)
    \/ \E h \in Resolvers :
          \/ \E r \in Requests, t \in Tenants :
                ReadForApprove(h, r, t) \/ ReadForDeny(h, r, t)
          \/ RefuseResolver(h) \/ ResolveProgress(h) \/ FailResolve(h)

Spec == Init /\ [][Next]_vars

\* The event loop runs every handler that can go on and Postgres answers
\* every statement; nobody has to make a call.
Fairness ==
    /\ \A r \in Requests : WF_vars(InvokeProgress(r))
    /\ \A h \in Resolvers : WF_vars(ResolveProgress(h))

FairSpec == Spec /\ Fairness

-----------------------------------------------------------------------------
(* What the code guarantees, whatever fails and whoever races.             *)

Executed(r) == \E e \in executions : e.request = r

\* The tool runs for an invoke handler only on a recorded decision allow,
\* and for an approve handler only on a recorded decision approval_required
\* whose approval is, and stays, approved by a caller of the same tenant
\* (security-model.md:65: the decision is written before any execution).
ExecutedOnlyIfAuthorised ==
    \A e \in executions :
        \/ /\ e.handler = e.request
           /\ decision[e.request] = "allow"
        \/ /\ e.handler \in Resolvers
           /\ target[e.handler] = e.request
           /\ caller[e.handler] = tenant[e.request]
           /\ decision[e.request] = "approval_required"
           /\ approval[e.request] = "approved"

\* No two executions of one request complete: the compare-and-swap of the
\* approve handler, its rollback and its retries never let a second one in
\* (approvals.ts:69, "prevent double-execution").
ExecutedAtMostOnce ==
    \A e1, e2 \in executions : e1.request = e2.request => e1 = e2

\* The handler that wrote audit row a wrote the rows it speaks of before, and
\* they still say the same.  (For approval.denied see DenialRecorded.)
AuditBacked(a) ==
    /\ a.action = "policy.evaluated" => status[a.request] = "denied"
    /\ a.action = "approval.requested" => approval[a.request] # "none"
    /\ a.action = "approval.granted" =>
          /\ approval[a.request] = "approved"
          /\ Event(a.request, a.handler) \in costEvents
    /\ a.action = "tool.executed" /\ a.outcome = "success" =>
          /\ status[a.request] = "allowed"
          /\ Event(a.request, a.handler) \in costEvents
    /\ a.action = "tool.executed" /\ a.outcome = "failure" =>
          status[a.request] = "error"

\* What deny records of request r.
DenialRecorded(r) ==
    \/ status[r] = "rejected"
    \/ \E a \in auditLogs : a.request = r /\ a.action = "approval.denied"

\* An approve call of r won its claim, or some call of r failed (which may have
\* been such a one).
Overtaken(r) ==
    \E h \in Resolvers :
        /\ target[h] = r
        /\ resolve[h] \in {"run", "rollback", "settle", "settleCost",
                          "settleAudit", "granted200", "failed500"}

\* A denial is that of the approval, unless deny lost the race of approvals.ts:234
\* to an approve: the one way in which what it tells is not so.
DenialAccounted(r) == approval[r] = "denied" \/ Overtaken(r)

\* What the tables say happened did happen.  A cost is charged only for an
\* execution, by the handler that ran it.  A request row reads allowed or
\* approved only when the tool ran under that authority, and error or denied
\* only when it never runs.  Every audit row but approval.denied is backed by
\* other rows.  That row, and the status rejected, are untrue when deny lost to
\* an approve (DeniedNeverExecuted below is violated); all that holds of them is
\* that there is no other reason for which they are.
RecordsTruthful ==
    /\ costEvents \subseteq executions
    /\ \A r \in Requests :
          /\ status[r] = "allowed" => decision[r] = "allow" /\ Executed(r)
          /\ status[r] = "approved" => approval[r] = "approved" /\ Executed(r)
          /\ status[r] \in {"denied", "error"} => ~Executed(r)
    /\ \A a \in auditLogs : AuditBacked(a)
    /\ \A r \in Requests : DenialRecorded(r) => DenialAccounted(r)

\* What a caller of invoke or approve is told stays true.  At most one approve
\* call of a request is answered 200, and it then ran the tool and recorded it;
\* a request answered 403 never runs; one answered 200 ran exactly for that call
\* (architecture.md:142, "only one write succeeds; the other receives a 409").
\* The 200 of deny says "denied" also when deny lost to an approve
\* (DeniedNeverExecuted below), and for no other reason when it is not so.
RepliesTruthful ==
    /\ \A r \in Requests :
          /\ invoke[r] = "allowed200" =>
                Event(r, r) \in costEvents
          /\ invoke[r] = "denied403" => ~Executed(r) /\ approval[r] = "none"
          /\ invoke[r] = "held202" => approval[r] # "none"
    /\ \A h \in Resolvers : resolve[h] = "granted200" =>
          /\ approval[target[h]] = "approved"
          /\ Event(target[h], h) \in costEvents
    /\ \A h \in Resolvers : resolve[h] = "denied200" =>
          DenialAccounted(target[h])
    /\ \A g, h \in Resolvers :
          /\ resolve[g] = "granted200" /\ resolve[h] = "granted200"
          /\ target[g] = target[h]
          => g = h

\* How the approval of a request may move: a denial is final, and an approved
\* one is put back to pending only while the tool has not run, so that the
\* retry the rollback allows (approvals.ts:106) cannot run it again.
ApprovalMoves ==
    \A r \in Requests : approval'[r] # approval[r] =>
        \/ approval[r] = "none" /\ approval'[r] = "pending"
           /\ decision[r] = "approval_required"
        \/ approval[r] = "pending" /\ approval'[r] \in {"approved", "denied"}
        \/ approval[r] = "approved" /\ approval'[r] = "pending"
           /\ ~Executed(r)
ApprovalProtocol == [][ApprovalMoves]_vars

\* Without failures, an approval that has been granted leads to the tool
\* running or, when it throws, to the approval waiting for a retry: no
\* approved request is forgotten.
ApprovedIsServed ==
    \A r \in Requests :
        approval[r] = "approved" ~> Executed(r) \/ approval[r] = "pending"

\* A request that reached the gateway is answered, and by then its row is no
\* longer pending: whatever branch it takes, the row is settled or held.
EveryCallSettled ==
    \A r \in Requests :
        invoke[r] = "rate" ~> /\ invoke[r] \in InvokeReplies
                              /\ status[r] # "pending"

\* The safety half of both: an approval that reads approved is one whose tool
\* ran, or one that a handler still on its way will run or put back, unless a
\* failure took that handler; and a request whose branch has ended does not
\* read pending.
NoneStranded ==
    \A r \in Requests :
        /\ approval[r] = "approved" =>
              \/ Executed(r)
              \/ \E h \in Resolvers :
                    /\ target[h] = r
                    /\ \/ resolve[h] \in {"run", "rollback"}
                       \/ MayFail /\ resolve[h] = "failed500"
        /\ \/ invoke[r] \in {"allowed200", "denied403", "held202"}
           \/ ~MayFail /\ invoke[r] = "failed500"
           => status[r] \notin {"none", "pending"}

-----------------------------------------------------------------------------
(* What comments and documents say, and the code does not guarantee.       *)

\* approvals.ts:233 says the status flip of deny "prevents concurrent
\* deny+approve races": a call that was answered "denied", after the status
\* rejected and the audit row approval.denied were written of its request
\* (approvals.ts:249-270), was not executed.
DeniedNeverExecuted ==
    \A h \in Resolvers : resolve[h] = "denied200" => ~Executed(target[h])

\* architecture.md:128-132 shows the request held, and the approval made known,
\* before an operator approves: an approved request does not become held.
ApprovedNotHeldAgain ==
    [][\A r \in Requests :
          status[r] = "approved" => status'[r] # "approval_required"]_vars
=============================================================================

---------------------------- MODULE GatewayMetrics ----------------------------
(***************************************************************************)
(* Gateway on several replicas, with the counters each keeps in its memory *)
(* (metrics.ts) and GET /metrics renders.  A replica that dies takes the   *)
(* handlers it runs and its counters with it; the tables stay.             *)
(***************************************************************************)
EXTENDS Gateway, Integers, FiniteSets

CONSTANT Replicas

VARIABLES
    home,    \* the replica a call was sent to
    count,   \* per replica, the value of each series
    broken   \* whether a statement was rejected or a replica died

metricsVars == <<home, count, broken>>
meteredVars == <<vars, metricsVars>>

\* A series is a metric with one of its labels; the tenant and the tool are
\* left out.  A histogram is seen as its count.  The limiter's own counter of
\* Redis errors is left out: no row could back it.
RequestTotal == "gateway_requests_total"
Series ==
    {<<RequestTotal, s>> : s \in {"rate_limited", "denied", "approval_required",
                               "allowed"}}
    \cup {<<"policy_decisions_total", d>> : d \in Decisions}
    \cup {<<m, "">> : m \in {"tool_executions_total", "approvals_pending_total",
                             "gateway_request_duration_ms"}}

Status(s) == <<RequestTotal, s>>
Decided(d) == <<"policy_decisions_total", d>>
Executions == <<"tool_executions_total", "">>
Pending == <<"approvals_pending_total", "">>
Latency == <<"gateway_request_duration_ms", "">>

MeteredTypeOK ==
    /\ TypeOK
    /\ home \in [Handlers -> Replicas \cup {None}]
    /\ count \in [Replicas -> [Series -> Nat]]
    /\ broken \in BOOLEAN

Zero == [s \in Series |-> 0]

MeteredInit ==
    /\ Init
    /\ home = [x \in Handlers |-> None]
    /\ count = [p \in Replicas |-> Zero]
    /\ broken = FALSE

-----------------------------------------------------------------------------
\* incCounter and observeHistogram for each series of S, by the handler of
\* call x: a series starts at zero and goes up by one.
Increment(x, S) ==
    count' = [count EXCEPT ![home[x]] =
                [s \in Series |-> IF s \in S THEN @[s] + 1 ELSE @[s]]]

Uncounted == UNCHANGED <<home, count>>

\* A call is sent to one of the replicas.
Route(x) ==
    /\ \E p \in Replicas : home' = [home EXCEPT ![x] = p]
    /\ UNCHANGED count

\* What the invoke handler does where it counts nothing.
InvokeUncounted(r) ==
    \/ ResolveAgent(r) \/ InsertRequest(r) \/ RecordDecision(r)
    \/ Deny(r) \/ InsertApproval(r) \/ Hold(r)
    \/ Execute(r) \/ MarkError(r) \/ AuditError(r)
    \/ Allow(r) \/ CostAllow(r)

\* The answer of the limiter; a call it refuses is counted.
LimitCounted(r) ==
    /\ CheckRateLimit(r)
    /\ IF invoke'[r] = "limited429"
       THEN Increment(r, {Status("rate_limited")}) ELSE UNCHANGED count
    /\ UNCHANGED home

EvaluateCounted(r) ==
    /\ \E d \in Decisions : EvaluatePolicy(r, d) /\ Increment(r, {Decided(d)})
    /\ UNCHANGED home

\* The branches count what they did once its audit row is written.
DenyCounted(r) ==
    /\ AuditDeny(r)
    /\ Increment(r, {Status("denied"), Latency})
    /\ UNCHANGED home

HoldCounted(r) ==
    /\ AuditHold(r)
    /\ Increment(r, {Status("approval_required"), Pending, Latency})
    /\ UNCHANGED home

AllowCounted(r) ==
    /\ AuditAllow(r)
    /\ Increment(r, {Status("allowed"), Executions, Latency})
    /\ UNCHANGED home

ResolveUncounted(h) ==
    \/ ReadRequest(h)
    \/ Claim(h) \/ RunDeferred(h) \/ Rollback(h) \/ Settle(h) \/ CostSettle(h)
    \/ Flip(h) \/ Reject(h) \/ AuditReject(h)

\* (mutant) a deferred execution is not counted
SettleForgotten(h) == AuditSettle(h) /\ Uncounted

\* (mutant) the gauge of pending approvals is decremented where one is settled
SettleDecrements(h) ==
    /\ AuditSettle(h)
    /\ count' = [count EXCEPT ![home[h]][Executions] = @ + 1,
                             ![home[h]][Pending] = @ - 1]
    /\ UNCHANGED home

SettleCounted(h) ==
    /\ AuditSettle(h)
    /\ Increment(h, {Executions})
    /\ UNCHANGED home

\* (mutant) a deferred execution is counted in a finally clause
RejectStatementFinally ==
    /\ \/ (\E r \in Requests : FailInvoke(r)) /\ UNCHANGED count
       \/ \E h \in Resolvers :
             FailResolve(h) /\ Increment(h, {Executions})
    /\ broken' = TRUE
    /\ UNCHANGED home

\* A statement is rejected.
RejectStatement ==
    /\ \/ \E r \in Requests : FailInvoke(r)
       \/ \E h \in Resolvers : FailResolve(h)
    /\ broken' = TRUE
    /\ Uncounted

\* A replica dies and is started again.
Crash(p) ==
    /\ MayFail
    /\ invoke' = [r \in Requests |->
                    IF home[r] = p /\ invoke[r] \in InvokeSteps
                    THEN "failed500" ELSE invoke[r]]
    /\ resolve' = [h \in Resolvers |->
                    IF home[h] = p /\ resolve[h] \in ResolveSteps
                    THEN "failed500" ELSE resolve[h]]
    /\ count' = [count EXCEPT ![p] = Zero]
    /\ broken' = TRUE
    /\ UNCHANGED <<tenant, verdict, target, caller, status, decision, approval,
                   ledger, executions, home>>

Serve ==
    \/ \E r \in Requests :
          \/ (\E t \in Tenants : Receive(r, t)) /\ Route(r)
          \/ Refuse(r) /\ Uncounted
          \/ LimitCounted(r) \/ EvaluateCounted(r)
          \/ DenyCounted(r) \/ HoldCounted(r) \/ AllowCounted(r)
          \/ InvokeUncounted(r) /\ Uncounted
    \/ \E h \in Resolvers :
          \/ /\ \E r \in Requests, t \in Tenants :
                   ReadForApprove(h, r, t) \/ ReadForDeny(h, r, t)
             /\ Route(h)
          \/ RefuseResolver(h) /\ Uncounted
          \/ SettleCounted(h)
          \/ ResolveUncounted(h) /\ Uncounted

MeteredNext ==
    \/ Serve /\ UNCHANGED broken
    \/ RejectStatement
    \/ \E p \in Replicas : Crash(p)

MeteredSpec == MeteredInit /\ [][MeteredNext]_meteredVars

-----------------------------------------------------------------------------
\* What a query over all replicas sums up: every increment it finds of a series
\* counts once, whichever replica it was made on.
Ticks(s) == UNION {{p} \X (1..count[p][s]) : p \in Replicas}
Total(s) == Cardinality(Ticks(s))

Audited(action) ==
    Cardinality({a \in auditLogs : a.action = action /\ a.outcome = "success"})

\* The counters never show more than the audit log, whatever dies or fails in
\* between: an execution, a denial or a hold that is counted is on record
\* ("successful tool executions", README.md:281).
CountersBacked ==
    /\ Total(Executions) <= Audited("tool.executed") + Audited("approval.granted")
    /\ Total(Status("allowed")) <= Audited("tool.executed")
    /\ Total(Status("denied")) <= Audited("policy.evaluated")
    /\ Total(Pending) <= Audited("approval.requested")

AtRest ==
    /\ \A r \in Requests : invoke[r] \notin InvokeSteps
    /\ \A h \in Resolvers : resolve[h] \notin ResolveSteps

\* As long as no statement was rejected and no replica died, they miss nothing:
\* when all handlers have answered, every execution is counted once, on
\* whichever replica it ran and by whichever of the two handlers, every recorded
\* decision once, and every call that got one was timed unless its tool threw.
CountersComplete ==
    ~broken /\ AtRest =>
        /\ Total(Executions) = Cardinality(executions)
        /\ \A d \in Decisions :
              Total(Decided(d)) = Cardinality({r \in Requests : decision[r] = d})
        /\ Total(Latency) = Cardinality({r \in Requests :
                               decision[r] # "none" /\ status[r] # "error"})

-----------------------------------------------------------------------------
(* The inductive invariant of the counters.                                *)

\* An audit row is the last thing its handler writes.
RowsInv ==
    \A a \in auditLogs :
        /\ a.handler \in Requests => invoke[a.handler] \in InvokeReplies
        /\ a.handler \in Resolvers => resolve[a.handler] \in ResolveReplies

\* A handler that is under way runs on a replica.
HomeInv ==
    /\ \A r \in Requests : invoke[r] \in InvokeSteps => home[r] \in Replicas
    /\ \A h \in Resolvers : resolve[h] \in ResolveSteps => home[h] \in Replicas

FiniteInv ==
    IsFiniteSet(auditLogs) /\ \A s \in Series : IsFiniteSet(Ticks(s))

\* Why a handler is where it is when nothing was rejected and no replica died:
\* it left before the decision, or recorded the one it was given, and it
\* answered 500 only because the tool threw.
OrderlyInv ==
    /\ \A r \in Requests :
          /\ invoke[r] \in {"invalid400", "unauthorized401", "limited429",
                            "missing404"} => decision[r] = "none"
          /\ invoke[r] # "record" => verdict[r] = decision[r]
          /\ invoke[r] = "failed500" => status[r] = "error"
    /\ \A e \in executions :
          e.handler \in Resolvers => resolve[e.handler] # "failed500"

\* What has been counted: the executions whose handlers have answered, the
\* verdicts, and the answers that say what became of a decision.
Reported ==
    {e \in executions :
        \/ e.handler \in Requests /\ invoke[e.handler] = "allowed200"
        \/ e.handler \in Resolvers /\ resolve[e.handler] = "granted200"}
Judged(d) == {r \in Requests : verdict[r] = d}
Timed == {r \in Requests : invoke[r] \in {"denied403", "held202", "allowed200"}}

ExactInv ==
    /\ IsFiniteSet(Reported) /\ Total(Executions) = Cardinality(Reported)
    /\ \A d \in Decisions :
          IsFiniteSet(Judged(d)) /\ Total(Decided(d)) = Cardinality(Judged(d))
    /\ IsFiniteSet(Timed) /\ Total(Latency) = Cardinality(Timed)

\* What every reachable state satisfies and every step preserves: besides
\* CountersBacked, and until something fails, that each counter has counted
\* exactly the handlers that are past counting.
CounterInv ==
    /\ RowsInv /\ HomeInv /\ FiniteInv /\ CountersBacked
    /\ ~broken => OrderlyInv /\ ExactInv
=============================================================================

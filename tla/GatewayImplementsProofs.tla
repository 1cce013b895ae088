------------------------ MODULE GatewayImplementsProofs ------------------------
(***************************************************************************)
(* Proof that Gateway implements ToolGovernance.  A step of a handler that *)
(* writes a decision, an approval or an execution is a step of the promise *)
(* or leaves it alone; every other step leaves it alone.                   *)
(***************************************************************************)
EXTENDS GatewayImplements, GatewayProofs

\* The statements that can change where a request stands.
LEMMA Writers ==
    ASSUME [Next]_vars
    PROVE  \/ UNCHANGED <<decision, approval, executions>>
           \/ \E r \in Requests :
                 RecordDecision(r) \/ InsertApproval(r) \/ Execute(r)
           \/ \E h \in Resolvers :
                 Claim(h) \/ Flip(h) \/ Rollback(h) \/ RunDeferred(h)
  BY DEF Next, InvokeProgress, ResolveProgress, vars, ledger,
         Receive, Refuse, CheckRateLimit, ResolveAgent, InsertRequest, EvaluatePolicy,
         Deny, AuditDeny, Hold, AuditHold, MarkError, AuditError, Allow, CostAllow,
         AuditAllow, FailInvoke, ReadForApprove, ReadForDeny, Lookup, RefuseResolver,
         ReadRequest, Settle, CostSettle, AuditSettle, Reject, AuditReject, FailResolve

\* Moving one request and leaving the others where they are is a Move.
LEMMA IsMove ==
    ASSUME NEW r \in Requests, NEW from, NEW to,
           CallOf(r) \in from, CallOf(r)' = to,
           \A q \in Requests \ {r} : CallOf(q)' = CallOf(q)
    PROVE  Governance!Move(r, from, to)
  BY DEF Governance!Move

\* Completing a tool call nobody completed before, while authorised, is a Run.
LEMMA IsRun ==
    ASSUME NEW r \in Requests, NEW h \in Handlers,
           ~Executed(r), CallOf(r) \in {"allowed", "approved"},
           executions' = executions \cup {Event(r, h)},
           UNCHANGED <<decision, approval>>
    PROVE  Governance!Run(r, h)
  <1>1. \A q \in Requests \ {r} : Executed(q)' = Executed(q)
    BY DEF Executed, Event
  <1>2. Executed(r)'
    <2>1. Event(r, h) \in executions' /\ Event(r, h).request = r
      BY DEF Event
    <2> QED
      BY <2>1 DEF Executed
  <1>3. Governance!Move(r, {"allowed", "approved"}, "run")
    BY <1>1, <1>2, IsMove DEF CallOf
  <1>4. RanBy(r) = {} /\ RanBy(r)' = {h}
    BY DEF RanBy, Executed, Event
  <1>5. \A q \in Requests \ {r} : RanBy(q)' = RanBy(q)
    BY DEF RanBy, Event
  <1> QED
    BY <1>3, <1>4, <1>5 DEF Governance!Run

\* Each action of the gateway is one action of the promise, or a stutter.
LEMMA StepImplements ==
    AuthorityInv /\ [Next]_vars
      => [Governance!Next]_<<[r \in Requests |-> CallOf(r)],
                             [r \in Requests |-> RanBy(r)]>>
  <1> SUFFICES ASSUME AuthorityInv, [Next]_vars
               PROVE  \/ Governance!Next
                      \/ UNCHANGED <<[r \in Requests |-> CallOf(r)],
                                     [r \in Requests |-> RanBy(r)]>>
    OBVIOUS
  <1> USE DEF AuthorityInv
  <1>1. CASE UNCHANGED <<decision, approval, executions>>
    BY <1>1 DEF CallOf, RanBy, Executed
  <1>2. ASSUME NEW r \in Requests, RecordDecision(r) PROVE Governance!Next
    <2>1. decision[r] = "none" /\ verdict[r] \in Decisions /\ ~Executed(r)
      BY <1>2 DEF RecordDecision, InvokeStep, DecisionInv, BeforeRecord,
                  ExecutedOnlyIfAuthorised, Executed
    <2>2. approval[r] = "none"
      BY <2>1 DEF DecisionInv
    <2>3. decision' = [decision EXCEPT ![r] = verdict[r]]
          /\ UNCHANGED <<approval, executions>> /\ r \in DOMAIN decision
      BY <1>2 DEF RecordDecision, TypeOK
    <2>4. CallOf(r) = "proposed" /\ CallOf(r)' \in {"allowed", "held", "refused"}
      BY <2>1, <2>2, <2>3 DEF CallOf, Executed, Decisions
    <2>5. \A q \in Requests \ {r} : CallOf(q)' = CallOf(q)
      BY <2>3 DEF CallOf, Executed
    <2>6. \E to \in {"allowed", "held", "refused"} :
              Governance!Move(r, {"proposed"}, to)
      BY <2>4, <2>5, IsMove
    <2>7. UNCHANGED [q \in Requests |-> RanBy(q)]
      BY <2>3 DEF RanBy
    <2> QED
      BY <2>6, <2>7 DEF Governance!Next, Governance!Decide
  <1>3. ASSUME NEW r \in Requests, InsertApproval(r)
        PROVE  UNCHANGED <<[q \in Requests |-> CallOf(q)],
                           [q \in Requests |-> RanBy(q)]>>
    <2>1. approval[r] = "none" /\ approval \in [Requests -> ApprovalStatuses]
      BY <1>3 DEF InsertApproval, InvokeStep, DecisionInv, TypeOK
    <2>2. approval' = [approval EXCEPT ![r] = "pending"]
          /\ UNCHANGED <<decision, executions>>
      BY <1>3 DEF InsertApproval
    <2> QED
      BY <2>1, <2>2 DEF CallOf, RanBy, Executed
  <1>4. ASSUME NEW r \in Requests, Execute(r), executions' # executions
        PROVE  Governance!Next
    <2>1. decision[r] = "allow" /\ invoke[r] = "execute"
      BY <1>4 DEF Execute, InvokeStep, DecisionInv, AllowPath
    <2>2. ~Executed(r)
      BY <2>1 DEF ExecutedOnlyIfAuthorised, Executed, RanInv, InvokeRan
    <2>3. CallOf(r) = "allowed"
      BY <2>1, <2>2 DEF CallOf
    <2>4. Governance!Run(r, r)
      BY <1>4, <2>2, <2>3, IsRun DEF Execute, ToolReturns, ToolThrows, Handlers
    <2> QED
      BY <2>4 DEF Governance!Next, Handlers
  <1>5. ASSUME NEW h \in Resolvers, RunDeferred(h), executions' # executions
        PROVE  Governance!Next
    <2>1. /\ target[h] \in Requests /\ resolve[h] = "run"
          /\ Owns(h, target[h])
      BY <1>5 DEF RunDeferred, ResolveStep, TargetInv, Found, ResolveSteps,
                  ApproveSteps, Owns, Owning
    <2>2. /\ approval[target[h]] = "approved"
          /\ decision[target[h]] = "approval_required"
      BY <2>1 DEF OwnerInv, DecisionInv
    <2>3. ~Executed(target[h])
      <3>1. ASSUME NEW e \in executions, e.request = target[h]
            PROVE  e.handler \in Resolvers /\ Owns(e.handler, target[h])
        BY <2>2, <3>1 DEF ExecutedOnlyIfAuthorised, TypeOK, Events, Owns, Event
      <3>2. \A g \in Resolvers : Owns(g, target[h]) => g = h
        BY <2>1 DEF OwnerInv
      <3>3. \A e \in executions : e.handler # h
        BY <2>1 DEF RanInv, ResolveRan
      <3> QED
        BY <3>1, <3>2, <3>3 DEF Executed
    <2>4. CallOf(target[h]) = "approved"
      BY <2>2, <2>3 DEF CallOf
    <2>5. Governance!Run(target[h], h)
      BY <1>5, <2>1, <2>3, <2>4, IsRun DEF RunDeferred, ToolReturns, ToolThrows, Handlers
    <2> QED
      BY <2>1, <2>5 DEF Governance!Next, Handlers
  <1>6. ASSUME NEW h \in Resolvers, Claim(h) \/ Flip(h), approval' # approval
        PROVE  Governance!Next
    <2>1. PICK r \in Requests : r = target[h] /\ approval[r] = "pending"
      BY <1>6 DEF Claim, Flip, FlipPending, ResolveStep, TargetInv, Found,
                  ResolveSteps, ApproveSteps, DenySteps
    <2>2. decision[r] = "approval_required" /\ ~Executed(r)
      BY <2>1 DEF DecisionInv, ExecutedOnlyIfAuthorised, Executed
    <2>3. PICK to \in {"approved", "denied"} :
              approval' = [approval EXCEPT ![r] = to]
              /\ UNCHANGED <<decision, executions>>
      BY <1>6, <2>1 DEF Claim, Flip, FlipPending, ledger
    <2>4. approval \in [Requests -> ApprovalStatuses]
      BY DEF TypeOK
    <2>5. CallOf(r) = "held" /\ CallOf(r)' \in {"approved", "refused"}
      BY <2>1, <2>2, <2>3, <2>4 DEF CallOf, Executed
    <2>6. \A q \in Requests \ {r} : CallOf(q)' = CallOf(q)
      BY <2>3, <2>4 DEF CallOf, Executed
    <2>7. \E s \in {"approved", "refused"} : Governance!Move(r, {"held"}, s)
      BY <2>1, <2>5, <2>6, IsMove
    <2>8. UNCHANGED [q \in Requests |-> RanBy(q)]
      BY <2>3 DEF RanBy
    <2> QED
      BY <2>1, <2>7, <2>8 DEF Governance!Next, Governance!Resolve
  <1>7. ASSUME NEW h \in Resolvers, Rollback(h) PROVE Governance!Next
    <2>1. PICK r \in Requests :
              r = target[h] /\ resolve[h] = "rollback" /\ Owns(h, r)
      BY <1>7 DEF Rollback, ResolveStep, TargetInv, Found, ResolveSteps,
                  ApproveSteps, Owns, Owning
    <2>2. /\ approval[r] = "approved" /\ decision[r] = "approval_required"
          /\ ~Executed(r)
      BY <2>1, RollbackUnrun DEF OwnerInv, DecisionInv
    <2>3. approval' = [approval EXCEPT ![r] = "pending"]
          /\ UNCHANGED <<decision, executions>>
          /\ approval \in [Requests -> ApprovalStatuses]
      BY <1>7, <2>1 DEF Rollback, TypeOK
    <2>4. CallOf(r) = "approved" /\ CallOf(r)' = "held"
      BY <2>1, <2>2, <2>3 DEF CallOf, Executed
    <2>5. \A q \in Requests \ {r} : CallOf(q)' = CallOf(q)
      BY <2>3 DEF CallOf, Executed
    <2>6. Governance!Move(r, {"approved"}, "held")
      BY <2>1, <2>4, <2>5, IsMove
    <2>7. UNCHANGED [q \in Requests |-> RanBy(q)]
      BY <2>3 DEF RanBy
    <2> QED
      BY <2>1, <2>6, <2>7 DEF Governance!Next, Governance!Reopen
  <1>8. ASSUME NEW r \in Requests, Execute(r), executions' = executions
        PROVE  UNCHANGED <<decision, approval, executions>>
    BY <1>8 DEF Execute
  <1>9. ASSUME NEW h \in Resolvers, RunDeferred(h), executions' = executions
        PROVE  UNCHANGED <<decision, approval, executions>>
    BY <1>9 DEF RunDeferred
  <1>10. ASSUME NEW h \in Resolvers, Claim(h) \/ Flip(h), approval' = approval
         PROVE  UNCHANGED <<decision, approval, executions>>
    BY <1>10 DEF Claim, Flip
  <1> QED
    BY <1>1, <1>2, <1>3, <1>4, <1>5, <1>6, <1>7, <1>8, <1>9, <1>10, Writers

\* The gateway keeps its promise: every behaviour of its handlers decides a
\* call once, resolves it only while it is held, and runs it at most once and
\* only when authorised.
THEOREM Implementation == Spec => Implements
  <1>1. Init => Governance!Init
    BY DEF Init, Governance!Init, CallOf, RanBy, Executed
  <1>2. Inv /\ [Next]_vars
          => [Governance!Next]_<<[r \in Requests |-> CallOf(r)],
                                 [r \in Requests |-> RanBy(r)]>>
    BY StepImplements DEF Inv
  <1> QED
    BY <1>1, <1>2, Invariance, PTL DEF Spec, Implements, Governance!Spec
===============================================================================

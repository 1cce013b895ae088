---------------------------- MODULE GatewayProofs ----------------------------
(***************************************************************************)
(* Proofs about Gateway, for any sets of calls and tenants, any outcomes   *)
(* of the tool and any failures.  Inv is inductive: AuthorityInv by itself *)
(* (executions, decisions, approvals), and the parts about the rows that   *)
(* record them relative to it.  The safety properties follow from Inv.     *)
(***************************************************************************)
EXTENDS GatewayInvariant, TLAPS

USE ConstantsAssumption, HandlersAssumption

\* Nothing has been decided, approved or run at the start.
LEMMA AuthorityInit == Init => AuthorityInv
  BY DEF Init, AuthorityInv, TypeOK, DecisionInv, TargetInv, OwnerInv, Owns, RanInv,
             ExecutedOnlyIfAuthorised, BeforeRecord, DenyPath, HoldPath, AllowPath,
             InvokeRan, InvokeSteps,
             InvokeReplies, ResolveRan, Owning, Found, ResolveSteps, ApproveSteps,
             DenySteps, ResolveReplies, Handlers, Decisions, Statuses,
             ApprovalStatuses, AuditActions, AuditRows, Events, Event

\* The steps that matter are Claim, which takes an approval nobody owns, the
\* two that run the tool, and Rollback, which gives up an approval that nobody
\* else owns and under which nothing ran; the others disturb nothing.
LEMMA AuthorityStep == AuthorityInv /\ [Next]_vars => AuthorityInv'
  <1> SUFFICES ASSUME AuthorityInv, [Next]_vars PROVE AuthorityInv'
    OBVIOUS
  <1> USE DEF AuthorityInv, TypeOK, DecisionInv, TargetInv, OwnerInv, Owns, RanInv,
             ExecutedOnlyIfAuthorised,
             BeforeRecord, DenyPath, HoldPath, AllowPath, InvokeRan, InvokeSteps,
             InvokeReplies, ResolveRan, Owning, Found, ResolveSteps, ApproveSteps,
             DenySteps, ResolveReplies, Handlers, Decisions, Statuses,
             ApprovalStatuses, AuditActions, AuditRows, Events, Event,
             InvokeStep, ResolveStep, SetStatus, AddCost, WriteAudit, ToolReturns,
             ToolThrows, invokeVars, resolveVars, ledger
  <1>1. ASSUME NEW r \in Requests, NEW t \in Tenants, Receive(r, t) PROVE AuthorityInv'
    BY <1>1 DEF Receive
  <1>2. ASSUME NEW r \in Requests, Refuse(r) PROVE AuthorityInv'
    BY <1>2 DEF Refuse
  <1>3. ASSUME NEW r \in Requests, CheckRateLimit(r) PROVE AuthorityInv'
    BY <1>3 DEF CheckRateLimit
  <1>4. ASSUME NEW r \in Requests, ResolveAgent(r) PROVE AuthorityInv'
    BY <1>4 DEF ResolveAgent
  <1>5. ASSUME NEW r \in Requests, InsertRequest(r) PROVE AuthorityInv'
    BY <1>5 DEF InsertRequest
  <1>6. ASSUME NEW r \in Requests, NEW d \in Decisions, EvaluatePolicy(r, d)
        PROVE  AuthorityInv'
    BY <1>6 DEF EvaluatePolicy
  <1>7. ASSUME NEW r \in Requests, RecordDecision(r) PROVE AuthorityInv'
    BY <1>7 DEF RecordDecision, Branch
  <1>8. ASSUME NEW r \in Requests, Deny(r) PROVE AuthorityInv'
    BY <1>8 DEF Deny
  <1>9. ASSUME NEW r \in Requests, AuditDeny(r) PROVE AuthorityInv'
    BY <1>9 DEF AuditDeny
  <1>10. ASSUME NEW r \in Requests, InsertApproval(r) PROVE AuthorityInv'
    BY <1>10 DEF InsertApproval
  <1>11. ASSUME NEW r \in Requests, Hold(r) PROVE AuthorityInv'
    BY <1>11 DEF Hold
  <1>12. ASSUME NEW r \in Requests, AuditHold(r) PROVE AuthorityInv'
    BY <1>12 DEF AuditHold
  <1>13. ASSUME NEW r \in Requests, Execute(r) PROVE AuthorityInv'
    BY <1>13 DEF Execute
  <1>14. ASSUME NEW r \in Requests, MarkError(r) PROVE AuthorityInv'
    BY <1>14 DEF MarkError
  <1>15. ASSUME NEW r \in Requests, AuditError(r) PROVE AuthorityInv'
    BY <1>15 DEF AuditError
  <1>16. ASSUME NEW r \in Requests, Allow(r) PROVE AuthorityInv'
    BY <1>16 DEF Allow
  <1>17. ASSUME NEW r \in Requests, CostAllow(r) PROVE AuthorityInv'
    BY <1>17 DEF CostAllow
  <1>18. ASSUME NEW r \in Requests, AuditAllow(r) PROVE AuthorityInv'
    BY <1>18 DEF AuditAllow
  <1>19. ASSUME NEW r \in Requests, FailInvoke(r) PROVE AuthorityInv'
    BY <1>19 DEF FailInvoke
  <1>20. ASSUME NEW h \in Resolvers, NEW r \in Requests, NEW t \in Tenants,
               ReadForApprove(h, r, t) PROVE AuthorityInv'
    BY <1>20 DEF ReadForApprove, Lookup
  <1>21. ASSUME NEW h \in Resolvers, NEW r \in Requests, NEW t \in Tenants,
               ReadForDeny(h, r, t) PROVE AuthorityInv'
    BY <1>21 DEF ReadForDeny, Lookup
  <1>22. ASSUME NEW h \in Resolvers, RefuseResolver(h) PROVE AuthorityInv'
    BY <1>22 DEF RefuseResolver
  <1>23. ASSUME NEW h \in Resolvers, ReadRequest(h) PROVE AuthorityInv'
    BY <1>23 DEF ReadRequest
  <1>24. ASSUME NEW h \in Resolvers, Claim(h) PROVE AuthorityInv'
    BY <1>24 DEF Claim, FlipPending
  <1>25. ASSUME NEW h \in Resolvers, RunDeferred(h) PROVE AuthorityInv'
    BY <1>25 DEF RunDeferred
  <1>26. ASSUME NEW h \in Resolvers, Rollback(h) PROVE AuthorityInv'
    <2>1. target[h] \in Requests /\ resolve[h] = "rollback"
      BY <1>26 DEF Rollback
    <2>2. \A g \in Resolvers : Owns(g, target[h]) => g = h
      BY <2>1
    <2>3. Event(target[h], h) \notin executions
      BY <2>1
    <2>4. TypeOK' /\ DecisionInv' /\ TargetInv' /\ RanInv'
      BY <1>26 DEF Rollback
    <2>5. OwnerInv'
      BY <1>26, <2>1, <2>2, <2>3 DEF Rollback
    <2>6. ExecutedOnlyIfAuthorised'
      BY <1>26, <2>1, <2>2, <2>3 DEF Rollback
    <2> QED
      BY <2>4, <2>5, <2>6
  <1>27. ASSUME NEW h \in Resolvers, Settle(h) PROVE AuthorityInv'
    BY <1>27 DEF Settle
  <1>28. ASSUME NEW h \in Resolvers, CostSettle(h) PROVE AuthorityInv'
    BY <1>28 DEF CostSettle
  <1>29. ASSUME NEW h \in Resolvers, AuditSettle(h) PROVE AuthorityInv'
    BY <1>29 DEF AuditSettle
  <1>30. ASSUME NEW h \in Resolvers, Flip(h) PROVE AuthorityInv'
    BY <1>30 DEF Flip, FlipPending
  <1>31. ASSUME NEW h \in Resolvers, Reject(h) PROVE AuthorityInv'
    BY <1>31 DEF Reject
  <1>32. ASSUME NEW h \in Resolvers, AuditReject(h) PROVE AuthorityInv'
    BY <1>32 DEF AuditReject
  <1>33. ASSUME NEW h \in Resolvers, FailResolve(h) PROVE AuthorityInv'
    BY <1>33 DEF FailResolve
  <1>34. CASE UNCHANGED vars
    BY <1>34 DEF vars
  <1> HIDE DEF AuthorityInv, TypeOK, DecisionInv, TargetInv, OwnerInv, Owns, RanInv,
             ExecutedOnlyIfAuthorised,
              BeforeRecord, DenyPath, HoldPath, AllowPath, InvokeRan, InvokeSteps,
             InvokeReplies, ResolveRan, Owning, Found, ResolveSteps, ApproveSteps,
             DenySteps, ResolveReplies, Handlers, Decisions, Statuses,
             ApprovalStatuses, AuditActions, AuditRows, Events, Event,
              InvokeStep, ResolveStep, SetStatus, AddCost, WriteAudit, ToolReturns,
             ToolThrows, invokeVars, resolveVars, ledger
  <1> QED
    BY <1>1, <1>2, <1>3, <1>4, <1>5, <1>6, <1>7, <1>8, <1>9, <1>10,
       <1>11, <1>12, <1>13, <1>14, <1>15, <1>16, <1>17, <1>18, <1>19, <1>20,
       <1>21, <1>22, <1>23, <1>24, <1>25, <1>26, <1>27, <1>28, <1>29, <1>30,
       <1>31, <1>32, <1>33, <1>34
       DEF Next, InvokeProgress, ResolveProgress

\* When a resolver is about to put an approval back, nobody has run the tool:
\* the one who had would own the approval.
LEMMA RollbackUnrun ==
    ASSUME AuthorityInv, NEW h \in Resolvers, resolve[h] = "rollback"
    PROVE  ~Executed(target[h])
  <1> USE DEF AuthorityInv
  <1>1. target[h] \in Requests /\ Owns(h, target[h])
    BY DEF TargetInv, Found, ResolveSteps, ApproveSteps, Owns, Owning
  <1>2. decision[target[h]] = "approval_required"
    BY <1>1 DEF OwnerInv, DecisionInv
  <1>3. ASSUME NEW e \in executions, e.request = target[h]
        PROVE  e.handler \in Resolvers /\ Owns(e.handler, target[h])
    BY <1>2, <1>3 DEF ExecutedOnlyIfAuthorised, TypeOK, Events, Owns, Event
  <1>4. \A g \in Resolvers : Owns(g, target[h]) => g = h
    BY <1>1 DEF OwnerInv
  <1>5. \A e \in executions : e.handler # h
    BY DEF RanInv, ResolveRan
  <1> QED
    BY <1>3, <1>4, <1>5 DEF Executed

\* Two executions of one request would have two owners, or an owner where the
\* recorded decision is allow.
LEMMA AtMostOnceInv == AuthorityInv => ExecutedAtMostOnce
  <1> SUFFICES ASSUME AuthorityInv,
                      NEW e1 \in executions, NEW e2 \in executions,
                      e1.request = e2.request
               PROVE  e1 = e2
    BY DEF ExecutedAtMostOnce
  <1>1. e1 \in Events /\ e2 \in Events
    BY DEF AuthorityInv, TypeOK
  <1>2. CASE decision[e1.request] = "allow"
    BY <1>1, <1>2 DEF AuthorityInv, ExecutedOnlyIfAuthorised, Events
  <1>3. CASE decision[e1.request] = "approval_required"
    <2>1. /\ e1.handler \in Resolvers /\ Owns(e1.handler, e1.request)
          /\ e2.handler \in Resolvers /\ Owns(e2.handler, e1.request)
      BY <1>1, <1>3 DEF AuthorityInv, ExecutedOnlyIfAuthorised, Owns, Event, Events
    <2>2. e1.handler = e2.handler
      BY <1>1, <2>1 DEF AuthorityInv, OwnerInv, Events
    <2> QED
      BY <1>1, <2>2 DEF Events
  <1> QED
    BY <1>2, <1>3 DEF AuthorityInv, ExecutedOnlyIfAuthorised

-----------------------------------------------------------------------------
(* The rows that record what was decided and done.                         *)

RecordsInv == CostInv /\ StatusInv /\ AuditInv

\* Nothing has been recorded at the start.
LEMMA RecordsInit == Init => RecordsInv
  BY DEF Init, RecordsInv, CostInv, StatusInv, AuditInv, BeforeRecord, DenyPath,
             HoldPath, AllowPath, InvokeRan, InvokeSteps,
             InvokeReplies, ResolveRan, Owning, Found, ResolveSteps, ApproveSteps,
             DenySteps, ResolveReplies, Handlers, Decisions, Statuses,
             ApprovalStatuses, AuditActions, AuditRows, Events, Event

\* A step that keeps the settled statuses, the approvals that were charged for
\* and the cost rows keeps every audit row backed.
LEMMA BackedStays ==
    ASSUME NEW a, AuditBacked(a),
           status[a.request] \in {"denied", "allowed", "error"}
             => status'[a.request] = status[a.request],
           approval[a.request] # "none" => approval'[a.request] # "none",
           Event(a.request, a.handler) \in costEvents
             => approval'[a.request] = approval[a.request],
           costEvents \subseteq costEvents'
    PROVE  AuditBacked(a)'
  BY DEF AuditBacked, Event

\* Every step keeps the records truthful: each row is written after what it
\* records, and none of the later writes contradicts it.
LEMMA RecordsStep ==
    AuthorityInv /\ RecordsInv /\ [Next]_vars => RecordsInv'
  <1> SUFFICES ASSUME AuthorityInv, RecordsInv, [Next]_vars PROVE RecordsInv'
    OBVIOUS
  <1> USE DEF RecordsInv, CostInv, StatusInv, AuditInv, AuditBacked, Executed,
             AuthorityInv, TypeOK, DecisionInv, TargetInv, OwnerInv, Owns, RanInv,
             ExecutedOnlyIfAuthorised,
             BeforeRecord, DenyPath, HoldPath, AllowPath, InvokeRan, InvokeSteps,
             InvokeReplies, ResolveRan, Owning, Found, ResolveSteps, ApproveSteps,
             DenySteps, ResolveReplies, Handlers, Decisions, Statuses,
             ApprovalStatuses, AuditActions, AuditRows, Events, Event,
             InvokeStep, ResolveStep, SetStatus, AddCost, WriteAudit, ToolReturns,
             ToolThrows, invokeVars, resolveVars, ledger
  <1>1. ASSUME NEW r \in Requests, NEW t \in Tenants, Receive(r, t) PROVE RecordsInv'
    BY <1>1 DEF Receive
  <1>2. ASSUME NEW r \in Requests, Refuse(r) PROVE RecordsInv'
    BY <1>2 DEF Refuse
  <1>3. ASSUME NEW r \in Requests, CheckRateLimit(r) PROVE RecordsInv'
    BY <1>3 DEF CheckRateLimit
  <1>4. ASSUME NEW r \in Requests, ResolveAgent(r) PROVE RecordsInv'
    BY <1>4 DEF ResolveAgent
  <1>5. ASSUME NEW r \in Requests, InsertRequest(r) PROVE RecordsInv'
    BY <1>5 DEF InsertRequest
  <1>6. ASSUME NEW r \in Requests, NEW d \in Decisions, EvaluatePolicy(r, d) PROVE RecordsInv'
    BY <1>6 DEF EvaluatePolicy
  <1>7. ASSUME NEW r \in Requests, RecordDecision(r) PROVE RecordsInv'
    BY <1>7 DEF RecordDecision, Branch
  <1>8. ASSUME NEW r \in Requests, Deny(r) PROVE RecordsInv'
    BY <1>8 DEF Deny
  <1>9. ASSUME NEW r \in Requests, AuditDeny(r) PROVE RecordsInv'
    BY <1>9 DEF AuditDeny
  <1>10. ASSUME NEW r \in Requests, InsertApproval(r) PROVE RecordsInv'
    BY <1>10 DEF InsertApproval
  <1>11. ASSUME NEW r \in Requests, Hold(r) PROVE RecordsInv'
    BY <1>11 DEF Hold
  <1>12. ASSUME NEW r \in Requests, AuditHold(r) PROVE RecordsInv'
    BY <1>12 DEF AuditHold
  <1>13. ASSUME NEW r \in Requests, Execute(r) PROVE RecordsInv'
    BY <1>13 DEF Execute
  <1>14. ASSUME NEW r \in Requests, MarkError(r) PROVE RecordsInv'
    BY <1>14 DEF MarkError
  <1>15. ASSUME NEW r \in Requests, AuditError(r) PROVE RecordsInv'
    BY <1>15 DEF AuditError
  <1>16. ASSUME NEW r \in Requests, Allow(r) PROVE RecordsInv'
    <2>1. Event(r, r) \in executions /\ decision[r] = "allow"
      BY <1>16 DEF Allow
    <2>2. CostInv'
      BY <1>16 DEF Allow
    <2>3. StatusInv'
      BY <1>16, <2>1 DEF Allow
    <2>4. AuditInv'
      <3>1. \A a \in auditLogs :
                a.request = r => status[r] \notin {"denied", "error"}
        BY <1>16, <2>1 DEF Allow
      <3>2. SUFFICES ASSUME NEW a \in auditLogs PROVE AuditBacked(a)'
        BY <1>16 DEF Allow
      <3>3. a \in AuditRows /\ AuditBacked(a)
        OBVIOUS
      <3>4. status[a.request] \in {"denied", "allowed", "error"}
              => status'[a.request] = status[a.request]
        BY <1>16, <3>1, <3>3 DEF Allow
      <3> QED
        BY <1>16, <3>3, <3>4, BackedStays DEF Allow
    <2> QED
      BY <2>2, <2>3, <2>4
  <1>17. ASSUME NEW r \in Requests, CostAllow(r) PROVE RecordsInv'
    BY <1>17 DEF CostAllow
  <1>18. ASSUME NEW r \in Requests, AuditAllow(r) PROVE RecordsInv'
    BY <1>18 DEF AuditAllow
  <1>19. ASSUME NEW r \in Requests, FailInvoke(r) PROVE RecordsInv'
    BY <1>19 DEF FailInvoke
  <1>20. ASSUME NEW h \in Resolvers, NEW r \in Requests, NEW t \in Tenants,
               ReadForApprove(h, r, t) PROVE RecordsInv'
    BY <1>20 DEF ReadForApprove, Lookup
  <1>21. ASSUME NEW h \in Resolvers, NEW r \in Requests, NEW t \in Tenants,
               ReadForDeny(h, r, t) PROVE RecordsInv'
    BY <1>21 DEF ReadForDeny, Lookup
  <1>22. ASSUME NEW h \in Resolvers, RefuseResolver(h) PROVE RecordsInv'
    BY <1>22 DEF RefuseResolver
  <1>23. ASSUME NEW h \in Resolvers, ReadRequest(h) PROVE RecordsInv'
    BY <1>23 DEF ReadRequest
  <1>24. ASSUME NEW h \in Resolvers, Claim(h) PROVE RecordsInv'
    BY <1>24 DEF Claim, FlipPending
  <1>25. ASSUME NEW h \in Resolvers, RunDeferred(h) PROVE RecordsInv'
    BY <1>25 DEF RunDeferred
  <1>26. ASSUME NEW h \in Resolvers, Rollback(h) PROVE RecordsInv'
    <2>1. target[h] \in Requests /\ resolve[h] = "rollback"
      BY <1>26 DEF Rollback
    <2>2. ~Executed(target[h])
      BY <2>1, RollbackUnrun
    <2>3. CostInv'
      BY <1>26 DEF Rollback
    <2>4. StatusInv'
      BY <1>26, <2>1, <2>2 DEF Rollback
    <2>5. AuditInv'
      <3>1. SUFFICES ASSUME NEW a \in auditLogs PROVE AuditBacked(a)'
        BY <1>26 DEF Rollback
      <3>2. a \in AuditRows /\ AuditBacked(a)
        OBVIOUS
      <3>3. Event(a.request, a.handler) \in costEvents
              => approval'[a.request] = approval[a.request]
        BY <1>26, <2>1, <2>2, <3>2 DEF Rollback
      <3>4. approval[a.request] # "none" => approval'[a.request] # "none"
        BY <1>26, <3>2 DEF Rollback
      <3> QED
        BY <1>26, <3>2, <3>3, <3>4, BackedStays DEF Rollback
    <2> QED
      BY <2>3, <2>4, <2>5
  <1>27. ASSUME NEW h \in Resolvers, Settle(h) PROVE RecordsInv'
    <2>1. /\ target[h] \in Requests
          /\ Event(target[h], h) \in executions
          /\ approval[target[h]] = "approved"
          /\ decision[target[h]] = "approval_required"
      BY <1>27 DEF Settle
    <2>2. CostInv'
      BY <1>27 DEF Settle
    <2>3. StatusInv'
      BY <1>27, <2>1 DEF Settle
    <2>4. AuditInv'
      <3>1. status[target[h]] \notin {"denied", "allowed", "error"}
        BY <2>1
      <3>2. SUFFICES ASSUME NEW a \in auditLogs PROVE AuditBacked(a)'
        BY <1>27 DEF Settle
      <3>3. a \in AuditRows /\ AuditBacked(a)
        OBVIOUS
      <3>4. status[a.request] \in {"denied", "allowed", "error"}
              => status'[a.request] = status[a.request]
        BY <1>27, <3>1, <3>3 DEF Settle
      <3> QED
        BY <1>27, <3>3, <3>4, BackedStays DEF Settle
    <2> QED
      BY <2>2, <2>3, <2>4
  <1>28. ASSUME NEW h \in Resolvers, CostSettle(h) PROVE RecordsInv'
    BY <1>28 DEF CostSettle
  <1>29. ASSUME NEW h \in Resolvers, AuditSettle(h) PROVE RecordsInv'
    BY <1>29 DEF AuditSettle
  <1>30. ASSUME NEW h \in Resolvers, Flip(h) PROVE RecordsInv'
    BY <1>30 DEF Flip, FlipPending
  <1>31. ASSUME NEW h \in Resolvers, Reject(h) PROVE RecordsInv'
    BY <1>31 DEF Reject
  <1>32. ASSUME NEW h \in Resolvers, AuditReject(h) PROVE RecordsInv'
    BY <1>32 DEF AuditReject
  <1>33. ASSUME NEW h \in Resolvers, FailResolve(h) PROVE RecordsInv'
    BY <1>33 DEF FailResolve
  <1>34. CASE UNCHANGED vars
    BY <1>34 DEF vars
  <1> HIDE DEF RecordsInv, CostInv, StatusInv, AuditInv, AuditBacked, Executed,
              AuthorityInv, TypeOK, DecisionInv, TargetInv, OwnerInv, Owns, RanInv,
             ExecutedOnlyIfAuthorised,
              BeforeRecord, DenyPath, HoldPath, AllowPath, InvokeRan, InvokeSteps,
             InvokeReplies, ResolveRan, Owning, Found, ResolveSteps, ApproveSteps,
             DenySteps, ResolveReplies, Handlers, Decisions, Statuses,
             ApprovalStatuses, AuditActions, AuditRows, Events, Event,
              InvokeStep, ResolveStep, SetStatus, AddCost, WriteAudit, ToolReturns,
             ToolThrows, invokeVars, resolveVars, ledger
  <1> QED
    BY <1>1, <1>2, <1>3, <1>4, <1>5, <1>6, <1>7, <1>8, <1>9, <1>10,
       <1>11, <1>12, <1>13, <1>14, <1>15, <1>16, <1>17, <1>18, <1>19, <1>20,
       <1>21, <1>22, <1>23, <1>24, <1>25, <1>26, <1>27, <1>28, <1>29, <1>30,
       <1>31, <1>32, <1>33, <1>34
       DEF Next, InvokeProgress, ResolveProgress

\* Four statements write approvals.
LEMMA ApprovalWriters ==
    ASSUME [Next]_vars, approval' # approval
    PROVE  \/ \E r \in Requests : InsertApproval(r)
           \/ \E h \in Resolvers : Claim(h) \/ Flip(h) \/ Rollback(h)
  BY DEF Next, InvokeProgress, ResolveProgress, vars,
         Receive, Refuse, CheckRateLimit, ResolveAgent, InsertRequest, EvaluatePolicy,
         RecordDecision, Deny, AuditDeny, Hold, AuditHold, Execute, MarkError,
         AuditError, Allow, CostAllow, AuditAllow, FailInvoke, ReadForApprove,
         ReadForDeny, Lookup, RefuseResolver, ReadRequest, RunDeferred, Settle,
         CostSettle, AuditSettle, Reject, AuditReject, FailResolve

\* Claim and Flip need a pending row, and Rollback happens to an approval
\* under which nothing ran.
LEMMA InvApprovals == AuthorityInv /\ [Next]_vars => [ApprovalMoves]_vars
  <1> SUFFICES ASSUME AuthorityInv, [Next]_vars, NEW q \in Requests,
                      approval'[q] # approval[q]
               PROVE  \/ approval[q] = "none" /\ approval'[q] = "pending"
                         /\ decision[q] = "approval_required"
                      \/ approval[q] = "pending"
                         /\ approval'[q] \in {"approved", "denied"}
                      \/ approval[q] = "approved" /\ approval'[q] = "pending"
                         /\ ~Executed(q)
    BY DEF ApprovalMoves
  <1>1. approval \in [Requests -> ApprovalStatuses]
    BY DEF AuthorityInv, TypeOK
  <1>2. ASSUME NEW r \in Requests, InsertApproval(r)
        PROVE  /\ approval[q] = "none" /\ approval'[q] = "pending"
               /\ decision[q] = "approval_required"
    BY <1>1, <1>2 DEF InsertApproval, InvokeStep, AuthorityInv, DecisionInv, HoldPath
  <1>3. ASSUME NEW h \in Resolvers, Claim(h) \/ Flip(h)
        PROVE  approval[q] = "pending" /\ approval'[q] \in {"approved", "denied"}
    BY <1>1, <1>3 DEF Claim, Flip, FlipPending
  <1>4. ASSUME NEW h \in Resolvers, Rollback(h)
        PROVE  /\ approval[q] = "approved" /\ approval'[q] = "pending"
               /\ ~Executed(q)
    <2>1. resolve[h] = "rollback" /\ q = target[h] /\ approval'[q] = "pending"
      BY <1>1, <1>4 DEF Rollback, ResolveStep
    <2>2. approval[q] = "approved"
      BY <2>1 DEF AuthorityInv, OwnerInv, Owns, Owning
    <2> QED
      BY <2>1, <2>2, RollbackUnrun
  <1> QED
    BY <1>2, <1>3, <1>4, ApprovalWriters

-----------------------------------------------------------------------------
(* What a denial tells.                                                    *)

\* Nobody has been denied at the start.
LEMMA DenialInit == Init => DenialInv
  BY DEF Init, DenialInv, DenialRecorded

\* A resolver past its lookup keeps its request, one that won its claim goes on
\* to an answer, and the update of deny comes before what deny tells.
LEMMA ResolversGoOn ==
    ASSUME TypeOK, [Next]_vars, NEW h \in Resolvers
    PROVE  /\ resolve[h] # "idle" => target'[h] = target[h]
           /\ resolve[h] \in {"run", "rollback", "settle", "settleCost",
                              "settleAudit", "granted200", "failed500"}
              => resolve'[h] \in {"run", "rollback", "settle", "settleCost",
                                  "settleAudit", "granted200", "failed500"}
           /\ resolve'[h] \in {"reject", "rejectAudit", "denied200"}
              => \/ resolve[h] \in {"reject", "rejectAudit"}
                 \/ resolve[h] = "denied200"
                 \/ Flip(h)
  <1> USE DEF TypeOK, ResolveStep
  <1>1. ASSUME NEW r \in Requests,
               \/ \E t \in Tenants : Receive(r, t)
               \/ Refuse(r) \/ InvokeProgress(r) \/ FailInvoke(r)
        PROVE  UNCHANGED <<resolve, target>>
    BY <1>1 DEF Receive, Refuse, FailInvoke, InvokeProgress, CheckRateLimit,
            ResolveAgent, InsertRequest, EvaluatePolicy, RecordDecision, Deny,
            AuditDeny, InsertApproval, Hold, AuditHold, Execute, MarkError,
            AuditError, Allow, CostAllow, AuditAllow, resolveVars
  <1>2. ASSUME NEW g \in Resolvers, g # h,
               \/ \E r \in Requests, t \in Tenants :
                     ReadForApprove(g, r, t) \/ ReadForDeny(g, r, t)
               \/ RefuseResolver(g) \/ ResolveProgress(g) \/ FailResolve(g)
        PROVE  resolve'[h] = resolve[h] /\ target'[h] = target[h]
    BY <1>2 DEF RefuseResolver, ReadForApprove, ReadForDeny, Lookup,
            ResolveProgress, FailResolve, ReadRequest, Claim,
            RunDeferred, Rollback, Settle, CostSettle, AuditSettle, Flip, Reject,
            AuditReject
  <1>3. ASSUME \/ \E r \in Requests, t \in Tenants :
                     ReadForApprove(h, r, t) \/ ReadForDeny(h, r, t)
               \/ RefuseResolver(h)
        PROVE  resolve[h] = "idle" /\ resolve'[h] \notin {"reject", "rejectAudit",
                                                          "denied200"}
    BY <1>3 DEF RefuseResolver, ReadForApprove, ReadForDeny, Lookup
  <1>4. ASSUME \/ ReadRequest(h) \/ Claim(h) \/ RunDeferred(h) \/ Rollback(h)
               \/ Settle(h) \/ CostSettle(h) \/ AuditSettle(h)
               \/ Reject(h) \/ AuditReject(h) \/ FailResolve(h)
        PROVE  /\ target'[h] = target[h]
               /\ resolve[h] \in {"run", "rollback", "settle", "settleCost",
                                  "settleAudit", "granted200", "failed500"}
                  => resolve'[h] \in {"run", "rollback", "settle", "settleCost",
                                      "settleAudit", "granted200", "failed500"}
               /\ resolve'[h] \in {"reject", "rejectAudit", "denied200"}
                  => resolve[h] \in {"reject", "rejectAudit"}
    BY <1>4 DEF FailResolve, ReadRequest, Claim, RunDeferred, Rollback, Settle,
            CostSettle, AuditSettle, Reject, AuditReject, ResolveSteps,
            ApproveSteps, DenySteps
  <1>5. ASSUME Flip(h)
        PROVE  target'[h] = target[h] /\ resolve[h] = "flip"
    BY <1>5 DEF Flip
  <1>6. CASE UNCHANGED vars
    BY <1>6 DEF vars, resolveVars
  <1> HIDE DEF TypeOK, ResolveStep
  <1>7. CASE \/ \E r \in Requests, t \in Tenants :
                  ReadForApprove(h, r, t) \/ ReadForDeny(h, r, t)
             \/ RefuseResolver(h) \/ ResolveProgress(h) \/ FailResolve(h)
    BY <1>3, <1>4, <1>5, <1>7 DEF ResolveProgress
  <1> QED
    BY <1>1, <1>2, <1>6, <1>7 DEF Next

\* A denial is final, and who won a claim stays the one who did.
LEMMA DenialStays ==
    ASSUME AuthorityInv, [Next]_vars, NEW r \in Requests
    PROVE  /\ Overtaken(r) => Overtaken(r)'
           /\ DenialAccounted(r) => DenialAccounted(r)'
  <1>1. ASSUME Overtaken(r) PROVE Overtaken(r)'
    BY <1>1, ResolversGoOn DEF Overtaken, AuthorityInv
  <1>2. ASSUME approval[r] = "denied" PROVE approval'[r] = "denied"
    BY <1>2, InvApprovals DEF ApprovalMoves, vars
  <1> QED
    BY <1>1, <1>2 DEF DenialAccounted

\* Deny alone writes the status rejected and the row approval.denied.
LEMMA DenialWriters ==
    ASSUME TypeOK, [Next]_vars, NEW r \in Requests,
           DenialRecorded(r)', ~DenialRecorded(r)
    PROVE  \E h \in Resolvers : target[h] = r /\ (Reject(h) \/ AuditReject(h))
  <1> USE DEF TypeOK, DenialRecorded, SetStatus, WriteAudit, ledger
  <1>1. ASSUME NEW q \in Requests,
               \/ \E t \in Tenants : Receive(q, t)
               \/ Refuse(q) \/ InvokeProgress(q) \/ FailInvoke(q)
        PROVE  FALSE
    BY <1>1 DEF Receive, Refuse, FailInvoke, InvokeProgress, CheckRateLimit,
            ResolveAgent, InsertRequest, EvaluatePolicy, RecordDecision, Deny,
            AuditDeny, InsertApproval, Hold, AuditHold, Execute, MarkError,
            AuditError, Allow, CostAllow, AuditAllow
  <1>2. ASSUME NEW h \in Resolvers,
               \/ \E q \in Requests, t \in Tenants :
                     ReadForApprove(h, q, t) \/ ReadForDeny(h, q, t)
               \/ RefuseResolver(h) \/ FailResolve(h) \/ ReadRequest(h)
               \/ Claim(h) \/ RunDeferred(h) \/ Rollback(h) \/ Settle(h)
               \/ CostSettle(h) \/ AuditSettle(h) \/ Flip(h)
        PROVE  FALSE
    BY <1>2 DEF RefuseResolver, FailResolve, ReadRequest, Claim,
            RunDeferred, Rollback, Settle, CostSettle, AuditSettle, Flip,
            ReadForApprove, ReadForDeny, Lookup
  <1>3. ASSUME NEW h \in Resolvers, Reject(h) \/ AuditReject(h)
        PROVE  target[h] = r
    BY <1>3 DEF Reject, AuditReject
  <1>4. ~UNCHANGED vars
    BY DEF vars
  <1> HIDE DEF TypeOK, DenialRecorded, SetStatus, WriteAudit, ledger
  <1> QED
    BY <1>1, <1>2, <1>3, <1>4 DEF Next, ResolveProgress

\* The update of deny finds its approval pending, denied already, or claimed by
\* an approve that has won; what deny tells afterwards adds nothing to that.
LEMMA DenialStep == AuthorityInv /\ DenialInv /\ [Next]_vars => DenialInv'
  <1> SUFFICES ASSUME AuthorityInv, DenialInv, [Next]_vars PROVE DenialInv'
    OBVIOUS
  <1>1. ASSUME NEW r \in Requests, approval'[r] = "approved" PROVE Overtaken(r)'
    <2>1. CASE approval[r] = "approved"
      BY <2>1, DenialStays DEF DenialInv
    <2>2. CASE approval[r] # "approved"
      <3>1. PICK h \in Resolvers : Claim(h)
        BY <1>1, <2>2, ApprovalWriters DEF InsertApproval, Flip, FlipPending,
           Rollback, AuthorityInv, TypeOK
      <3>2. target[h] = r /\ approval[r] = "pending"
        BY <1>1, <2>2, <3>1 DEF Claim, FlipPending, AuthorityInv, TypeOK
      <3>3. target'[h] = r /\ resolve'[h] = "run"
        BY <3>1, <3>2 DEF Claim, ResolveStep, AuthorityInv, TypeOK
      <3> QED
        BY <3>3 DEF Overtaken
    <2> QED
      BY <2>1, <2>2
  <1>2. ASSUME NEW h \in Resolvers,
               resolve'[h] \in {"reject", "rejectAudit", "denied200"}
        PROVE  DenialAccounted(target[h])'
    <2>1. CASE resolve[h] \in {"reject", "rejectAudit", "denied200"}
      <3>1. target'[h] = target[h] /\ target[h] \in Requests
        BY <2>1, ResolversGoOn DEF AuthorityInv, TargetInv, Found, ResolveSteps,
           DenySteps
      <3>2. DenialAccounted(target[h])
        BY <2>1 DEF DenialInv
      <3>3. ASSUME NEW r \in Requests, r = target[h] PROVE DenialAccounted(r)'
        BY <3>2, <3>3, DenialStays
      <3> QED
        BY <3>1, <3>3 DEF DenialAccounted, Overtaken
    <2>2. CASE Flip(h)
      <3>1. /\ resolve[h] = "flip" /\ target'[h] = target[h]
            /\ FlipPending(target[h], "denied")
        BY <2>2 DEF Flip, ResolveStep
      <3>2. target[h] \in Requests /\ approval[target[h]] # "none"
        BY <3>1 DEF AuthorityInv, TargetInv, Found, ResolveSteps, DenySteps
      <3>3. approval[target[h]] \in {"pending", "approved", "denied"}
        BY <3>2 DEF AuthorityInv, TypeOK, ApprovalStatuses
      <3>4. CASE approval[target[h]] \in {"pending", "denied"}
        <4>1. approval'[target[h]] = "denied"
          BY <3>1, <3>2, <3>4 DEF FlipPending, AuthorityInv, TypeOK
        <4> QED
          BY <3>1, <4>1 DEF DenialAccounted
      <3>5. CASE approval[target[h]] = "approved"
        <4>1. ASSUME NEW r \in Requests, r = target[h] PROVE Overtaken(r)'
          BY <3>5, <4>1, DenialStays DEF DenialInv
        <4> QED
          BY <3>1, <3>2, <4>1 DEF DenialAccounted, Overtaken
      <3> QED
        BY <3>3, <3>4, <3>5
    <2> QED
      BY <1>2, <2>1, <2>2, ResolversGoOn DEF AuthorityInv
  <1>3. ASSUME NEW r \in Requests, DenialRecorded(r)'
        PROVE  DenialAccounted(r)'
    <2>1. CASE DenialRecorded(r)
      BY <2>1, DenialStays DEF DenialInv
    <2>2. CASE ~DenialRecorded(r)
      <3>1. PICK h \in Resolvers : target[h] = r /\ (Reject(h) \/ AuditReject(h))
        BY <1>3, <2>2, DenialWriters DEF AuthorityInv
      <3>2. resolve[h] \in {"reject", "rejectAudit"}
        BY <3>1 DEF Reject, AuditReject, ResolveStep
      <3> QED
        BY <3>1, <3>2, DenialStays DEF DenialInv
    <2> QED
      BY <2>1, <2>2
  <1> QED
    BY <1>1, <1>2, <1>3 DEF DenialInv

\* Every reachable state satisfies the inductive invariant.
THEOREM Invariance == Spec => []Inv
  <1>1. Init => Inv
    BY AuthorityInit, RecordsInit, DenialInit DEF Inv, RecordsInv
  <1>2. Inv /\ [Next]_vars => Inv'
    BY AuthorityStep, RecordsStep, DenialStep DEF Inv, RecordsInv
  <1> QED
    BY <1>1, <1>2, PTL DEF Spec

-----------------------------------------------------------------------------
(* What follows from it.                                                   *)

\* RecordsTruthful is part of the invariant, but for the denied requests: they
\* never run because the recorded decision is deny.
LEMMA InvRecords == Inv => RecordsTruthful
  <1> SUFFICES ASSUME Inv PROVE RecordsTruthful
    OBVIOUS
  <1>1. ASSUME NEW r \in Requests, status[r] = "denied" PROVE ~Executed(r)
    BY <1>1 DEF Inv, AuthorityInv, StatusInv, ExecutedOnlyIfAuthorised, Executed
  <1>2. costEvents \subseteq executions /\ \A a \in auditLogs : AuditBacked(a)
    BY DEF Inv, CostInv, AuditInv
  <1> QED
    BY <1>1, <1>2 DEF Inv, StatusInv, DenialInv, RecordsTruthful

\* A reply leaves a control point at which the rows it speaks of are written.
LEMMA InvReplies == Inv => RepliesTruthful
  <1> SUFFICES ASSUME Inv PROVE RepliesTruthful
    OBVIOUS
  <1> USE DEF Inv, AuthorityInv
  <1>1. ASSUME NEW r \in Requests
        PROVE  /\ invoke[r] = "allowed200" => Event(r, r) \in costEvents
               /\ invoke[r] = "denied403" => ~Executed(r) /\ approval[r] = "none"
               /\ invoke[r] = "held202" => approval[r] # "none"
    <2>1. invoke[r] = "denied403" => decision[r] = "deny"
      BY DEF DecisionInv, DenyPath
    <2>2. decision[r] = "deny" => ~Executed(r) /\ approval[r] = "none"
      BY DEF DecisionInv, ExecutedOnlyIfAuthorised, Executed
    <2> QED
      BY <2>1, <2>2 DEF CostInv, DecisionInv, HoldPath
  <1>2. ASSUME NEW h \in Resolvers, resolve[h] = "granted200"
        PROVE  /\ target[h] \in Requests /\ Owns(h, target[h])
               /\ Event(target[h], h) \in costEvents
    BY <1>2 DEF TargetInv, Found, Owns, Owning, ResolveRan, CostInv
  <1>3. ASSUME NEW h \in Resolvers, resolve[h] = "granted200"
        PROVE  approval[target[h]] = "approved"
    BY <1>2, <1>3 DEF OwnerInv
  <1>4. ASSUME NEW g \in Resolvers, NEW h \in Resolvers, target[g] = target[h],
               resolve[g] = "granted200", resolve[h] = "granted200"
        PROVE  g = h
    BY <1>2, <1>4 DEF OwnerInv
  <1> QED
    BY <1>1, <1>2, <1>3, <1>4 DEF RepliesTruthful, DenialInv

\* A call that has arrived does not become idle again.
LEMMA Arrived ==
    ASSUME TypeOK, [Next]_vars, NEW r \in Requests, invoke'[r] = "idle"
    PROVE  invoke[r] = "idle"
  <1> USE DEF InvokeStep, TypeOK
  <1>1. ASSUME NEW s \in Requests,
               \/ \E t \in Tenants : Receive(s, t)
               \/ Refuse(s) \/ FailInvoke(s)
               \/ CheckRateLimit(s) \/ ResolveAgent(s) \/ InsertRequest(s)
               \/ \E d \in Decisions : EvaluatePolicy(s, d)
        PROVE  invoke[r] = "idle"
    BY <1>1 DEF Receive, Refuse, FailInvoke, CheckRateLimit, ResolveAgent,
            InsertRequest, EvaluatePolicy
  <1>2. ASSUME NEW s \in Requests,
               \/ RecordDecision(s) \/ Deny(s) \/ AuditDeny(s)
               \/ InsertApproval(s) \/ Hold(s) \/ AuditHold(s)
               \/ Execute(s) \/ MarkError(s) \/ AuditError(s)
               \/ Allow(s) \/ CostAllow(s) \/ AuditAllow(s)
        PROVE  invoke[r] = "idle"
    BY <1>2 DEF RecordDecision, Branch, Deny, AuditDeny,
            InsertApproval, Hold, AuditHold, Execute, MarkError, AuditError, Allow,
            CostAllow, AuditAllow
  <1>3. ASSUME NEW h \in Resolvers,
               \/ \E s \in Requests, t \in Tenants :
                     ReadForApprove(h, s, t) \/ ReadForDeny(h, s, t)
               \/ RefuseResolver(h) \/ ResolveProgress(h) \/ FailResolve(h)
        PROVE  UNCHANGED invoke
    BY <1>3 DEF RefuseResolver, ResolveProgress, FailResolve,
            ReadRequest, Claim, RunDeferred, Rollback, Settle, CostSettle,
            AuditSettle, Flip, Reject, AuditReject, ReadForApprove, ReadForDeny,
            Lookup, invokeVars
  <1>4. CASE UNCHANGED vars
    BY <1>4 DEF vars, invokeVars
  <1> HIDE DEF InvokeStep, TypeOK
  <1> QED
    BY <1>1, <1>2, <1>3, <1>4 DEF Next, InvokeProgress

\* One statement writes decisions.
LEMMA DecisionWriters ==
    ASSUME TypeOK, [Next]_vars, NEW r \in Requests, decision'[r] # decision[r]
    PROVE  invoke[r] = "record" /\ decision'[r] = verdict[r]
  <1>1. ASSUME NEW s \in Requests, RecordDecision(s)
        PROVE  invoke[r] = "record" /\ decision'[r] = verdict[r]
    BY <1>1 DEF RecordDecision, InvokeStep, TypeOK
  <1>2. ASSUME NEW s \in Requests,
               \/ \E t \in Tenants : Receive(s, t)
               \/ Refuse(s) \/ FailInvoke(s)
               \/ CheckRateLimit(s) \/ ResolveAgent(s) \/ InsertRequest(s)
               \/ \E d \in Decisions : EvaluatePolicy(s, d)
               \/ Deny(s) \/ AuditDeny(s)
               \/ InsertApproval(s) \/ Hold(s) \/ AuditHold(s)
               \/ Execute(s) \/ MarkError(s) \/ AuditError(s)
               \/ Allow(s) \/ CostAllow(s) \/ AuditAllow(s)
        PROVE  UNCHANGED decision
    BY <1>2 DEF Receive, Refuse, FailInvoke, CheckRateLimit, ResolveAgent,
            InsertRequest, EvaluatePolicy, Deny, AuditDeny,
            InsertApproval, Hold, AuditHold, Execute, MarkError, AuditError, Allow,
            CostAllow, AuditAllow
  <1>3. ASSUME NEW h \in Resolvers,
               \/ \E s \in Requests, t \in Tenants :
                     ReadForApprove(h, s, t) \/ ReadForDeny(h, s, t)
               \/ RefuseResolver(h) \/ ResolveProgress(h) \/ FailResolve(h)
        PROVE  UNCHANGED decision
    BY <1>3 DEF RefuseResolver, ResolveProgress, FailResolve,
            ReadRequest, Claim, RunDeferred, Rollback, Settle, CostSettle,
            AuditSettle, Flip, Reject, AuditReject, ReadForApprove, ReadForDeny,
            Lookup
  <1>4. CASE UNCHANGED vars
    BY <1>4 DEF vars
  <1> QED
    BY <1>1, <1>2, <1>3, <1>4 DEF Next, InvokeProgress

\* Every variable keeps its type.
THEOREM TypeCorrect == Spec => []TypeOK
  BY Invariance, PTL DEF Inv, AuthorityInv

\* The tool runs only under a recorded decision, and where that asks for an
\* approval only for the one who holds it (security-model.md:65).
THEOREM Authorised == Spec => []ExecutedOnlyIfAuthorised
  BY Invariance, PTL DEF Inv, AuthorityInv

\* No request's tool completes twice, however many operators approve, retry and
\* fail (approvals.ts:69).
THEOREM AtMostOnce == Spec => []ExecutedAtMostOnce
  BY Invariance, AtMostOnceInv, PTL DEF Inv

\* Costs, audit rows and the statuses allowed, approved, denied and error tell what
\* happened; the status rejected and the row approval.denied do unless an approve
\* won its claim, or a call of the request failed (approvals.ts:234-262).
THEOREM Records == Spec => []RecordsTruthful
  BY Invariance, InvRecords, PTL

\* The 200, 202 and 403 replies of invoke and approve stay true, and one approve
\* call wins (architecture.md:142); the 200 of deny does with the same exception
\* (approvals.ts:270).
THEOREM Replies == Spec => []RepliesTruthful
  BY Invariance, InvReplies, PTL

\* Denials are final and nothing reopens an approval whose tool ran
\* (approvals.ts:106).
THEOREM Approvals == Spec => ApprovalProtocol
  BY Invariance, InvApprovals, PTL DEF Spec, Inv, ApprovalProtocol

-----------------------------------------------------------------------------
(* Nothing is left behind: the safety half of the liveness properties.      *)

\* What keeps an approved approval from being forgotten: the handler that
\* claimed it has run the tool, or is about to, or was taken by a failure.
Holder(h, r) ==
    /\ target[h] = r
    /\ \/ Event(r, h) \in executions
       \/ resolve[h] \in {"run", "rollback"}
       \/ MayFail /\ resolve[h] = "failed500"

HolderInv ==
    \A r \in Requests : approval[r] = "approved" => \E h \in Resolvers : Holder(h, r)

\* A branch that has written its status does not lose it.
SettledInv ==
    \A r \in Requests :
        \/ invoke[r] \in {"denyAudit", "denied403", "holdAudit", "held202",
                          "errorAudit", "allowCost", "allowAudit", "allowed200"}
        \/ ~MayFail /\ invoke[r] = "failed500"
        => status[r] \notin {"none", "pending"}

\* A holder gives up an approval only by putting it back.
LEMMA HolderStep ==
    ASSUME AuthorityInv, HolderInv, [Next]_vars
    PROVE  HolderInv'
  <1> SUFFICES ASSUME NEW r \in Requests, approval'[r] = "approved"
               PROVE  \E h \in Resolvers : Holder(h, r)'
    BY DEF HolderInv
  <1>1. ASSUME approval[r] # "approved"
        PROVE  \E h \in Resolvers : Holder(h, r)'
    <2>1. PICK h \in Resolvers : Claim(h)
      BY <1>1, ApprovalWriters DEF InsertApproval, Flip, FlipPending, Rollback,
         AuthorityInv, TypeOK
    <2>2. target[h] = r /\ approval[r] = "pending"
      BY <1>1, <2>1 DEF Claim, FlipPending, AuthorityInv, TypeOK
    <2>3. Holder(h, r)'
      BY <2>1, <2>2 DEF Claim, ResolveStep, Holder, AuthorityInv, TypeOK
    <2> QED
      BY <2>3
  <1>2. ASSUME NEW h \in Resolvers, Holder(h, r)
        PROVE  Holder(h, r)' \/ Rollback(h)
    <2> USE DEF Holder, AuthorityInv, TypeOK, ResolveStep, ToolReturns, ToolThrows,
                Event
    <2>1. resolve[h] \in ResolveRan \cup {"run", "rollback", "failed500"}
      BY <1>2 DEF RanInv
    <2>2. ASSUME NEW g \in Resolvers, RunDeferred(g) PROVE Holder(h, r)'
      BY <1>2, <2>2 DEF RunDeferred
    <2>3. ASSUME NEW g \in Resolvers, FailResolve(g) PROVE Holder(h, r)'
      BY <1>2, <2>3 DEF FailResolve
    <2>4. ASSUME NEW g \in Resolvers, g # h, Rollback(g) PROVE Holder(h, r)'
      BY <1>2, <2>4 DEF Rollback
    <2>5. ASSUME NEW g \in Resolvers,
                 \/ \E q \in Requests, t \in Tenants :
                       ReadForApprove(g, q, t) \/ ReadForDeny(g, q, t)
                 \/ RefuseResolver(g) \/ ReadRequest(g) \/ Claim(g) \/ Settle(g)
                 \/ CostSettle(g) \/ AuditSettle(g) \/ Flip(g) \/ Reject(g)
                 \/ AuditReject(g)
          PROVE  Holder(h, r)'
      BY <1>2, <2>1, <2>5 DEF ReadForApprove, ReadForDeny, Lookup, RefuseResolver,
              ReadRequest, Claim, Settle, CostSettle, AuditSettle, Flip, Reject,
              AuditReject, ResolveRan
    <2>6. ASSUME NEW q \in Requests,
                 \/ \E t \in Tenants : Receive(q, t)
                 \/ Refuse(q) \/ InvokeProgress(q) \/ FailInvoke(q)
          PROVE  Holder(h, r)'
      BY <1>2, <2>6 DEF InvokeProgress, Receive, Refuse, CheckRateLimit, ResolveAgent,
            InsertRequest, EvaluatePolicy, RecordDecision, Deny, AuditDeny,
            InsertApproval, Hold, AuditHold, Execute, MarkError, AuditError, Allow,
            CostAllow, AuditAllow, FailInvoke, resolveVars
    <2>7. CASE UNCHANGED vars
      BY <1>2, <2>7 DEF vars, resolveVars
    <2> QED
      BY <2>2, <2>3, <2>4, <2>5, <2>6, <2>7 DEF Next, ResolveProgress
  <1>3. ASSUME approval[r] = "approved"
        PROVE  \E h \in Resolvers : Holder(h, r)'
    <2>1. PICK h \in Resolvers : Holder(h, r)
      BY <1>3 DEF HolderInv
    <2>2. ~Rollback(h)
      BY <2>1 DEF Rollback, Holder, AuthorityInv, TypeOK
    <2> QED
      BY <1>2, <2>1, <2>2
  <1> QED
    BY <1>1, <1>3

\* No statement writes none or pending over the status of a branch that has
\* settled: only the first statement of invoke writes pending.
LEMMA SettledStep ==
    ASSUME TypeOK, SettledInv, [Next]_vars
    PROVE  SettledInv'
  <1> USE DEF SettledInv, TypeOK, InvokeStep, SetStatus
  <1>1. ASSUME NEW r \in Requests,
               \/ \E t \in Tenants : Receive(r, t)
               \/ Refuse(r) \/ CheckRateLimit(r) \/ ResolveAgent(r) \/ InsertRequest(r)
               \/ \E d \in Decisions : EvaluatePolicy(r, d)
               \/ RecordDecision(r) \/ InsertApproval(r) \/ Execute(r)
        PROVE  SettledInv'
    BY <1>1 DEF Receive, Refuse, CheckRateLimit, ResolveAgent, InsertRequest,
            EvaluatePolicy, RecordDecision, Branch, InsertApproval, Execute
  <1>2. ASSUME NEW r \in Requests,
               \/ Deny(r) \/ AuditDeny(r) \/ Hold(r) \/ AuditHold(r)
               \/ MarkError(r) \/ AuditError(r) \/ Allow(r) \/ CostAllow(r)
               \/ AuditAllow(r) \/ FailInvoke(r)
        PROVE  SettledInv'
    BY <1>2 DEF Deny, AuditDeny, Hold, AuditHold, MarkError, AuditError, Allow,
            CostAllow, AuditAllow, FailInvoke
  <1>3. ASSUME NEW h \in Resolvers,
               \/ \E r \in Requests, t \in Tenants :
                     ReadForApprove(h, r, t) \/ ReadForDeny(h, r, t)
               \/ RefuseResolver(h) \/ ResolveProgress(h) \/ FailResolve(h)
        PROVE  SettledInv'
    BY <1>3 DEF ResolveProgress, RefuseResolver, FailResolve, ReadRequest, Claim,
            RunDeferred, Rollback, Settle, CostSettle, AuditSettle, Flip, Reject,
            AuditReject, ReadForApprove, ReadForDeny, Lookup, invokeVars
  <1>4. CASE UNCHANGED vars
    BY <1>4 DEF vars, invokeVars
  <1> QED
    BY <1>1, <1>2, <1>3, <1>4 DEF Next, InvokeProgress

\* At the start nothing is approved and no branch has ended.
LEMMA HolderInit == Init => HolderInv /\ SettledInv
  BY DEF Init, HolderInv, SettledInv

\* Whoever holds an approval has run its tool, or is about to.
LEMMA InvStranded == HolderInv /\ SettledInv => NoneStranded
  <1> SUFFICES ASSUME HolderInv, SettledInv, NEW r \in Requests
               PROVE  /\ approval[r] = "approved" =>
                            \/ Executed(r)
                            \/ \E h \in Resolvers :
                                  /\ target[h] = r
                                  /\ \/ resolve[h] \in {"run", "rollback"}
                                     \/ MayFail /\ resolve[h] = "failed500"
                      /\ \/ invoke[r] \in {"allowed200", "denied403", "held202"}
                         \/ ~MayFail /\ invoke[r] = "failed500"
                         => status[r] \notin {"none", "pending"}
    BY DEF NoneStranded
  <1>1. \A h \in Resolvers : Event(r, h) \in executions => Executed(r)
    <2>1. \A h : Event(r, h).request = r
      BY DEF Event
    <2> QED
      BY <2>1 DEF Executed
  <1> QED
    BY <1>1 DEF HolderInv, Holder, SettledInv

\* No approval is claimed and forgotten, and no branch ends with its row still
\* pending, but for what a failure interrupts (approvals.ts:101).
THEOREM Stranded == Spec => []NoneStranded
  <1>1. Inv /\ HolderInv /\ SettledInv /\ [Next]_vars => HolderInv' /\ SettledInv'
    BY HolderStep, SettledStep DEF Inv, AuthorityInv
  <1> QED
    BY <1>1, HolderInit, InvStranded, Invariance, PTL DEF Spec
===============================================================================

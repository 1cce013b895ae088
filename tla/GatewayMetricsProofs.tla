------------------------- MODULE GatewayMetricsProofs -------------------------
(***************************************************************************)
(* Proofs about GatewayMetrics, for any replicas and calls: a replica that *)
(* dies takes all of its handlers at once, which is no step of Gateway,    *)
(* and the invariant of Gateway survives that too.                         *)
(***************************************************************************)
EXTENDS GatewayMetrics, GatewayImplementsProofs, FiniteSetTheorems

\* Handlers on replicas take the steps of Gateway, until a replica dies.
LEMMA MeteredSteps ==
    ASSUME [MeteredNext]_meteredVars
    PROVE  [Next]_vars \/ \E p \in Replicas : Crash(p)
  <1>1. ASSUME NEW r \in Requests, InvokeUncounted(r) PROVE Next
    BY <1>1 DEF InvokeUncounted, Next, InvokeProgress
  <1>2. ASSUME NEW r \in Requests,
               \/ LimitCounted(r) \/ EvaluateCounted(r)
               \/ DenyCounted(r) \/ HoldCounted(r) \/ AllowCounted(r)
        PROVE  Next
    BY <1>2 DEF LimitCounted, EvaluateCounted, DenyCounted, HoldCounted,
                AllowCounted, Next, InvokeProgress
  <1>3. ASSUME NEW h \in Resolvers, SettleCounted(h) \/ ResolveUncounted(h)
        PROVE  Next
    BY <1>3 DEF SettleCounted, ResolveUncounted, Next, ResolveProgress
  <1>4. ASSUME Serve PROVE Next
    BY <1>1, <1>2, <1>3, <1>4 DEF Serve, Next
  <1>5. ASSUME RejectStatement PROVE Next
    BY <1>5 DEF RejectStatement, Next
  <1>6. CASE UNCHANGED meteredVars
    BY <1>6 DEF meteredVars
  <1> QED
    BY <1>4, <1>5, <1>6 DEF MeteredNext

\* A replica that dies writes nothing: its handlers stop wherever they are, and
\* what held of the rows they had written still holds.
LEMMA CrashKeepsInv ==
    ASSUME Inv, NEW p \in Replicas, Crash(p)
    PROVE  Inv'
  <1> USE DEF Inv, AuthorityInv
  <1>1. /\ UNCHANGED <<tenant, verdict, target, caller, status, decision, approval,
                       costEvents, auditLogs, executions>>
        /\ \A r \in Requests : \/ invoke'[r] = invoke[r]
                               \/ invoke'[r] = "failed500"
        /\ \A h \in Resolvers : \/ resolve'[h] = resolve[h]
                                \/ resolve'[h] = "failed500"
    BY DEF Crash, TypeOK, ledger
  <1>2. TypeOK'
    <2>1. /\ invoke' \in [Requests -> {"idle"} \cup InvokeSteps \cup InvokeReplies]
          /\ resolve' \in [Resolvers -> {"idle"} \cup ResolveSteps \cup ResolveReplies]
      BY DEF Crash, TypeOK, InvokeReplies, ResolveReplies
    <2> QED
      BY <1>1, <2>1 DEF TypeOK
  <1>3. DecisionInv'
    BY <1>1 DEF DecisionInv, BeforeRecord, DenyPath, HoldPath, AllowPath, InvokeRan
  <1>4. TargetInv'
    BY <1>1 DEF TargetInv, Found, ResolveSteps, ApproveSteps, DenySteps
  <1>5. OwnerInv'
    BY <1>1 DEF OwnerInv, Owns, Owning, ResolveRan, Event
  <1>6. RanInv'
    BY <1>1 DEF RanInv, InvokeRan, ResolveRan, Event, TypeOK, Events
  <1>7. ExecutedOnlyIfAuthorised'
    BY <1>1 DEF ExecutedOnlyIfAuthorised
  <1>8. CostInv'
    BY <1>1 DEF CostInv, Event
  <1>9. StatusInv'
    BY <1>1 DEF StatusInv, InvokeRan, Executed
  <1>10. AuditInv'
    BY <1>1 DEF AuditInv, AuditBacked, Event
  <1>11. DenialInv'
    <2>1. ASSUME NEW r, Overtaken(r) PROVE Overtaken(r)'
      BY <1>1, <2>1 DEF Overtaken
    <2>2. ASSUME NEW r, DenialAccounted(r) PROVE DenialAccounted(r)'
      BY <1>1, <2>1, <2>2 DEF DenialAccounted
    <2>3. ASSUME NEW h \in Resolvers,
                 resolve'[h] \in {"reject", "rejectAudit", "denied200"}
          PROVE  DenialAccounted(target[h])'
      BY <1>1, <2>3 DEF DenialInv, DenialAccounted, Overtaken
    <2>4. ASSUME NEW r \in Requests, DenialRecorded(r)' PROVE DenialAccounted(r)'
      BY <1>1, <2>2, <2>4 DEF DenialInv, DenialRecorded
    <2>5. ASSUME NEW r \in Requests, approval'[r] = "approved" PROVE Overtaken(r)'
      BY <1>1, <2>1, <2>5 DEF DenialInv
    <2> QED
      BY <2>3, <2>4, <2>5 DEF DenialInv
  <1> QED
    BY <1>2, <1>3, <1>4, <1>5, <1>6, <1>7, <1>8, <1>9, <1>10, <1>11

\* The tables stay in agreement on any number of replicas, whichever of them die
\* in the middle of whatever they are doing.
THEOREM ReplicasInvariance == MeteredSpec => []Inv
  <1>1. MeteredInit => Inv
    BY AuthorityInit, RecordsInit, DenialInit DEF MeteredInit, Inv, RecordsInv
  <1>2. Inv /\ [MeteredNext]_meteredVars => Inv'
    BY MeteredSteps, CrashKeepsInv, AuthorityStep, RecordsStep, DenialStep DEF Inv, RecordsInv
  <1> QED
    BY <1>1, <1>2, PTL DEF MeteredSpec

\* So no crash, and no retry after it, lets a tool run without authority or a
\* request run twice.
THEOREM ReplicasSafe ==
    MeteredSpec => [](ExecutedOnlyIfAuthorised /\ ExecutedAtMostOnce)
  <1>1. Inv => ExecutedOnlyIfAuthorised /\ ExecutedAtMostOnce
    BY AtMostOnceInv DEF Inv, AuthorityInv
  <1> QED
    BY <1>1, ReplicasInvariance, PTL
-----------------------------------------------------------------------------
\* What one step does to the counters of the replicas.
LEMMA Counts ==
    ASSUME Serve
    PROVE  \/ \E x \in Handlers : Route(x)
           \/ UNCHANGED <<home, count>>
           \/ /\ UNCHANGED home
              /\ \E x \in Handlers, S \in SUBSET Series : Increment(x, S)
  <1>1. ASSUME NEW r \in Requests, LimitCounted(r)
        PROVE  /\ UNCHANGED home
               /\ UNCHANGED count \/ \E S \in SUBSET Series : Increment(r, S)
    BY <1>1 DEF LimitCounted, Status, Series, RequestTotal
  <1>2. ASSUME NEW r \in Requests, EvaluateCounted(r)
        PROVE  UNCHANGED home /\ \E S \in SUBSET Series : Increment(r, S)
    BY <1>2 DEF EvaluateCounted, Decided, Series
  <1>3. ASSUME NEW r \in Requests, DenyCounted(r) \/ HoldCounted(r) \/ AllowCounted(r)
        PROVE  UNCHANGED home /\ \E S \in SUBSET Series : Increment(r, S)
    BY <1>3 DEF DenyCounted, HoldCounted, AllowCounted, Status, Series,
                RequestTotal, Latency, Pending, Executions
  <1>4. ASSUME NEW h \in Resolvers, SettleCounted(h)
        PROVE  UNCHANGED home /\ \E S \in SUBSET Series : Increment(h, S)
    BY <1>4 DEF SettleCounted, Executions, Series
  <1> QED
    BY <1>1, <1>2, <1>3, <1>4 DEF Serve, Handlers, Uncounted

\* Counters stay natural numbers, and calls on their replica.
THEOREM MeteredTypeCorrect == MeteredSpec => []MeteredTypeOK
  <1> DEFINE Typed ==
        /\ home \in [Handlers -> Replicas \cup {None}]
        /\ count \in [Replicas -> [Series -> Nat]]
        /\ broken \in BOOLEAN
  <1>0. Zero \in [Series -> Nat]
    BY DEF Zero
  <1>1. MeteredInit => Typed
    BY <1>0 DEF MeteredInit
  <1>2. Typed /\ [MeteredNext]_meteredVars => Typed'
    <2> SUFFICES ASSUME Typed, [MeteredNext]_meteredVars PROVE Typed'
      OBVIOUS
    <2>1. CASE Serve /\ UNCHANGED broken
      <3>1. CASE \E x \in Handlers : Route(x)
        BY <2>1, <3>1 DEF Route
      <3>2. CASE UNCHANGED <<home, count>>
        BY <2>1, <3>2
      <3>3. ASSUME UNCHANGED home,
                   NEW x \in Handlers, NEW S \in SUBSET Series, Increment(x, S)
            PROVE  Typed'
        <4>1. ASSUME NEW p \in Replicas
              PROVE  [s \in Series |-> IF s \in S THEN count[p][s] + 1
                                       ELSE count[p][s]] \in [Series -> Nat]
          OBVIOUS
        <4>2. count' \in [Replicas -> [Series -> Nat]]
          BY <3>3, <4>1 DEF Increment
        <4> QED
          BY <2>1, <3>3, <4>2
      <3> QED
        BY <2>1, <3>1, <3>2, <3>3, Counts
    <2>2. CASE RejectStatement
      BY <2>2 DEF RejectStatement, Uncounted
    <2>3. ASSUME NEW p \in Replicas, Crash(p) PROVE Typed'
      BY <1>0, <2>3 DEF Crash
    <2>4. CASE UNCHANGED meteredVars
      BY <2>4 DEF meteredVars, metricsVars
    <2> QED
      BY <2>1, <2>2, <2>3, <2>4 DEF MeteredNext
  <1>3. Inv /\ Typed => MeteredTypeOK
    BY DEF Inv, AuthorityInv, MeteredTypeOK
  <1> QED
    BY <1>1, <1>2, <1>3, ReplicasInvariance, PTL DEF MeteredSpec
-----------------------------------------------------------------------------
(* The counters against what happened.                                     *)

\* The counters of every replica have their type.
CountersOK ==
    /\ home \in [Handlers -> Replicas \cup {None}]
    /\ count \in [Replicas -> [Series -> Nat]]

\* An increment adds one tick to each of its series, and none to the others.
LEMMA Ticked ==
    ASSUME CountersOK, FiniteInv, NEW x \in Handlers, NEW S \in SUBSET Series,
           Increment(x, S), home[x] \in Replicas, NEW s \in Series
    PROVE  /\ IsFiniteSet(Ticks(s)') /\ Total(s) \in Nat
           /\ Total(s)' = IF s \in S THEN Total(s) + 1 ELSE Total(s)
  <1>1. /\ count[home[x]][s] \in Nat
        /\ count'[home[x]][s] = IF s \in S THEN count[home[x]][s] + 1
                                ELSE count[home[x]][s]
        /\ \A p \in Replicas \ {home[x]} : count'[p][s] = count[p][s]
    BY DEF CountersOK, Increment
  <1> DEFINE tick == <<home[x], count[home[x]][s] + 1>>
  <1>2. IsFiniteSet(Ticks(s))
    BY DEF FiniteInv
  <1>3. CASE s \notin S
    <2>1. Ticks(s)' = Ticks(s)
      BY <1>1, <1>3 DEF Ticks
    <2> QED
      BY <1>2, <1>3, <2>1, FS_CardinalityType DEF Total
  <1>4. CASE s \in S
    <2>1. tick \notin Ticks(s)
      BY <1>1 DEF Ticks
    <2>2. \A p \in Replicas \ {home[x]} : 1..count'[p][s] = 1..count[p][s]
      BY <1>1
    <2>3. 1..count'[home[x]][s] =
            1..count[home[x]][s] \cup {count[home[x]][s] + 1}
      BY <1>1, <1>4
    <2>4. Ticks(s)' = Ticks(s) \cup {tick}
      <3>1. \A t : t \in Ticks(s) <=>
                \E p \in Replicas : \E n \in 1..count[p][s] : t = <<p, n>>
        BY DEF Ticks
      <3>2. \A t : t \in Ticks(s)' <=>
                \E p \in Replicas : \E n \in 1..count'[p][s] : t = <<p, n>>
        BY DEF Ticks
      <3>3. \A t : t \in Ticks(s)' <=> t \in Ticks(s) \cup {tick}
        BY <2>2, <2>3, <3>1, <3>2, Zenon
      <3> QED
        BY <3>3
    <2>5. /\ IsFiniteSet(Ticks(s) \cup {tick})
          /\ Cardinality(Ticks(s) \cup {tick}) = Cardinality(Ticks(s)) + 1
          /\ Cardinality(Ticks(s)) \in Nat
      BY <1>2, <2>1, FS_AddElement, FS_CardinalityType
    <2> QED
      BY <1>4, <2>4, <2>5 DEF Total
  <1> QED
    BY <1>3, <1>4

\* A replica that dies loses its ticks and adds none.
LEMMA TicksLost ==
    ASSUME CountersOK, FiniteInv, NEW p \in Replicas, Crash(p), NEW s \in Series
    PROVE  /\ IsFiniteSet(Ticks(s)')
           /\ Total(s) \in Nat /\ Total(s)' \in Nat /\ Total(s)' <= Total(s)
  <1>1. \A q \in Replicas : count'[q][s] = count[q][s] \/ count'[q][s] = 0
    BY DEF Crash, CountersOK, Zero
  <1>2. \A q \in Replicas : 1..count'[q][s] \subseteq 1..count[q][s]
    BY <1>1 DEF CountersOK
  <1>3. Ticks(s)' \in SUBSET Ticks(s)
    BY <1>2 DEF Ticks
  <1> QED
    BY <1>3, FS_Subset, FS_CardinalityType DEF FiniteInv, Total

\* One handler moves at a time, and one that has answered moves no more.
LEMMA OneMoves ==
    ASSUME TypeOK, [Next]_vars
    PROVE  \/ UNCHANGED <<invoke, resolve>>
           \/ /\ UNCHANGED resolve
              /\ \E r \in Requests :
                    /\ invoke[r] \in {"idle"} \cup InvokeSteps
                    /\ \A q \in Requests \ {r} : invoke'[q] = invoke[q]
           \/ /\ UNCHANGED invoke
              /\ \E h \in Resolvers :
                    /\ resolve[h] \in {"idle"} \cup ResolveSteps
                    /\ \A g \in Resolvers \ {h} : resolve'[g] = resolve[g]
  <1> USE DEF TypeOK, InvokeStep, ResolveStep, InvokeSteps, ResolveSteps,
              ApproveSteps, DenySteps
  <1>1. ASSUME NEW r \in Requests,
               \/ \E t \in Tenants : Receive(r, t)
               \/ Refuse(r) \/ InvokeProgress(r) \/ FailInvoke(r)
        PROVE  /\ UNCHANGED resolve
               /\ invoke[r] \in {"idle"} \cup InvokeSteps
               /\ \A q \in Requests \ {r} : invoke'[q] = invoke[q]
    BY <1>1 DEF InvokeProgress, Receive, Refuse, CheckRateLimit, ResolveAgent,
            InsertRequest, EvaluatePolicy, RecordDecision, Deny, AuditDeny,
            InsertApproval, Hold, AuditHold, Execute, MarkError, AuditError, Allow,
            CostAllow, AuditAllow, FailInvoke, resolveVars
  <1>2. ASSUME NEW h \in Resolvers,
               \/ \E r \in Requests, t \in Tenants :
                     ReadForApprove(h, r, t) \/ ReadForDeny(h, r, t)
               \/ RefuseResolver(h) \/ ResolveProgress(h) \/ FailResolve(h)
        PROVE  /\ UNCHANGED invoke
               /\ resolve[h] \in {"idle"} \cup ResolveSteps
               /\ \A g \in Resolvers \ {h} : resolve'[g] = resolve[g]
    BY <1>2 DEF ResolveProgress, RefuseResolver, FailResolve, ReadRequest, Claim,
            RunDeferred, Rollback, Settle, CostSettle, AuditSettle, Flip, Reject,
            AuditReject, ReadForApprove, ReadForDeny, Lookup, invokeVars
  <1>3. CASE UNCHANGED vars
    BY <1>3 DEF vars, invokeVars, resolveVars
  <1> QED
    BY <1>1, <1>2, <1>3 DEF Next

\* Six statements write audit rows, each as the last of its handler.
LEMMA AuditWriters ==
    ASSUME TypeOK, [Next]_vars, auditLogs' # auditLogs
    PROVE  \/ \E r \in Requests, a \in AuditActions, o \in {"success", "failure"} :
                 /\ invoke[r] \in InvokeSteps /\ invoke'[r] \in InvokeReplies
                 /\ WriteAudit(r, r, a, o)
           \/ \E h \in Resolvers, a \in AuditActions :
                 /\ resolve[h] \in ResolveSteps /\ resolve'[h] \in ResolveReplies
                 /\ WriteAudit(target[h], h, a, "success")
  <1>1. \/ \E r \in Requests :
              AuditDeny(r) \/ AuditHold(r) \/ AuditError(r) \/ AuditAllow(r)
        \/ \E h \in Resolvers : AuditSettle(h) \/ AuditReject(h)
    BY DEF Next, InvokeProgress, ResolveProgress, vars, ledger,
         Receive, Refuse, CheckRateLimit, ResolveAgent, InsertRequest, EvaluatePolicy,
         RecordDecision, InsertApproval, Deny, Hold, Execute, MarkError, Allow,
         CostAllow, FailInvoke, ReadForApprove, ReadForDeny, Lookup, RefuseResolver,
         ReadRequest, Claim, RunDeferred, Rollback, Settle, CostSettle, Flip, Reject,
         FailResolve
  <1>2. ASSUME NEW r \in Requests,
               AuditDeny(r) \/ AuditHold(r) \/ AuditError(r) \/ AuditAllow(r)
        PROVE  \E a \in AuditActions, o \in {"success", "failure"} :
                 /\ invoke[r] \in InvokeSteps /\ invoke'[r] \in InvokeReplies
                 /\ WriteAudit(r, r, a, o)
    BY <1>2 DEF AuditDeny, AuditHold, AuditError, AuditAllow, InvokeStep, TypeOK,
                InvokeSteps, InvokeReplies, AuditActions
  <1>3. ASSUME NEW h \in Resolvers, AuditSettle(h) \/ AuditReject(h)
        PROVE  \E a \in AuditActions :
                 /\ resolve[h] \in ResolveSteps /\ resolve'[h] \in ResolveReplies
                 /\ WriteAudit(target[h], h, a, "success")
    BY <1>3 DEF AuditSettle, AuditReject, ResolveStep, TypeOK,
                ResolveSteps, ApproveSteps, DenySteps, ResolveReplies, AuditActions
  <1> QED
    BY <1>1, <1>2, <1>3

\* Whoever writes an audit row has written none before.
LEMMA RowsStep ==
    ASSUME TypeOK, RowsInv, FiniteInv, [Next]_vars
    PROVE  /\ RowsInv' /\ IsFiniteSet(auditLogs')
           /\ auditLogs \subseteq auditLogs'
  <1>0. /\ \A r \in Requests : invoke[r] \in InvokeReplies => invoke'[r] = invoke[r]
        /\ \A h \in Resolvers : resolve[h] \in ResolveReplies => resolve'[h] = resolve[h]
    <2>1. ({"idle"} \cup InvokeSteps) \cap InvokeReplies = {}
          /\ ({"idle"} \cup ResolveSteps) \cap ResolveReplies = {}
      BY DEF InvokeSteps, InvokeReplies, ResolveSteps, ApproveSteps, DenySteps,
             ResolveReplies
    <2> QED
      BY <2>1, OneMoves, Zenon
  <1>1. CASE UNCHANGED auditLogs
    BY <1>0, <1>1 DEF RowsInv, FiniteInv
  <1>2. ASSUME NEW x, NEW r, NEW a, NEW o, WriteAudit(r, x, a, o),
               \/ x \in Requests /\ invoke'[x] \in InvokeReplies
               \/ x \in Resolvers /\ resolve'[x] \in ResolveReplies
        PROVE  /\ RowsInv' /\ IsFiniteSet(auditLogs')
               /\ auditLogs \subseteq auditLogs'
    <2> DEFINE row == [request |-> r, handler |-> x, action |-> a, outcome |-> o]
    <2>1. auditLogs' = auditLogs \cup {row} /\ row.handler = x
      BY <1>2 DEF WriteAudit
    <2>2. IsFiniteSet(auditLogs')
      BY <2>1, FS_AddElement DEF FiniteInv
    <2>3. RowsInv'
      <3>1. SUFFICES ASSUME NEW b \in auditLogs'
            PROVE  /\ b.handler \in Requests => invoke'[b.handler] \in InvokeReplies
                   /\ b.handler \in Resolvers => resolve'[b.handler] \in ResolveReplies
        BY DEF RowsInv
      <3>2. CASE b \in auditLogs
        BY <1>0, <3>2 DEF RowsInv
      <3>3. CASE b = row
        BY <1>2, <2>1, <3>3, HandlersAssumption
      <3> QED
        BY <2>1, <3>2, <3>3
    <2> QED
      BY <2>1, <2>2, <2>3
  <1> QED
    BY <1>1, <1>2, AuditWriters

\* A handler under way was sent to a replica, and stays there.
LEMMA HomeStep ==
    ASSUME TypeOK, CountersOK, HomeInv, [MeteredNext]_meteredVars
    PROVE  HomeInv'
  <1> USE DEF HomeInv
  <1>1. ASSUME NEW r \in Requests, NEW t \in Tenants, Receive(r, t), Route(r)
        PROVE  HomeInv'
    BY <1>1, HandlersAssumption DEF Receive, Route, InvokeStep, TypeOK, CountersOK,
                                    Handlers, resolveVars
  <1>2. ASSUME NEW h \in Resolvers, NEW r \in Requests, NEW t \in Tenants,
               ReadForApprove(h, r, t) \/ ReadForDeny(h, r, t), Route(h)
        PROVE  HomeInv'
    BY <1>2, HandlersAssumption DEF ReadForApprove, ReadForDeny, Lookup, Route,
                                    TypeOK, CountersOK, Handlers, invokeVars
  <1>3. ASSUME UNCHANGED home,
               \A r \in Requests :
                  invoke'[r] \in InvokeSteps => invoke[r] \in InvokeSteps,
               \A h \in Resolvers :
                  resolve'[h] \in ResolveSteps => resolve[h] \in ResolveSteps
        PROVE  HomeInv'
    BY <1>3
  <1>4. ASSUME NEW r \in Requests,
               Refuse(r) \/ FailInvoke(r) \/ InvokeProgress(r)
        PROVE  /\ UNCHANGED resolve
               /\ \A q \in Requests :
                     invoke'[q] \in InvokeSteps => invoke[q] \in InvokeSteps
    BY <1>4 DEF InvokeProgress, Refuse, CheckRateLimit, ResolveAgent,
            InsertRequest, EvaluatePolicy, RecordDecision, Deny, AuditDeny,
            InsertApproval, Hold, AuditHold, Execute, MarkError, AuditError, Allow,
            CostAllow, AuditAllow, FailInvoke, resolveVars, TypeOK, InvokeStep,
            InvokeSteps
  <1>5. ASSUME NEW h \in Resolvers,
               RefuseResolver(h) \/ FailResolve(h) \/ ResolveProgress(h)
        PROVE  /\ UNCHANGED invoke
               /\ \A g \in Resolvers :
                     resolve'[g] \in ResolveSteps => resolve[g] \in ResolveSteps
    BY <1>5 DEF ResolveProgress, RefuseResolver, FailResolve, ReadRequest, Claim,
            RunDeferred, Rollback, Settle, CostSettle, AuditSettle, Flip, Reject,
            AuditReject, invokeVars, TypeOK, ResolveStep,
            ResolveSteps, ApproveSteps, DenySteps
  <1>6. ASSUME NEW r \in Requests,
               \/ Refuse(r) /\ Uncounted
               \/ LimitCounted(r) \/ EvaluateCounted(r)
               \/ DenyCounted(r) \/ HoldCounted(r) \/ AllowCounted(r)
               \/ InvokeUncounted(r) /\ Uncounted
        PROVE  UNCHANGED home /\ (Refuse(r) \/ InvokeProgress(r))
    BY <1>6 DEF LimitCounted, EvaluateCounted, DenyCounted, HoldCounted,
            AllowCounted, InvokeUncounted, InvokeProgress, Uncounted
  <1>7. ASSUME NEW h \in Resolvers,
               \/ RefuseResolver(h) /\ Uncounted
               \/ SettleCounted(h)
               \/ ResolveUncounted(h) /\ Uncounted
        PROVE  UNCHANGED home /\ (RefuseResolver(h) \/ ResolveProgress(h))
    BY <1>7 DEF SettleCounted, ResolveUncounted, ResolveProgress, Uncounted
  <1>8. ASSUME Serve PROVE HomeInv'
    <2> HIDE DEF HomeInv
    <2> QED
      BY <1>1, <1>2, <1>3, <1>4, <1>5, <1>6, <1>7, <1>8 DEF Serve
  <1>9. ASSUME RejectStatement PROVE HomeInv'
    BY <1>3, <1>4, <1>5, <1>9 DEF RejectStatement, Uncounted
  <1>10. ASSUME NEW p \in Replicas, Crash(p) PROVE HomeInv'
    BY <1>3, <1>10 DEF Crash, InvokeSteps, ResolveSteps, ApproveSteps, DenySteps
  <1>11. CASE UNCHANGED meteredVars
    BY <1>11 DEF meteredVars, metricsVars, vars, invokeVars, resolveVars
  <1> QED
    BY <1>8, <1>9, <1>10, <1>11 DEF MeteredNext

-----------------------------------------------------------------------------
(* What the counters show is on record.                                    *)

\* The audit log only grows, and so does what it says of an action.
LEMMA AuditedKept ==
    ASSUME IsFiniteSet(auditLogs), IsFiniteSet(auditLogs'),
           auditLogs \subseteq auditLogs', NEW a
    PROVE  Audited(a) \in Nat /\ Audited(a)' \in Nat /\ Audited(a) <= Audited(a)'
  <1> DEFINE rows == {b \in auditLogs : b.action = a /\ b.outcome = "success"}
  <1>1. rows \in SUBSET auditLogs /\ rows' \in SUBSET (auditLogs')
        /\ rows \in SUBSET (rows')
    OBVIOUS
  <1>2. IsFiniteSet(rows) /\ IsFiniteSet(rows')
    BY <1>1, FS_Subset
  <1> QED
    BY <1>1, <1>2, FS_Subset, FS_CardinalityType DEF Audited

\* The row of a handler that is under way is a new one.
LEMMA AuditedOnce ==
    ASSUME RowsInv, FiniteInv, NEW r, NEW x, NEW a, WriteAudit(r, x, a, "success"),
           \/ x \in Requests /\ invoke[x] \notin InvokeReplies
           \/ x \in Resolvers /\ resolve[x] \notin ResolveReplies
    PROVE  Audited(a)' = Audited(a) + 1
  <1> DEFINE row  == [request |-> r, handler |-> x, action |-> a,
                      outcome |-> "success"]
             rows == {b \in auditLogs : b.action = a /\ b.outcome = "success"}
  <1>1. row \notin auditLogs
    BY DEF RowsInv
  <1>2. rows' = rows \cup {row}
    BY DEF WriteAudit
  <1>3. IsFiniteSet(rows)
    <2>1. rows \in SUBSET auditLogs
      OBVIOUS
    <2> QED
      BY <2>1, FS_Subset DEF FiniteInv
  <1>4. Cardinality(rows \cup {row}) = Cardinality(rows) + 1
    BY <1>1, <1>3, FS_AddElement
  <1> QED
    BY <1>2, <1>4 DEF Audited

\* Different names are different series.
LEMMA SeriesNames ==
    /\ {Executions, Pending, Latency} \subseteq Series
    /\ \A s \in {"rate_limited", "denied", "approval_required", "allowed"} :
          /\ Status(s) \in Series
          /\ Status(s) \notin {Executions, Pending, Latency}
          /\ \A d \in Decisions : Status(s) # Decided(d)
    /\ \A d \in Decisions :
          /\ Decided(d) \in Series
          /\ Decided(d) \notin {Executions, Pending, Latency}
          /\ \A c \in Decisions : Decided(c) = Decided(d) => c = d
    /\ \A s, t \in {"rate_limited", "denied", "approval_required", "allowed"} :
          Status(s) = Status(t) => s = t
    /\ Executions # Pending /\ Executions # Latency /\ Pending # Latency
  BY DEF Series, Status, Decided, Executions, Pending, Latency, RequestTotal, Decisions

\* The steps at which nothing is counted.
Silent ==
    \/ \E r \in Requests :
          \/ \E t \in Tenants : Receive(r, t)
          \/ Refuse(r) \/ CheckRateLimit(r) \/ InvokeUncounted(r)
    \/ \E h \in Resolvers :
          \/ \E r \in Requests, t \in Tenants :
                ReadForApprove(h, r, t) \/ ReadForDeny(h, r, t)
          \/ RefuseResolver(h) \/ ResolveUncounted(h)

\* Where a handler counts, it counts on a replica, these series and no others,
\* and the four that report on the audit log only with the row of that step.
LEMMA Counted ==
    ASSUME TypeOK, HomeInv, Serve
    PROVE  \/ Silent /\ UNCHANGED count
           \/ \E r \in Requests :
                 /\ home[r] \in Replicas
                 /\ \/ LimitCounted(r) /\ Increment(r, {Status("rate_limited")})
                    \/ \E d \in Decisions :
                          EvaluatePolicy(r, d) /\ Increment(r, {Decided(d)})
                    \/ AuditDeny(r) /\ Increment(r, {Status("denied"), Latency})
                    \/ AuditHold(r) /\ Increment(r, {Status("approval_required"),
                                                     Pending, Latency})
                    \/ AuditAllow(r) /\ Increment(r, {Status("allowed"),
                                                      Executions, Latency})
           \/ \E h \in Resolvers :
                 /\ home[h] \in Replicas
                 /\ AuditSettle(h) /\ Increment(h, {Executions})
  <1>1. ASSUME NEW r \in Requests,
               \/ LimitCounted(r) \/ EvaluateCounted(r)
               \/ DenyCounted(r) \/ HoldCounted(r) \/ AllowCounted(r)
        PROVE  home[r] \in Replicas
    BY <1>1 DEF LimitCounted, EvaluateCounted, DenyCounted, HoldCounted, AllowCounted,
                CheckRateLimit, EvaluatePolicy, AuditDeny, AuditHold, AuditAllow,
                InvokeStep, InvokeSteps, HomeInv
  <1>2. ASSUME NEW h \in Resolvers, SettleCounted(h) PROVE home[h] \in Replicas
    BY <1>2 DEF SettleCounted, AuditSettle, ResolveStep, ResolveSteps, ApproveSteps,
                HomeInv
  <1>3. ASSUME NEW r \in Requests, LimitCounted(r)
        PROVE  \/ CheckRateLimit(r) /\ UNCHANGED count
               \/ Increment(r, {Status("rate_limited")})
    BY <1>3 DEF LimitCounted
  <1>4. ASSUME NEW r \in Requests, EvaluateCounted(r)
        PROVE  \E d \in Decisions : EvaluatePolicy(r, d) /\ Increment(r, {Decided(d)})
    BY <1>4 DEF EvaluateCounted
  <1>5. ASSUME NEW r \in Requests PROVE
          /\ DenyCounted(r) =>
                AuditDeny(r) /\ Increment(r, {Status("denied"), Latency})
          /\ HoldCounted(r) =>
                AuditHold(r) /\ Increment(r, {Status("approval_required"),
                                              Pending, Latency})
          /\ AllowCounted(r) =>
                AuditAllow(r) /\ Increment(r, {Status("allowed"), Executions, Latency})
    BY DEF DenyCounted, HoldCounted, AllowCounted
  <1>6. ASSUME NEW h \in Resolvers, SettleCounted(h)
        PROVE  AuditSettle(h) /\ Increment(h, {Executions})
    BY <1>6 DEF SettleCounted
  <1> QED
    BY <1>1, <1>2, <1>3, <1>4, <1>5, <1>6 DEF Serve, Route, Uncounted, Silent

\* The tables as the counters see them.
TablesOK == Inv /\ CountersOK

\* Every step leaves finitely many ticks and rows.
LEMMA FiniteStep ==
    ASSUME TablesOK, RowsInv, HomeInv, FiniteInv, [MeteredNext]_meteredVars
    PROVE  FiniteInv'
  <1>1. TypeOK
    BY DEF TablesOK, Inv, AuthorityInv
  <1>2. IsFiniteSet(auditLogs')
    <2>1. CASE [Next]_vars
      BY <1>1, <2>1, RowsStep
    <2>2. ASSUME NEW p \in Replicas, Crash(p) PROVE IsFiniteSet(auditLogs')
      BY <2>2 DEF Crash, ledger, FiniteInv
    <2> QED
      BY <2>1, <2>2, MeteredSteps
  <1>3. ASSUME NEW s \in Series PROVE IsFiniteSet(Ticks(s)')
    <2>1. CASE UNCHANGED count
      BY <2>1 DEF FiniteInv, Ticks
    <2>2. ASSUME NEW x \in Handlers, NEW S \in SUBSET Series, Increment(x, S),
                 home[x] \in Replicas
          PROVE  IsFiniteSet(Ticks(s)')
      BY <2>2, Ticked DEF TablesOK
    <2>3. ASSUME Serve, ~UNCHANGED count
          PROVE  \E x \in Handlers, S \in SUBSET Series :
                    Increment(x, S) /\ home[x] \in Replicas
      <3>1. /\ {Status("rate_limited")} \in SUBSET Series
            /\ \A d \in Decisions : {Decided(d)} \in SUBSET Series
            /\ {Status("denied"), Latency} \in SUBSET Series
            /\ {Status("approval_required"), Pending, Latency} \in SUBSET Series
            /\ {Status("allowed"), Executions, Latency} \in SUBSET Series
            /\ {Executions} \in SUBSET Series
        BY SeriesNames
      <3> QED
        BY <1>1, <2>3, <3>1, Counted, Zenon DEF Handlers
    <2>4. ASSUME NEW p \in Replicas, Crash(p) PROVE IsFiniteSet(Ticks(s)')
      BY <2>4, TicksLost DEF TablesOK
    <2>5. CASE RejectStatement \/ UNCHANGED meteredVars
      BY <2>1, <2>5 DEF RejectStatement, Uncounted, meteredVars, metricsVars
    <2> QED
      BY <2>1, <2>2, <2>3, <2>4, <2>5 DEF MeteredNext
  <1> QED
    BY <1>2, <1>3 DEF FiniteInv

\* A branch counts in the statement-free code after its audit row: the row is
\* there first.
LEMMA BackedStep ==
    ASSUME TablesOK, RowsInv, HomeInv, FiniteInv, CountersBacked,
           [MeteredNext]_meteredVars
    PROVE  CountersBacked'
  <1> DEFINE Bound == {Executions, Status("allowed"), Status("denied"), Pending}
             Actions == {"tool.executed", "approval.granted", "policy.evaluated",
                         "approval.requested"}
  <1>1. TypeOK /\ FiniteInv'
    BY FiniteStep DEF TablesOK, Inv, AuthorityInv
  <1>2. /\ Bound \subseteq Series
        /\ \A s \in Bound : Total(s) \in Nat /\ Total(s)' \in Nat
    BY <1>1, SeriesNames, FS_CardinalityType DEF FiniteInv, Total
  <1>3. \A a \in Actions :
            Audited(a) \in Nat /\ Audited(a)' \in Nat /\ Audited(a) <= Audited(a)'
    <2>1. auditLogs \subseteq auditLogs'
      <3>1. CASE [Next]_vars
        BY <1>1, <3>1, RowsStep
      <3>2. ASSUME NEW p \in Replicas, Crash(p) PROVE UNCHANGED auditLogs
        BY <3>2 DEF Crash, ledger
      <3> QED
        BY <3>1, <3>2, MeteredSteps
    <2> QED
      BY <1>1, <2>1, AuditedKept DEF FiniteInv
  <1>4. ASSUME \A s \in Bound : Total(s)' <= Total(s) PROVE CountersBacked'
    BY <1>2, <1>3, <1>4 DEF CountersBacked
  <1>5. ASSUME NEW x \in Handlers, NEW S \in SUBSET Series, Increment(x, S),
               home[x] \in Replicas, NEW s \in Bound
        PROVE  Total(s)' = IF s \in S THEN Total(s) + 1 ELSE Total(s)
    BY <1>2, <1>5, Ticked DEF TablesOK
  <1>6. ASSUME NEW r \in Requests, AuditDeny(r), home[r] \in Replicas,
               Increment(r, {Status("denied"), Latency})
        PROVE  CountersBacked'
    <2>1. Audited("policy.evaluated")' = Audited("policy.evaluated") + 1
      BY <1>6, AuditedOnce DEF AuditDeny, InvokeStep, InvokeReplies
    <2>2. \A s \in Bound :
              Total(s)' = IF s = Status("denied") THEN Total(s) + 1 ELSE Total(s)
      BY <1>5, <1>6, SeriesNames DEF Handlers
    <2> QED
      BY <1>2, <1>3, <2>1, <2>2, SeriesNames DEF CountersBacked
  <1>7. ASSUME NEW r \in Requests, AuditHold(r), home[r] \in Replicas,
               Increment(r, {Status("approval_required"), Pending, Latency})
        PROVE  CountersBacked'
    <2>1. Audited("approval.requested")' = Audited("approval.requested") + 1
      BY <1>7, AuditedOnce DEF AuditHold, InvokeStep, InvokeReplies
    <2>2. \A s \in Bound :
              Total(s)' = IF s = Pending THEN Total(s) + 1 ELSE Total(s)
      BY <1>5, <1>7, SeriesNames DEF Handlers
    <2> QED
      BY <1>2, <1>3, <2>1, <2>2, SeriesNames DEF CountersBacked
  <1>8. ASSUME NEW r \in Requests, AuditAllow(r), home[r] \in Replicas,
               Increment(r, {Status("allowed"), Executions, Latency})
        PROVE  CountersBacked'
    <2>1. Audited("tool.executed")' = Audited("tool.executed") + 1
      BY <1>8, AuditedOnce DEF AuditAllow, InvokeStep, InvokeReplies
    <2>2. \A s \in Bound : Total(s)' =
              IF s \in {Status("allowed"), Executions} THEN Total(s) + 1 ELSE Total(s)
      BY <1>5, <1>8, SeriesNames DEF Handlers
    <2> QED
      BY <1>2, <1>3, <2>1, <2>2, SeriesNames DEF CountersBacked
  <1>9. ASSUME NEW h \in Resolvers, AuditSettle(h), home[h] \in Replicas,
               Increment(h, {Executions})
        PROVE  CountersBacked'
    <2>1. Audited("approval.granted")' = Audited("approval.granted") + 1
      BY <1>9, AuditedOnce DEF AuditSettle, ResolveStep, ResolveReplies
    <2>2. \A s \in Bound :
              Total(s)' = IF s = Executions THEN Total(s) + 1 ELSE Total(s)
      BY <1>5, <1>9, SeriesNames DEF Handlers
    <2> QED
      BY <1>2, <1>3, <2>1, <2>2, SeriesNames DEF CountersBacked
  <1>10. ASSUME NEW r \in Requests, home[r] \in Replicas,
                \/ Increment(r, {Status("rate_limited")})
                \/ \E d \in Decisions : Increment(r, {Decided(d)})
         PROVE  \A s \in Bound : Total(s)' <= Total(s)
    <2>1. /\ {Status("rate_limited")} \in SUBSET Series
          /\ Bound \cap {Status("rate_limited")} = {}
          /\ \A d \in Decisions : /\ {Decided(d)} \in SUBSET Series
                                  /\ Bound \cap {Decided(d)} = {}
      BY SeriesNames
    <2>2. PICK S \in SUBSET Series : Increment(r, S) /\ Bound \cap S = {}
      BY <1>10, <2>1
    <2>3. \A s \in Bound : Total(s)' = Total(s)
      BY <1>5, <1>10, <2>2 DEF Handlers
    <2> QED
      BY <1>2, <2>3
  <1>11. CASE UNCHANGED count
    BY <1>2, <1>4, <1>11 DEF Total, Ticks
  <1>12. ASSUME Serve PROVE CountersBacked'
    BY <1>1, <1>4, <1>6, <1>7, <1>8, <1>9, <1>10, <1>11, <1>12, Counted
  <1>13. ASSUME NEW p \in Replicas, Crash(p) PROVE CountersBacked'
    BY <1>2, <1>4, <1>13, TicksLost DEF TablesOK
  <1>14. CASE RejectStatement \/ UNCHANGED meteredVars
    BY <1>11, <1>14 DEF RejectStatement, Uncounted, meteredVars, metricsVars
  <1> QED
    BY <1>12, <1>13, <1>14 DEF MeteredNext

-----------------------------------------------------------------------------
(* What happened is counted, until something fails.                        *)

\* A handler that is served is not one that fails.
LEMMA Served ==
    ASSUME Serve
    PROVE  \/ \E r \in Requests :
                 (\E t \in Tenants : Receive(r, t)) \/ Refuse(r) \/ InvokeProgress(r)
           \/ \E h \in Resolvers :
                 \/ \E r \in Requests, t \in Tenants :
                       ReadForApprove(h, r, t) \/ ReadForDeny(h, r, t)
                 \/ RefuseResolver(h) \/ ResolveProgress(h)
  <1>1. ASSUME NEW r \in Requests,
               \/ LimitCounted(r) \/ EvaluateCounted(r) \/ DenyCounted(r)
               \/ HoldCounted(r) \/ AllowCounted(r) \/ InvokeUncounted(r)
        PROVE  InvokeProgress(r)
    BY <1>1 DEF LimitCounted, EvaluateCounted, DenyCounted, HoldCounted,
                AllowCounted, InvokeUncounted, InvokeProgress
  <1>2. ASSUME NEW h \in Resolvers, SettleCounted(h) \/ ResolveUncounted(h)
        PROVE  ResolveProgress(h)
    BY <1>2 DEF SettleCounted, ResolveUncounted, ResolveProgress
  <1> QED
    BY <1>1, <1>2 DEF Serve

\* A row that reads error has been settled: no approval of it exists, so no
\* resolver writes it.
LEMMA ErrorStays ==
    ASSUME Inv, [Next]_vars, NEW r \in Requests, status[r] = "error",
           invoke[r] = "failed500"
    PROVE  status'[r] = "error"
  <1>0. decision[r] = "allow"
    BY DEF Inv, StatusInv
  <1>1. ASSUME NEW q \in Requests,
               \/ InsertRequest(q) \/ Deny(q) \/ Hold(q) \/ MarkError(q) \/ Allow(q)
        PROVE  status'[r] = "error"
    BY <1>1 DEF InsertRequest, Deny, Hold, MarkError, Allow, InvokeStep, SetStatus,
                Inv, AuthorityInv, TypeOK
  <1>2. ASSUME NEW h \in Resolvers, Settle(h) \/ Reject(h)
        PROVE  status'[r] = "error"
    <2>1. target[h] \in Requests /\ approval[target[h]] # "none"
      BY <1>2 DEF Settle, Reject, ResolveStep, Inv, AuthorityInv, TargetInv, Found,
                  ResolveSteps, ApproveSteps, DenySteps
    <2>2. decision[target[h]] = "approval_required"
      BY <2>1 DEF Inv, AuthorityInv, DecisionInv
    <2> QED
      BY <1>0, <1>2, <2>1, <2>2 DEF Settle, Reject, SetStatus, Inv, AuthorityInv, TypeOK
  <1>3. \/ UNCHANGED status
        \/ \E q \in Requests :
              InsertRequest(q) \/ Deny(q) \/ Hold(q) \/ MarkError(q) \/ Allow(q)
        \/ \E h \in Resolvers : Settle(h) \/ Reject(h)
    BY DEF Next, InvokeProgress, ResolveProgress, vars, ledger,
         Receive, Refuse, CheckRateLimit, ResolveAgent, EvaluatePolicy,
         RecordDecision, AuditDeny, InsertApproval, AuditHold, Execute, AuditError,
         CostAllow, AuditAllow, FailInvoke, ReadForApprove, ReadForDeny, Lookup,
         RefuseResolver, ReadRequest, Claim, RunDeferred, Rollback, CostSettle,
         AuditSettle, Flip, AuditReject, FailResolve
  <1> QED
    BY <1>1, <1>2, <1>3

\* While nothing fails, a handler leaves its branch only by the reply at its end.
LEMMA OrderlyStep ==
    ASSUME Inv, OrderlyInv, Serve
    PROVE  OrderlyInv'
  <1> DEFINE Early == {"invalid400", "unauthorized401", "limited429", "missing404"}
  <1>1. [Next]_vars /\ TypeOK /\ DecisionInv
    BY MeteredSteps, Served DEF MeteredNext, Next, Inv, AuthorityInv
  <1>2. ASSUME NEW r \in Requests
        PROVE  /\ invoke'[r] \in Early => decision'[r] = "none"
               /\ invoke'[r] # "record" => verdict'[r] = decision'[r]
               /\ invoke'[r] = "failed500" =>
                     invoke[r] = "failed500" \/ (status'[r] = "error")
    <2> USE DEF OrderlyInv, TypeOK, InvokeStep
    <2>1. ASSUME NEW q \in Requests,
                 (\E t \in Tenants : Receive(q, t)) \/ Refuse(q)
                    \/ CheckRateLimit(q) \/ ResolveAgent(q)
          PROVE  /\ UNCHANGED <<verdict, decision>>
                 /\ invoke'[r] = invoke[r]
                    \/ /\ invoke[r] \in BeforeRecord \ {"record"}
                       /\ invoke'[r] \notin {"record", "failed500"}
      BY <1>1, <2>1 DEF Receive, Refuse, CheckRateLimit, ResolveAgent, BeforeRecord
    <2>2. ASSUME NEW q \in Requests,
                 \/ InsertRequest(q) \/ Deny(q) \/ AuditDeny(q)
                 \/ InsertApproval(q) \/ Hold(q) \/ AuditHold(q)
                 \/ Execute(q) \/ MarkError(q) \/ Allow(q) \/ CostAllow(q)
                 \/ AuditAllow(q)
          PROVE  /\ UNCHANGED <<verdict, decision>>
                 /\ invoke'[r] = invoke[r]
                    \/ /\ invoke[r] # "record"
                       /\ invoke'[r] \notin Early \cup {"record", "failed500"}
      BY <1>1, <2>2 DEF InsertRequest, Deny, AuditDeny, InsertApproval, Hold,
              AuditHold, Execute, MarkError, Allow, CostAllow, AuditAllow
    <2>3. ASSUME NEW q \in Requests, AuditError(q)
          PROVE  /\ UNCHANGED <<verdict, decision, status>>
                 /\ invoke'[r] = invoke[r]
                    \/ /\ invoke[r] = "errorAudit" /\ invoke'[r] = "failed500"
                       /\ status[r] = "error"
      BY <1>1, <2>3 DEF AuditError, Inv, StatusInv
    <2>4. ASSUME NEW q \in Requests, NEW d \in Decisions, EvaluatePolicy(q, d)
          PROVE  /\ UNCHANGED decision
                 /\ \/ invoke'[r] = "record"
                    \/ invoke'[r] = invoke[r] /\ verdict'[r] = verdict[r]
      BY <1>1, <2>4 DEF EvaluatePolicy
    <2>5. ASSUME NEW q \in Requests, RecordDecision(q)
          PROVE  /\ UNCHANGED verdict
                 /\ \/ /\ decision'[r] = verdict[r]
                       /\ invoke'[r] \notin Early \cup {"record", "failed500"}
                    \/ invoke'[r] = invoke[r] /\ decision'[r] = decision[r]
      BY <1>1, <2>5 DEF RecordDecision, Branch
    <2>6. ASSUME NEW h \in Resolvers,
                 \/ \E q \in Requests, t \in Tenants :
                       ReadForApprove(h, q, t) \/ ReadForDeny(h, q, t)
                 \/ RefuseResolver(h) \/ ResolveProgress(h)
          PROVE  UNCHANGED <<invoke, verdict, decision>>
      BY <2>6 DEF ResolveProgress, RefuseResolver, ReadRequest, Claim, RunDeferred,
              Rollback, Settle, CostSettle, AuditSettle, Flip, Reject, AuditReject,
              ReadForApprove, ReadForDeny, Lookup, invokeVars
    <2>7. invoke[r] \in BeforeRecord => decision[r] = "none"
      BY <1>1 DEF DecisionInv
    <2> QED
      BY <2>1, <2>2, <2>3, <2>4, <2>5, <2>6, <2>7, Served DEF InvokeProgress
  <1>3. ASSUME NEW r \in Requests, invoke'[r] = "failed500"
        PROVE  status'[r] = "error"
    BY <1>1, <1>2, <1>3, ErrorStays DEF OrderlyInv
  <1>4. ASSUME NEW e \in executions', e.handler \in Resolvers
        PROVE  resolve'[e.handler] # "failed500"
    <2> USE DEF TypeOK, ResolveStep, Event, ToolReturns, ToolThrows
    <2>1. ASSUME NEW h \in Resolvers, RunDeferred(h)
          PROVE  resolve'[e.handler] # "failed500"
      BY <1>1, <1>4, <2>1 DEF RunDeferred, OrderlyInv
    <2>2. ASSUME NEW h \in Resolvers, Rollback(h)
          PROVE  resolve'[e.handler] # "failed500"
      BY <1>1, <1>4, <2>2 DEF Rollback, OrderlyInv, Inv, AuthorityInv, RanInv, ResolveRan
    <2>3. ASSUME NEW h \in Resolvers,
                 \/ \E q \in Requests, t \in Tenants :
                       ReadForApprove(h, q, t) \/ ReadForDeny(h, q, t)
                 \/ RefuseResolver(h) \/ ReadRequest(h) \/ Claim(h)
                 \/ Settle(h) \/ CostSettle(h) \/ AuditSettle(h)
                 \/ Flip(h) \/ Reject(h) \/ AuditReject(h)
          PROVE  resolve'[e.handler] # "failed500"
      BY <1>1, <1>4, <2>3 DEF ReadForApprove, ReadForDeny, Lookup, RefuseResolver,
              ReadRequest, Claim, Settle, CostSettle, AuditSettle, Flip, Reject,
              AuditReject, OrderlyInv
    <2>4. ASSUME NEW q \in Requests,
                 (\E t \in Tenants : Receive(q, t)) \/ Refuse(q) \/ InvokeProgress(q)
          PROVE  resolve'[e.handler] # "failed500"
      <3>1. UNCHANGED resolve
        BY <2>4 DEF InvokeProgress, Receive, Refuse, CheckRateLimit, ResolveAgent,
            InsertRequest, EvaluatePolicy, RecordDecision, Deny, AuditDeny,
            InsertApproval, Hold, AuditHold, Execute, MarkError, AuditError, Allow,
            CostAllow, AuditAllow, resolveVars
      <3>2. e \in executions \/ e.handler \in Requests
        BY <2>4 DEF InvokeProgress, Receive, Refuse, CheckRateLimit, ResolveAgent,
            InsertRequest, EvaluatePolicy, RecordDecision, Deny, AuditDeny,
            InsertApproval, Hold, AuditHold, Execute, MarkError, AuditError, Allow,
            CostAllow, AuditAllow
      <3> QED
        BY <1>4, <3>1, <3>2, HandlersAssumption DEF OrderlyInv
    <2> QED
      BY <2>1, <2>2, <2>3, <2>4, Served DEF ResolveProgress
  <1> QED
    BY <1>2, <1>3, <1>4 DEF OrderlyInv

\* Points at which an invoke call has been timed.
Answered == {"denied403", "held202", "allowed200"}

\* The handlers that do not report are where they were, or under way.
LEMMA Unreported ==
    ASSUME UNCHANGED verdict,
           \A r \in Requests : \/ invoke'[r] = invoke[r]
                               \/ {invoke[r], invoke'[r]} \cap Answered = {},
           \A h \in Resolvers : \/ resolve'[h] = resolve[h]
                                \/ "granted200" \notin {resolve[h], resolve'[h]},
           \/ UNCHANGED executions
           \/ \E r \in Requests : /\ executions' = executions \cup {Event(r, r)}
                                  /\ invoke'[r] # "allowed200"
           \/ \E h \in Resolvers :
                 /\ \E q : executions' = executions \cup {Event(q, h)}
                 /\ resolve'[h] # "granted200"
    PROVE  /\ UNCHANGED <<Reported, Timed>>
           /\ \A d \in Decisions : Judged(d)' = Judged(d)
  <1>1. \A r \in Requests : invoke'[r] = "allowed200" <=> invoke[r] = "allowed200"
    BY DEF Answered
  <1>2. \A h \in Resolvers : resolve'[h] = "granted200" <=> resolve[h] = "granted200"
    OBVIOUS
  <1>3. \A r \in Requests : invoke'[r] \in Answered <=> invoke[r] \in Answered
    OBVIOUS
  <1>4. Reported' = Reported
    <2>1. \A e \in executions' \ executions :
              \/ e.handler \in Requests /\ invoke'[e.handler] # "allowed200"
              \/ e.handler \in Resolvers /\ resolve'[e.handler] # "granted200"
      BY DEF Event
    <2>2. executions \subseteq executions'
      OBVIOUS
    <2> QED
      BY <1>1, <1>2, <2>1, <2>2, HandlersAssumption DEF Reported
  <1>5. Timed' = Timed
    BY <1>3 DEF Timed, Answered
  <1> QED
    BY <1>4, <1>5 DEF Judged

\* Where nothing is counted, nothing is reported.
LEMMA SilentSteps ==
    ASSUME TypeOK, Silent
    PROVE  /\ UNCHANGED <<Reported, Timed>>
           /\ \A d \in Decisions : Judged(d)' = Judged(d)
  <1> DEFINE Same == /\ UNCHANGED <<Reported, Timed>>
                     /\ \A d \in Decisions : Judged(d)' = Judged(d)
  <1> USE DEF TypeOK, InvokeStep, ResolveStep, ToolReturns, ToolThrows, Answered
  <1>1. ASSUME NEW r \in Requests,
               \/ \E t \in Tenants : Receive(r, t)
               \/ Refuse(r) \/ CheckRateLimit(r) \/ ResolveAgent(r)
               \/ InsertRequest(r) \/ RecordDecision(r) \/ Deny(r)
               \/ InsertApproval(r) \/ Hold(r) \/ MarkError(r) \/ AuditError(r)
               \/ Allow(r) \/ CostAllow(r)
        PROVE  Same
    <2>1. /\ UNCHANGED <<verdict, resolve, executions>>
          /\ \A q \in Requests : \/ invoke'[q] = invoke[q]
                                 \/ {invoke[q], invoke'[q]} \cap Answered = {}
      BY <1>1 DEF Receive, Refuse, CheckRateLimit, ResolveAgent, InsertRequest,
              RecordDecision, Branch, Deny, InsertApproval, Hold, MarkError,
              AuditError, Allow, CostAllow, resolveVars
    <2> QED
      BY <2>1, Unreported
  <1>2. ASSUME NEW r \in Requests, Execute(r) PROVE Same
    <2>1. /\ UNCHANGED <<verdict, resolve>>
          /\ \A q \in Requests : \/ invoke'[q] = invoke[q]
                                 \/ {invoke[q], invoke'[q]} \cap Answered = {}
          /\ \/ UNCHANGED executions
             \/ /\ executions' = executions \cup {Event(r, r)}
                /\ invoke'[r] # "allowed200"
      BY <1>2 DEF Execute, resolveVars
    <2> QED
      BY <2>1, Unreported
  <1>3. ASSUME NEW h \in Resolvers,
               \/ \E r \in Requests, t \in Tenants :
                     ReadForApprove(h, r, t) \/ ReadForDeny(h, r, t)
               \/ RefuseResolver(h) \/ ReadRequest(h) \/ Claim(h) \/ Rollback(h)
               \/ Settle(h) \/ CostSettle(h) \/ Flip(h) \/ Reject(h) \/ AuditReject(h)
        PROVE  Same
    <2>1. /\ UNCHANGED <<verdict, invoke, executions>>
          /\ \A g \in Resolvers : \/ resolve'[g] = resolve[g]
                                  \/ "granted200" \notin {resolve[g], resolve'[g]}
      BY <1>3 DEF ReadForApprove, ReadForDeny, Lookup, RefuseResolver, ReadRequest,
              Claim, Rollback, Settle, CostSettle, Flip, Reject, AuditReject, invokeVars
    <2> QED
      BY <2>1, Unreported
  <1>4. ASSUME NEW h \in Resolvers, RunDeferred(h) PROVE Same
    <2>1. /\ UNCHANGED <<verdict, invoke>>
          /\ \A g \in Resolvers : \/ resolve'[g] = resolve[g]
                                  \/ "granted200" \notin {resolve[g], resolve'[g]}
          /\ \/ UNCHANGED executions
             \/ /\ executions' = executions \cup {Event(target[h], h)}
                /\ resolve'[h] # "granted200"
      BY <1>4 DEF RunDeferred, invokeVars
    <2> QED
      BY <2>1, Unreported
  <1> HIDE DEF TypeOK, InvokeStep, ResolveStep, ToolReturns, ToolThrows, Answered
  <1> QED
    BY <1>1, <1>2, <1>3, <1>4 DEF Silent, InvokeUncounted, ResolveUncounted

\* One more member, one more tick.
LEMMA OneMore ==
    ASSUME NEW A, IsFiniteSet(A), NEW x, x \notin A
    PROVE  /\ IsFiniteSet(A \cup {x})
           /\ Cardinality(A \cup {x}) = Cardinality(A) + 1
  BY FS_AddElement

\* The steps that count an answer or a verdict add the one handler they count.
LEMMA ExactStep ==
    ASSUME TablesOK, HomeInv, FiniteInv, OrderlyInv, ExactInv, Serve
    PROVE  ExactInv'
  <1>1. TypeOK
    BY DEF TablesOK, Inv, AuthorityInv
  <1>2. /\ Executions \in Series /\ Latency \in Series
        /\ \A d \in Decisions : Decided(d) \in Series
    BY SeriesNames
  <1>3. ASSUME NEW x \in Handlers, NEW S \in SUBSET Series, Increment(x, S),
               home[x] \in Replicas, NEW s \in Series
        PROVE  Total(s)' = IF s \in S THEN Total(s) + 1 ELSE Total(s)
    BY <1>3, Ticked DEF TablesOK
  <1>4. ASSUME UNCHANGED <<Reported, Timed>>,
               \A d \in Decisions : Judged(d)' = Judged(d),
               Total(Executions)' = Total(Executions),
               Total(Latency)' = Total(Latency),
               \A d \in Decisions : Total(Decided(d))' = Total(Decided(d))
        PROVE  ExactInv'
    BY <1>4 DEF ExactInv
  <1>5. ASSUME NEW r \in Requests, NEW d \in Decisions, EvaluatePolicy(r, d),
               home[r] \in Replicas, Increment(r, {Decided(d)})
        PROVE  ExactInv'
    <2>1. verdict[r] = "none" /\ invoke[r] = "evaluate" /\ invoke'[r] = "record"
      BY <1>1, <1>5 DEF EvaluatePolicy, InvokeStep, OrderlyInv, TablesOK, Inv,
                        AuthorityInv, DecisionInv, BeforeRecord, TypeOK
    <2>2. /\ r \notin Judged(d) /\ Judged(d)' = Judged(d) \cup {r}
          /\ \A c \in Decisions \ {d} : Judged(c)' = Judged(c)
      BY <1>1, <2>1, <1>5 DEF EvaluatePolicy, Judged, Decisions, TypeOK
    <2>3. UNCHANGED <<Reported, Timed>>
      BY <1>1, <1>5, <2>1 DEF EvaluatePolicy, InvokeStep, TypeOK, Reported, Timed,
                              resolveVars
    <2>4. /\ {Decided(d)} \in SUBSET Series
          /\ Executions \notin {Decided(d)} /\ Latency \notin {Decided(d)}
          /\ \A c \in Decisions : Decided(c) \in {Decided(d)} <=> c = d
      BY SeriesNames
    <2>5. /\ Total(Executions)' = Total(Executions) /\ Total(Latency)' = Total(Latency)
          /\ \A c \in Decisions : Total(Decided(c))' =
                IF c = d THEN Total(Decided(c)) + 1 ELSE Total(Decided(c))
      BY <1>2, <1>3, <1>5, <2>4 DEF Handlers
    <2>6. /\ IsFiniteSet(Judged(d)')
          /\ Cardinality(Judged(d)') = Cardinality(Judged(d)) + 1
      BY <2>2, OneMore DEF ExactInv
    <2> QED
      BY <2>2, <2>3, <2>5, <2>6 DEF ExactInv
  <1>6. ASSUME NEW r \in Requests, home[r] \in Replicas,
               NEW S \in SUBSET Series, Increment(r, S),
               Latency \in S, Executions \notin S,
               \A d \in Decisions : Decided(d) \notin S,
               AuditDeny(r) \/ AuditHold(r)
        PROVE  ExactInv'
    <2>1. /\ r \notin Timed /\ Timed' = Timed \cup {r}
          /\ Reported' = Reported /\ \A d \in Decisions : Judged(d)' = Judged(d)
      BY <1>1, <1>6 DEF AuditDeny, AuditHold, InvokeStep, TypeOK, Timed, Reported,
                        Judged, resolveVars
    <2>2. /\ Total(Executions)' = Total(Executions)
          /\ Total(Latency)' = Total(Latency) + 1
          /\ \A d \in Decisions : Total(Decided(d))' = Total(Decided(d))
      BY <1>2, <1>3, <1>6 DEF Handlers
    <2>3. IsFiniteSet(Timed') /\ Cardinality(Timed') = Cardinality(Timed) + 1
      BY <2>1, OneMore DEF ExactInv
    <2> QED
      BY <2>1, <2>2, <2>3 DEF ExactInv
  <1>7. ASSUME NEW r \in Requests, AuditAllow(r), home[r] \in Replicas,
               Increment(r, {Status("allowed"), Executions, Latency})
        PROVE  ExactInv'
    <2>1. /\ r \notin Timed /\ Timed' = Timed \cup {r}
          /\ \A d \in Decisions : Judged(d)' = Judged(d)
      BY <1>1, <1>7 DEF AuditAllow, InvokeStep, TypeOK, Timed, Judged
    <2>2. Event(r, r) \notin Reported /\ Reported' = Reported \cup {Event(r, r)}
      <3>1. Event(r, r) \in executions /\ Event(r, r).handler = r
        BY <1>7 DEF AuditAllow, InvokeStep, TablesOK, Inv, AuthorityInv, RanInv,
                    InvokeRan, Event
      <3>2. \A e \in executions : e.handler = r => e = Event(r, r)
        <4> SUFFICES ASSUME NEW e \in executions, e.handler = r PROVE e = Event(r, r)
          OBVIOUS
        <4>1. e \in Events /\ e.handler = e.request
          BY HandlersAssumption DEF TablesOK, Inv, AuthorityInv, TypeOK,
                                    ExecutedOnlyIfAuthorised
        <4> QED
          BY <4>1 DEF Events, Event
      <3> QED
        BY <1>1, <1>7, <3>1, <3>2, HandlersAssumption
           DEF AuditAllow, InvokeStep, TypeOK, Reported, resolveVars
    <2>3. /\ {Status("allowed"), Executions, Latency} \in SUBSET Series
          /\ \A d \in Decisions : Decided(d) \notin {Status("allowed"), Executions, Latency}
      BY SeriesNames
    <2>4. /\ Total(Executions)' = Total(Executions) + 1
          /\ Total(Latency)' = Total(Latency) + 1
          /\ \A d \in Decisions : Total(Decided(d))' = Total(Decided(d))
      BY <1>2, <1>3, <1>7, <2>3 DEF Handlers
    <2>5. /\ IsFiniteSet(Timed') /\ Cardinality(Timed') = Cardinality(Timed) + 1
          /\ IsFiniteSet(Reported')
          /\ Cardinality(Reported') = Cardinality(Reported) + 1
      BY <2>1, <2>2, OneMore DEF ExactInv
    <2> QED
      BY <2>1, <2>4, <2>5 DEF ExactInv
  <1>8. ASSUME NEW h \in Resolvers, AuditSettle(h), home[h] \in Replicas,
               Increment(h, {Executions})
        PROVE  ExactInv'
    <2> DEFINE ran == Event(target[h], h)
    <2>1. Timed' = Timed /\ \A d \in Decisions : Judged(d)' = Judged(d)
      BY <1>8 DEF AuditSettle, Timed, Judged, invokeVars
    <2>2. ran \notin Reported /\ Reported' = Reported \cup {ran}
      <3>1. ran \in executions /\ ran.handler = h /\ resolve[h] = "settleAudit"
        BY <1>8 DEF AuditSettle, ResolveStep, TablesOK, Inv, AuthorityInv, RanInv,
                    ResolveRan, Event
      <3>2. \A e \in executions : e.handler = h => e = ran
        <4> SUFFICES ASSUME NEW e \in executions, e.handler = h PROVE e = ran
          OBVIOUS
        <4>1. e \in Events /\ target[h] = e.request
          BY HandlersAssumption DEF TablesOK, Inv, AuthorityInv, TypeOK, Events,
                                    ExecutedOnlyIfAuthorised
        <4> QED
          BY <4>1 DEF Events, Event
      <3> QED
        BY <1>1, <1>8, <3>1, <3>2, HandlersAssumption
           DEF AuditSettle, ResolveStep, TypeOK, Reported, invokeVars
    <2>3. /\ {Executions} \in SUBSET Series /\ Latency \notin {Executions}
          /\ \A d \in Decisions : Decided(d) \notin {Executions}
      BY SeriesNames
    <2>4. /\ Total(Executions)' = Total(Executions) + 1
          /\ Total(Latency)' = Total(Latency)
          /\ \A d \in Decisions : Total(Decided(d))' = Total(Decided(d))
      BY <1>2, <1>3, <1>8, <2>3 DEF Handlers
    <2>5. IsFiniteSet(Reported') /\ Cardinality(Reported') = Cardinality(Reported) + 1
      BY <2>2, OneMore DEF ExactInv
    <2> QED
      BY <2>1, <2>4, <2>5 DEF ExactInv
  <1>9. ASSUME NEW r \in Requests, LimitCounted(r), home[r] \in Replicas,
               Increment(r, {Status("rate_limited")})
        PROVE  ExactInv'
    <2>1. /\ UNCHANGED <<Reported, Timed>>
          /\ \A d \in Decisions : Judged(d)' = Judged(d)
      BY <1>1, <1>9, SilentSteps DEF LimitCounted, Silent
    <2>2. /\ {Status("rate_limited")} \in SUBSET Series
          /\ {Executions, Latency} \cap {Status("rate_limited")} = {}
          /\ \A d \in Decisions : Decided(d) \notin {Status("rate_limited")}
      BY SeriesNames
    <2>3. /\ Total(Executions)' = Total(Executions) /\ Total(Latency)' = Total(Latency)
          /\ \A d \in Decisions : Total(Decided(d))' = Total(Decided(d))
      BY <1>2, <1>3, <1>9, <2>2 DEF Handlers
    <2> QED
      BY <1>4, <2>1, <2>3
  <1>10. CASE Silent /\ UNCHANGED count
    BY <1>1, <1>4, <1>10, SilentSteps DEF Total, Ticks
  <1>11. /\ {Status("denied"), Latency} \in SUBSET Series
         /\ {Status("approval_required"), Pending, Latency} \in SUBSET Series
         /\ Executions \notin {Status("denied"), Latency}
         /\ Executions \notin {Status("approval_required"), Pending, Latency}
         /\ \A d \in Decisions :
               /\ Decided(d) \notin {Status("denied"), Latency}
               /\ Decided(d) \notin {Status("approval_required"), Pending, Latency}
    BY SeriesNames
  <1> QED
    BY <1>1, <1>5, <1>6, <1>7, <1>8, <1>9, <1>10, <1>11, Counted

\* Nothing is counted at the start.
LEMMA CounterInit == MeteredInit => CounterInv
  <1> SUFFICES ASSUME MeteredInit PROVE CounterInv
    OBVIOUS
  <1>1. \A s \in Series : Ticks(s) = {}
    BY DEF MeteredInit, Zero, Ticks
  <1>2. \A s \in Series : IsFiniteSet(Ticks(s)) /\ Total(s) = 0
    BY <1>1, FS_EmptySet DEF Total
  <1>3. /\ auditLogs = {} /\ executions = {}
        /\ invoke = [r \in Requests |-> "idle"]
        /\ resolve = [h \in Resolvers |-> "idle"]
        /\ verdict = [r \in Requests |-> "none"]
        /\ decision = [r \in Requests |-> "none"]
    BY DEF MeteredInit, Init
  <1>4. RowsInv /\ HomeInv /\ FiniteInv
    BY <1>2, <1>3, FS_EmptySet DEF RowsInv, HomeInv, FiniteInv, InvokeSteps,
                                   ResolveSteps, ApproveSteps, DenySteps
  <1>5. \A a : Audited(a) = 0
    <2>1. \A a : {b \in auditLogs : b.action = a /\ b.outcome = "success"} = {}
      BY <1>3
    <2> QED
      BY <2>1, FS_EmptySet DEF Audited
  <1>6. CountersBacked
    BY <1>2, <1>5, SeriesNames DEF CountersBacked
  <1>7. OrderlyInv
    BY <1>3 DEF OrderlyInv
  <1>8. ExactInv
    <2>1. Reported = {} /\ Timed = {} /\ \A d \in Decisions : Judged(d) = {}
      BY <1>3 DEF Reported, Timed, Judged, Decisions
    <2> QED
      BY <1>2, <2>1, SeriesNames, FS_EmptySet DEF ExactInv
  <1> QED
    BY <1>4, <1>6, <1>7, <1>8 DEF CounterInv

\* CounterInv is inductive on top of what the tables and the counters keep by
\* themselves.
LEMMA CounterStep ==
    TablesOK /\ CounterInv /\ [MeteredNext]_meteredVars => CounterInv'
  <1> SUFFICES ASSUME TablesOK, CounterInv, [MeteredNext]_meteredVars
               PROVE  CounterInv'
    OBVIOUS
  <1>1. TypeOK /\ RowsInv /\ HomeInv /\ FiniteInv /\ CountersBacked
    BY DEF TablesOK, Inv, AuthorityInv, CounterInv
  <1>2. HomeInv' /\ FiniteInv' /\ CountersBacked'
    BY <1>1, HomeStep, FiniteStep, BackedStep DEF TablesOK
  <1>3. RowsInv'
    <2>1. ASSUME NEW p \in Replicas, Crash(p) PROVE RowsInv'
      BY <1>1, <2>1 DEF Crash, ledger, RowsInv, TypeOK, AuditRows, InvokeReplies,
                        ResolveReplies
    <2> QED
      BY <1>1, <2>1, RowsStep, MeteredSteps
  <1>4. ASSUME ~broken' PROVE OrderlyInv' /\ ExactInv'
    <2>1. (Serve /\ UNCHANGED broken) \/ UNCHANGED meteredVars
      BY <1>4 DEF MeteredNext, RejectStatement, Crash
    <2>2. ~broken /\ OrderlyInv /\ ExactInv
      BY <1>4, <2>1 DEF CounterInv, meteredVars, metricsVars
    <2>3. CASE Serve
      BY <1>1, <2>2, <2>3, OrderlyStep, ExactStep DEF TablesOK
    <2>4. CASE UNCHANGED meteredVars
      BY <2>2, <2>4 DEF meteredVars, metricsVars, vars, invokeVars, resolveVars,
                        OrderlyInv, ExactInv, Reported, Judged, Timed, Total, Ticks
    <2> QED
      BY <2>1, <2>3, <2>4
  <1> QED
    BY <1>2, <1>3, <1>4 DEF CounterInv

\* When all handlers have answered, what they counted is what happened.
LEMMA CompleteInv == Inv /\ CounterInv => CountersComplete
  <1> SUFFICES ASSUME Inv, CounterInv, ~broken, AtRest
               PROVE  /\ Total(Executions) = Cardinality(executions)
                      /\ \A d \in Decisions : Total(Decided(d)) =
                            Cardinality({r \in Requests : decision[r] = d})
                      /\ Total(Latency) = Cardinality({r \in Requests :
                            decision[r] # "none" /\ status[r] # "error"})
    BY DEF CountersComplete
  <1>1. OrderlyInv /\ ExactInv
    BY DEF CounterInv
  <1>2. \A r \in Requests : invoke[r] \in {"idle"} \cup InvokeReplies
    BY DEF AtRest, Inv, AuthorityInv, TypeOK
  <1>3. Reported = executions
    <2>1. ASSUME NEW e \in executions, e.handler \in Requests
          PROVE  invoke[e.handler] = "allowed200"
      <3>1. /\ invoke[e.handler] \in InvokeRan \cup {"failed500"}
            /\ e.handler = e.request
        BY <2>1, HandlersAssumption DEF Inv, AuthorityInv, RanInv,
                                        ExecutedOnlyIfAuthorised
      <3>2. invoke[e.handler] # "failed500"
        BY <1>1, <2>1, <3>1 DEF OrderlyInv, Inv, StatusInv, Executed
      <3> QED
        BY <2>1, <3>1, <3>2 DEF AtRest, InvokeRan, InvokeSteps
    <2>2. ASSUME NEW e \in executions, e.handler \in Resolvers
          PROVE  resolve[e.handler] = "granted200"
      BY <1>1, <2>2 DEF OrderlyInv, Inv, AuthorityInv, RanInv, ResolveRan, AtRest,
                        ResolveSteps, ApproveSteps
    <2>3. \A e \in executions : e.handler \in Requests \cup Resolvers
      BY DEF Inv, AuthorityInv, TypeOK, Events, Handlers
    <2> QED
      BY <2>1, <2>2, <2>3 DEF Reported
  <1>4. \A r \in Requests : verdict[r] = decision[r]
    BY <1>1, <1>2 DEF OrderlyInv, InvokeReplies
  <1>5. \A d \in Decisions : Judged(d) = {r \in Requests : decision[r] = d}
    BY <1>4 DEF Judged
  <1>6. ASSUME NEW r \in Requests
        PROVE  invoke[r] \in {"denied403", "held202", "allowed200"}
                  <=> decision[r] # "none" /\ status[r] # "error"
    <2>1. CASE invoke[r] \in {"denied403", "held202", "allowed200"}
      BY <2>1 DEF Inv, AuthorityInv, DecisionInv, StatusInv, DenyPath, HoldPath,
                  AllowPath, InvokeRan
    <2>2. CASE invoke[r] \in {"idle", "invalid400", "unauthorized401",
                              "limited429", "missing404", "failed500"}
      BY <1>1, <2>2 DEF OrderlyInv, Inv, AuthorityInv, DecisionInv, BeforeRecord
    <2> QED
      BY <1>2, <2>1, <2>2 DEF InvokeReplies
  <1>7. Timed = {r \in Requests : decision[r] # "none" /\ status[r] # "error"}
    BY <1>6 DEF Timed
  <1> QED
    BY <1>1, <1>3, <1>5, <1>7 DEF ExactInv

\* The counters keep their invariant, whatever fails or dies.
THEOREM CounterInvariance == MeteredSpec => []CounterInv
  <1>1. MeteredTypeOK => CountersOK
    BY DEF MeteredTypeOK, CountersOK
  <1> QED
    BY <1>1, CounterInit, CounterStep, ReplicasInvariance, MeteredTypeCorrect, PTL
       DEF MeteredSpec, TablesOK

\* The counters never show an execution, a denial or a hold that is not in the
\* audit log, whichever replicas die and whatever statements are rejected
\* (README.md:281).
THEOREM Backed == MeteredSpec => []CountersBacked
  BY CounterInvariance, PTL DEF CounterInv

\* Until something fails they miss nothing: once all handlers have answered,
\* every execution, decision and timed answer has been counted exactly once,
\* over however many replicas the calls were spread.
THEOREM Complete == MeteredSpec => []CountersComplete
  BY CounterInvariance, ReplicasInvariance, CompleteInv, PTL

-----------------------------------------------------------------------------
(* The tables under crashes.                                               *)

\* What Records and Replies say, and the exception they make for a deny that lost
\* to an approve, holds of handlers that died, too.
THEOREM ReplicasRecords == MeteredSpec => [](RecordsTruthful /\ RepliesTruthful)
  BY ReplicasInvariance, InvRecords, InvReplies, PTL

\* A replica that dies moves no approval.
THEOREM ReplicasApprovals == MeteredSpec => ApprovalProtocol
  <1>1. Inv /\ [MeteredNext]_meteredVars => [ApprovalMoves]_vars
    <2>1. ASSUME NEW p \in Replicas, Crash(p) PROVE ApprovalMoves
      BY <2>1 DEF Crash, ApprovalMoves
    <2> QED
      BY <2>1, MeteredSteps, InvApprovals DEF Inv
  <1> QED
    BY <1>1, ReplicasInvariance, PTL DEF MeteredSpec, ApprovalProtocol

\* On any number of replicas, dying wherever they like, the gateway keeps its
\* promise: to the promise a crash is a step that changes nothing.
THEOREM ReplicasImplementation == MeteredSpec => Implements
  <1>1. MeteredInit => Governance!Init
    BY DEF MeteredInit, Init, Governance!Init, CallOf, RanBy, Executed
  <1>2. Inv /\ [MeteredNext]_meteredVars
          => [Governance!Next]_<<[r \in Requests |-> CallOf(r)],
                                 [r \in Requests |-> RanBy(r)]>>
    <2>1. ASSUME NEW p \in Replicas, Crash(p)
          PROVE  UNCHANGED <<[r \in Requests |-> CallOf(r)],
                             [r \in Requests |-> RanBy(r)]>>
      BY <2>1 DEF Crash, CallOf, RanBy, Executed
    <2> QED
      BY <2>1, MeteredSteps, StepImplements DEF Inv
  <1> QED
    BY <1>1, <1>2, ReplicasInvariance, PTL DEF MeteredSpec, Implements, Governance!Spec

\* An approval is stranded only where a failure took its handler, and then on
\* whichever replica that was.
THEOREM ReplicasStranded == MeteredSpec => []NoneStranded
  <1>1. Inv /\ HolderInv /\ SettledInv /\ [MeteredNext]_meteredVars
          => HolderInv' /\ SettledInv'
    <2> SUFFICES ASSUME Inv, HolderInv, SettledInv, [MeteredNext]_meteredVars
                 PROVE  HolderInv' /\ SettledInv'
      OBVIOUS
    <2>1. ASSUME NEW p \in Replicas, Crash(p) PROVE HolderInv' /\ SettledInv'
      BY <2>1 DEF Crash, HolderInv, Holder, SettledInv, ResolveSteps, ApproveSteps,
                  Inv, AuthorityInv, TypeOK
    <2> QED
      BY <2>1, MeteredSteps, HolderStep, SettledStep DEF Inv, AuthorityInv
  <1>2. MeteredInit => HolderInv /\ SettledInv
    BY HolderInit DEF MeteredInit
  <1> QED
    BY <1>1, <1>2, InvStranded, ReplicasInvariance, PTL DEF MeteredSpec
===============================================================================

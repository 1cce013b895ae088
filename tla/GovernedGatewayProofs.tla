------------------------ MODULE GovernedGatewayProofs ------------------------
(***************************************************************************)
(* Proofs about GovernedGateway, for any policies and any calls.  Its      *)
(* handlers are those of Gateway, so what is proved there carries over;    *)
(* and a decision once fresh stays fresh, because the table only grows and *)
(* its rows never change.                                                  *)
(***************************************************************************)
EXTENDS GovernedGateway, GatewayImplementsProofs

\* A governed invoke or resolver handler takes the steps of one of Gateway.
LEMMA GovernedSteps ==
    ASSUME [GovernedNext]_governedVars
    PROVE  [Next]_vars
  <1>1. CASE UNCHANGED vars
    BY <1>1
  <1>2. ASSUME NEW r \in Requests, NEW t \in Tenants, Receive(r, t) PROVE Next
    BY <1>2 DEF Next
  <1>3. ASSUME NEW r \in Requests, NEW d \in Decisions, EvaluatePolicy(r, d)
        PROVE  Next
    BY <1>3 DEF Next, InvokeProgress
  <1>4. ASSUME NEW r \in Requests, OtherProgress(r) PROVE Next
    BY <1>4 DEF OtherProgress, Next, InvokeProgress
  <1>5. ASSUME NEW h \in Resolvers, ResolveGoverned(h) PROVE Next
    BY <1>5 DEF ResolveGoverned, Next
  <1>6. ASSUME NEW p \in Policies,
               \/ \E t \in Tenants, b \in Bodies : ReceivePolicy(p, t, b)
               \/ RefusePolicy(p) \/ InsertPolicy(p) \/ RereadPolicy(p)
               \/ FailPolicy(p)
        PROVE  UNCHANGED vars
    BY <1>6 DEF ReceivePolicy, RefusePolicy, InsertPolicy, RereadPolicy, FailPolicy
  <1>7. CASE UNCHANGED governedVars
    BY <1>7 DEF governedVars
  <1> QED
    BY <1>1, <1>2, <1>3, <1>4, <1>5, <1>6, <1>7
       DEF GovernedNext, ReceiveGoverned, EvaluateGoverned

\* Every behaviour with policies is one of the handlers, whose evaluator may
\* decide anything; so what is proved of Gateway holds of it.
THEOREM GovernedIsGateway == GovernedSpec => Spec
  <1>1. GovernedInit => Init
    BY DEF GovernedInit
  <1> QED
    BY <1>1, GovernedSteps, PTL DEF GovernedSpec, Spec

\* Whatever policies are added, the executions, decisions, approvals and records
\* stay in agreement, whatever fails.
THEOREM GovernedInvariance == GovernedSpec => []Inv
  BY GovernedIsGateway, Invariance, PTL

\* The gateway keeps its promise whatever policies are added.
THEOREM GovernedImplementation == GovernedSpec => Implements
  BY GovernedIsGateway, Implementation, PTL

-----------------------------------------------------------------------------
\* A row of the table is that of a handler that is past its insert, and what was
\* answered 201 is in the table.
TableInv ==
    /\ \A p \in Policies : create[p] \in {"reread", "created201"} => p \in policies
    /\ \A p \in policies : create[p] \notin {"idle", "insert"}
                         /\ body[p] \in Bodies
    /\ \A p \in Policies : create[p] = "insert" => body[p] \in Bodies
    /\ \A x \in Handlers : inForce[x] \subseteq policies

GovernedTypes == GovernedTypeOK /\ TableInv

\* At first the table is empty and no call knows of a policy.
LEMMA GovernedTypesInit == GovernedInit => GovernedTypes
  <1> SUFFICES ASSUME GovernedInit PROVE GovernedTypes
    OBVIOUS
  <1>1. TypeOK
    BY AuthorityInit DEF GovernedInit, AuthorityInv
  <1> QED
    BY <1>1 DEF GovernedInit, GovernedTypes, GovernedTypeOK, TableInv, CreateSteps,
                CreateReplies

\* What is known of the table is kept by every step, of the policy handlers and
\* of the others.
LEMMA GovernedTypesStep ==
    ASSUME GovernedTypes, TypeOK', [GovernedNext]_governedVars
    PROVE  GovernedTypes'
  <1> USE DEF GovernedTypes, GovernedTypeOK, TableInv, CreateSteps, CreateReplies,
              CreateStep, Handlers
  <1>1. ASSUME NEW p \in Policies, NEW t \in Tenants, NEW b \in Bodies,
               ReceivePolicy(p, t, b)
        PROVE  GovernedTypes'
    BY <1>1 DEF ReceivePolicy
  <1>2. ASSUME NEW p \in Policies, RefusePolicy(p) PROVE GovernedTypes'
    BY <1>2 DEF RefusePolicy
  <1>3. ASSUME NEW p \in Policies, InsertPolicy(p) PROVE GovernedTypes'
    BY <1>3 DEF InsertPolicy
  <1>4. ASSUME NEW p \in Policies, RereadPolicy(p) PROVE GovernedTypes'
    BY <1>4 DEF RereadPolicy
  <1>5. ASSUME NEW p \in Policies, FailPolicy(p) PROVE GovernedTypes'
    BY <1>5 DEF FailPolicy
  <1>6. ASSUME NEW x \in Handlers, Arriving(x), UNCHANGED policyVars
        PROVE  GovernedTypes'
    BY <1>6 DEF Arriving, policyVars
  <1>7. CASE UNCHANGED <<policyVars, inForce>>
    BY <1>7 DEF policyVars
  <1>8. CASE UNCHANGED governedVars
    BY <1>8 DEF governedVars, policyVars
  <1> HIDE DEF GovernedTypes, GovernedTypeOK, TableInv, CreateSteps, CreateReplies,
               CreateStep
  <1> QED
    BY <1>1, <1>2, <1>3, <1>4, <1>5, <1>6, <1>7, <1>8
       DEF GovernedNext, ReceiveGoverned, EvaluateGoverned, OtherProgress,
           ResolveGoverned

\* The table only grows, and its rows stay as they are.
LEMMA TableGrows ==
    ASSUME GovernedTypes, [GovernedNext]_governedVars
    PROVE  /\ policies \subseteq policies'
           /\ \A p \in policies : body'[p] = body[p] /\ owner'[p] = owner[p]
  <1> USE DEF GovernedTypes, GovernedTypeOK, TableInv, CreateStep
  <1>1. ASSUME NEW p \in Policies, NEW t \in Tenants, NEW b \in Bodies,
               ReceivePolicy(p, t, b)
        PROVE  /\ policies' = policies
               /\ \A q \in policies : body'[q] = body[q] /\ owner'[q] = owner[q]
    BY <1>1 DEF ReceivePolicy
  <1>2. ASSUME NEW p \in Policies,
               RefusePolicy(p) \/ InsertPolicy(p) \/ RereadPolicy(p) \/ FailPolicy(p)
        PROVE  policies \subseteq policies' /\ body' = body /\ owner' = owner
    BY <1>2 DEF RefusePolicy, InsertPolicy, RereadPolicy, FailPolicy
  <1>3. CASE UNCHANGED policyVars
    BY <1>3 DEF policyVars
  <1> HIDE DEF GovernedTypes, GovernedTypeOK, TableInv, CreateStep
  <1> QED
    BY <1>1, <1>2, <1>3
       DEF GovernedNext, ReceiveGoverned, EvaluateGoverned, OtherProgress,
           ResolveGoverned, governedVars

\* A call that has arrived keeps its tenant and what was in force.
LEMMA CallStays ==
    ASSUME GovernedTypes, [GovernedNext]_governedVars,
           NEW r \in Requests, invoke[r] # "idle"
    PROVE  tenant'[r] = tenant[r] /\ inForce'[r] = inForce[r]
  <1>1. tenant'[r] = tenant[r]
    <2>1. ASSUME NEW s \in Requests, NEW t \in Tenants, Receive(s, t)
          PROVE  tenant'[r] = tenant[r]
      BY <2>1 DEF Receive, InvokeStep, GovernedTypes, GovernedTypeOK, TypeOK
    <2>2. ASSUME NEW s \in Requests,
                 Refuse(s) \/ InvokeProgress(s) \/ FailInvoke(s)
          PROVE  UNCHANGED tenant
      BY <2>2 DEF Refuse, InvokeProgress, FailInvoke, CheckRateLimit, ResolveAgent,
            InsertRequest, EvaluatePolicy, RecordDecision, Deny, AuditDeny,
            InsertApproval, Hold, AuditHold, Execute, MarkError, AuditError, Allow,
            CostAllow, AuditAllow
    <2>3. ASSUME NEW h \in Resolvers, NEW s \in Requests, NEW t \in Tenants,
                 ReadForApprove(h, s, t) \/ ReadForDeny(h, s, t)
          PROVE  UNCHANGED tenant
      BY <2>3 DEF ReadForApprove, ReadForDeny, Lookup, invokeVars
    <2>4. ASSUME NEW h \in Resolvers,
                 RefuseResolver(h) \/ ResolveProgress(h) \/ FailResolve(h)
          PROVE  UNCHANGED tenant
      BY <2>4 DEF RefuseResolver, ResolveProgress, FailResolve, ReadRequest, Claim,
            RunDeferred, Rollback, Settle, CostSettle, AuditSettle, Flip, Reject,
            AuditReject, invokeVars
    <2>5. CASE UNCHANGED vars
      BY <2>5 DEF vars, invokeVars
    <2> QED
      BY <2>1, <2>2, <2>3, <2>4, <2>5, GovernedSteps DEF Next
  <1>2. inForce'[r] = inForce[r]
    <2>1. ASSUME NEW x \in Handlers, Arriving(x), x # r
          PROVE  inForce'[r] = inForce[r]
      BY <2>1 DEF Arriving, GovernedTypes, GovernedTypeOK, Handlers
    <2>2. ASSUME NEW s \in Requests, NEW t \in Tenants, ReceiveGoverned(s, t)
          PROVE  s # r /\ s \in Handlers /\ Arriving(s)
      BY <2>2 DEF ReceiveGoverned, Receive, InvokeStep, Handlers
    <2>3. ASSUME NEW h \in Resolvers, ResolveGoverned(h)
          PROVE  (h # r /\ h \in Handlers /\ Arriving(h)) \/ UNCHANGED inForce
      BY <2>3, HandlersAssumption DEF ResolveGoverned, Handlers
    <2>4. ASSUME NEW p \in Policies,
                 \/ \E t \in Tenants, b \in Bodies : ReceivePolicy(p, t, b)
                 \/ RefusePolicy(p) \/ InsertPolicy(p) \/ RereadPolicy(p)
                 \/ FailPolicy(p)
          PROVE  UNCHANGED inForce
      BY <2>4 DEF ReceivePolicy, RefusePolicy, InsertPolicy, RereadPolicy, FailPolicy
    <2>5. ASSUME NEW s \in Requests, EvaluateGoverned(s) \/ OtherProgress(s)
          PROVE  UNCHANGED inForce
      BY <2>5 DEF EvaluateGoverned, OtherProgress
    <2>6. CASE UNCHANGED governedVars
      BY <2>6 DEF governedVars
    <2> QED
      BY <2>1, <2>2, <2>3, <2>4, <2>5, <2>6 DEF GovernedNext
  <1> QED
    BY <1>1, <1>2

-----------------------------------------------------------------------------
\* Decision d of call r is that of a table between what was in force when it
\* arrived and what there is.
Fresh(r, d) ==
    \E S \in SUBSET Eligible(r) : Known(r) \subseteq S /\ MayDecide(S, d)

FreshInv ==
    \A r \in Requests :
        /\ invoke[r] = "idle" => verdict[r] = "none"
        /\ verdict[r] # "none" => Fresh(r, verdict[r])
        /\ decision[r] # "none" => Fresh(r, decision[r])

GovernedInv == GovernedTypes /\ Inv /\ FreshInv

\* What was fresh stays fresh: the rows the evaluator chose from are still there
\* unchanged, and no row that is added was in force.
LEMMA FreshStays ==
    ASSUME GovernedTypes, [GovernedNext]_governedVars,
           NEW r \in Requests, invoke[r] # "idle", NEW d, Fresh(r, d)
    PROVE  Fresh(r, d)'
  <1>1. PICK S \in SUBSET Eligible(r) : Known(r) \subseteq S /\ MayDecide(S, d)
    BY DEF Fresh
  <1>2. S \subseteq policies
    BY <1>1 DEF Eligible
  <1>3. /\ policies \subseteq policies'
        /\ \A p \in policies : body'[p] = body[p] /\ owner'[p] = owner[p]
    BY TableGrows
  <1>4. tenant'[r] = tenant[r] /\ inForce'[r] = inForce[r]
    BY CallStays
  <1>5. S \in SUBSET Eligible(r)'
    BY <1>1, <1>2, <1>3, <1>4 DEF Eligible
  <1>6. Known(r)' \subseteq S
    <2>1. inForce[r] \subseteq policies
      BY DEF GovernedTypes, TableInv, Handlers
    <2> QED
      BY <1>1, <1>3, <1>4, <2>1 DEF Known, Eligible
  <1>7. MayDecide(S, d)'
    BY <1>1, <1>2, <1>3 DEF MayDecide, Decides
  <1> QED
    BY <1>5, <1>6, <1>7 DEF Fresh

\* The evaluator's verdict is fresh: it was given on the whole table.
LEMMA VerdictFresh ==
    ASSUME GovernedTypes, NEW r \in Requests, NEW d \in Decisions,
           MayDecide(Eligible(r), d), EvaluatePolicy(r, d),
           UNCHANGED <<policyVars, inForce>>
    PROVE  Fresh(r, d)'
  <1>1. UNCHANGED <<tenant, policies, body, owner, inForce>>
    BY DEF EvaluatePolicy, policyVars
  <1>2. Eligible(r)' = Eligible(r) /\ Known(r)' = Known(r)
    BY <1>1 DEF Eligible, Known
  <1>3. MayDecide(Eligible(r), d)'
    BY <1>1, <1>2 DEF MayDecide, Decides
  <1>4. Known(r)' \subseteq Eligible(r)'
    BY <1>2 DEF Known
  <1> QED
    BY <1>2, <1>3, <1>4 DEF Fresh

\* Who writes verdicts and decisions.
LEMMA VerdictWriters ==
    ASSUME GovernedTypes, [GovernedNext]_governedVars, NEW r \in Requests,
           verdict'[r] # verdict[r]
    PROVE  \E d \in Decisions :
              /\ MayDecide(Eligible(r), d) /\ EvaluatePolicy(r, d)
              /\ verdict'[r] = d
              /\ UNCHANGED <<policyVars, inForce>>
  <1>1. ASSUME NEW s \in Requests, EvaluateGoverned(s)
        PROVE  \E d \in Decisions :
                  /\ MayDecide(Eligible(r), d) /\ EvaluatePolicy(r, d)
                  /\ verdict'[r] = d
                  /\ UNCHANGED <<policyVars, inForce>>
    <2>1. PICK d \in Decisions :
              MayDecide(Eligible(s), d) /\ EvaluatePolicy(s, d)
      BY <1>1 DEF EvaluateGoverned
    <2>2. s = r /\ verdict'[r] = d
      BY <2>1 DEF EvaluatePolicy, GovernedTypes, GovernedTypeOK, TypeOK
    <2> QED
      BY <1>1, <2>1, <2>2 DEF EvaluateGoverned
  <1>2. ASSUME NEW s \in Requests, NEW t \in Tenants, ReceiveGoverned(s, t)
        PROVE  UNCHANGED verdict
    BY <1>2 DEF ReceiveGoverned, Receive
  <1>3. ASSUME NEW s \in Requests, OtherProgress(s) PROVE UNCHANGED verdict
    BY <1>3 DEF OtherProgress, Refuse, FailInvoke, CheckRateLimit, ResolveAgent,
            InsertRequest, RecordDecision, Deny, AuditDeny,
            InsertApproval, Hold, AuditHold, Execute, MarkError, AuditError, Allow,
            CostAllow, AuditAllow
  <1>4. ASSUME NEW h \in Resolvers, ResolveGoverned(h) PROVE UNCHANGED verdict
    BY <1>4 DEF ResolveGoverned, RefuseResolver, ResolveProgress, FailResolve,
            ReadRequest, Claim, RunDeferred, Rollback, Settle, CostSettle,
            AuditSettle, Flip, Reject, AuditReject, ReadForApprove, ReadForDeny,
            Lookup, invokeVars
  <1>5. ASSUME NEW p \in Policies,
               \/ \E t \in Tenants, b \in Bodies : ReceivePolicy(p, t, b)
               \/ RefusePolicy(p) \/ InsertPolicy(p) \/ RereadPolicy(p)
               \/ FailPolicy(p)
        PROVE  UNCHANGED verdict
    BY <1>5 DEF ReceivePolicy, RefusePolicy, InsertPolicy, RereadPolicy, FailPolicy,
            vars, invokeVars
  <1>6. CASE UNCHANGED governedVars
    BY <1>6 DEF governedVars, vars, invokeVars
  <1> QED
    BY <1>1, <1>2, <1>3, <1>4, <1>5, <1>6 DEF GovernedNext

\* No call is decided at first.
LEMMA FreshInit == GovernedInit => FreshInv
  BY DEF GovernedInit, Init, FreshInv

\* The table only grows, so a decision that was fresh stays so; and the step
\* that decides looks at all of the table.
LEMMA FreshStep ==
    ASSUME GovernedInv, [GovernedNext]_governedVars
    PROVE  FreshInv'
  <1> SUFFICES ASSUME NEW r \in Requests
               PROVE  /\ invoke'[r] = "idle" => verdict'[r] = "none"
                      /\ verdict'[r] # "none" => Fresh(r, verdict[r])'
                      /\ decision'[r] # "none" => Fresh(r, decision[r])'
    BY DEF FreshInv
  <1>1. GovernedTypes /\ TypeOK /\ DecisionInv /\ [Next]_vars
    BY GovernedSteps DEF GovernedInv, GovernedTypes, GovernedTypeOK, Inv, AuthorityInv
  <1>2. invoke'[r] = "idle" => invoke[r] = "idle"
    BY <1>1, Arrived
  <1>3. /\ invoke[r] = "idle" => verdict[r] = "none" /\ decision[r] = "none"
        /\ verdict[r] # "none" => Fresh(r, verdict[r])
        /\ decision[r] # "none" => Fresh(r, decision[r])
    BY <1>1 DEF GovernedInv, FreshInv, DecisionInv, BeforeRecord
  <1>4. CASE verdict'[r] # verdict[r]
    <2>1. PICK d \in Decisions :
              /\ MayDecide(Eligible(r), d) /\ EvaluatePolicy(r, d)
              /\ verdict'[r] = d
              /\ UNCHANGED <<policyVars, inForce>>
      BY <1>1, <1>4, VerdictWriters
    <2>2. Fresh(r, d)'
      BY <1>1, <2>1, VerdictFresh
    <2>3. invoke'[r] = "record" /\ decision'[r] = "none"
      BY <1>1, <2>1 DEF EvaluatePolicy, InvokeStep, TypeOK, DecisionInv, BeforeRecord
    <2> QED
      BY <2>1, <2>2, <2>3
  <1>5. CASE verdict'[r] = verdict[r]
    <2>1. ASSUME NEW d, invoke[r] # "idle", Fresh(r, d) PROVE Fresh(r, d)'
      BY <1>1, <2>1, FreshStays
    <2>2. verdict'[r] # "none" => Fresh(r, verdict[r])'
      <3>1. ASSUME NEW d, d = verdict[r], d # "none" PROVE Fresh(r, d)'
        BY <1>3, <2>1, <3>1
      <3> QED
        BY <1>5, <3>1
    <2>3. decision'[r] # "none" => Fresh(r, decision[r])'
      <3>1. ASSUME NEW d, d = decision'[r], d # "none" PROVE Fresh(r, d)'
        <4>1. CASE decision'[r] = decision[r]
          BY <1>3, <2>1, <3>1, <4>1
        <4>2. CASE decision'[r] # decision[r]
          <5>1. invoke[r] = "record" /\ d = verdict[r]
            BY <1>1, <3>1, <4>2, DecisionWriters
          <5> QED
            BY <1>3, <2>1, <3>1, <5>1
        <4> QED
          BY <4>1, <4>2
      <3> QED
        BY <3>1
    <2> QED
      BY <1>2, <1>3, <1>5, <2>2, <2>3
  <1> QED
    BY <1>4, <1>5

\* What every reachable state of the handlers, the policies and the decisions
\* satisfies.
THEOREM FreshInvariance == GovernedSpec => []GovernedInv
  <1>1. GovernedInit => GovernedInv
    BY GovernedTypesInit, FreshInit, AuthorityInit, RecordsInit, DenialInit
       DEF GovernedInv, GovernedInit, Inv, RecordsInv
  <1>2. GovernedInv /\ [GovernedNext]_governedVars => GovernedInv'
    <2> SUFFICES ASSUME GovernedInv, [GovernedNext]_governedVars PROVE GovernedInv'
      OBVIOUS
    <2>1. Inv'
      BY GovernedSteps, AuthorityStep, RecordsStep, DenialStep DEF GovernedInv, Inv, RecordsInv
    <2>2. GovernedTypes'
      BY <2>1, GovernedTypesStep DEF GovernedInv, Inv, AuthorityInv
    <2> QED
      BY <2>1, <2>2, FreshStep DEF GovernedInv
  <1> QED
    BY <1>1, <1>2, PTL DEF GovernedSpec

-----------------------------------------------------------------------------
\* Calls, policies and the table keep their types.
THEOREM GovernedTypeCorrect == GovernedSpec => []GovernedTypeOK
  BY FreshInvariance, PTL DEF GovernedInv, GovernedTypes

\* A decision is one the evaluator gives on a table between the one its caller
\* knew of and the one there is (gateway.ts:127-130).
THEOREM DecisionsAreFresh == GovernedSpec => []DecisionFresh
  <1>1. GovernedInv => DecisionFresh
    BY DEF GovernedInv, FreshInv, Fresh, DecisionFresh
  <1> QED
    BY <1>1, FreshInvariance, PTL

\* The top of a set that a block is in is the block.
LEMMA BlockDecides ==
    ASSUME NEW r \in Requests, NEW p \in Policies, Blocks(p, r), owner[p] = tenant[r],
           body \in [Policies -> Bodies \cup {None}], policies \subseteq Policies,
           p \in inForce[r], NEW d, Fresh(r, d),
           \A q \in policies : body[q] \in Bodies
    PROVE  d = "deny"
  <1>1. PICK S \in SUBSET Eligible(r) : Known(r) \subseteq S /\ MayDecide(S, d)
    BY DEF Fresh
  <1>2. p \in S
    BY <1>1 DEF Known, Eligible, Blocks
  <1>3. PICK q \in S : /\ body[q].decision = d
                       /\ body[p].priority <= body[q].priority
    BY <1>1, <1>2 DEF MayDecide, Decides
  <1>4. q \in policies /\ owner[q] = owner[p] /\ r \in body[q].applies
    BY <1>1, <1>3 DEF Eligible
  <1>5. body[p].priority \in Int /\ body[q].priority \in Int
    BY <1>4, BodiesAssumption DEF Blocks
  <1>6. q = p
    BY <1>3, <1>4, <1>5 DEF Blocks
  <1> QED
    BY <1>3, <1>6 DEF Blocks

\* A block stops every call that arrives once it was acknowledged
\* (security-model.md:67).
THEOREM BlocksStopCalls == GovernedSpec => []BlockStopsCalls
  <1>1. ASSUME GovernedInv, NEW r \in Requests, NEW p \in Policies,
               p \in inForce[r], Blocks(p, r), owner[p] = tenant[r]
        PROVE  ~Executed(r) /\ approval[r] = "none"
    <2>1. /\ body \in [Policies -> Bodies \cup {None}]
          /\ policies \subseteq Policies
          /\ \A q \in policies : body[q] \in Bodies
      BY <1>1 DEF GovernedInv, GovernedTypes, GovernedTypeOK, TableInv
    <2>2. decision[r] \in {"none", "deny"}
      BY <1>1, <2>1, BlockDecides DEF GovernedInv, FreshInv
    <2> QED
      BY <1>1, <2>2 DEF GovernedInv, Inv, AuthorityInv, DecisionInv, Executed,
                        ExecutedOnlyIfAuthorised
  <1>2. GovernedInv => BlockStopsCalls
    BY <1>1 DEF BlockStopsCalls
  <1> QED
    BY <1>2, FreshInvariance, PTL

\* Policies that are added strand no approval.
THEOREM GovernedStranded == GovernedSpec => []NoneStranded
  BY GovernedIsGateway, Stranded
===============================================================================

-------------------------- MODULE RequestDetailProofs --------------------------
(***************************************************************************)
(* Proofs about RequestDetail, for any pages and calls and any failures.   *)
(* The handlers take steps of Gateway, so Inv holds of the tables; to it   *)
(* come HeldInv, which says what the held statuses rest on, and DraftInv,  *)
(* which says what the statements of a load have seen so far.              *)
(***************************************************************************)
EXTENDS RequestDetail, GatewayImplementsProofs

\* A page that is open has a request and a key, and one that waits for a click
\* knows the resolver that serves it.
OpenPage(p) ==
    /\ step[p] # "closed" => id[p] \in Requests /\ key[p] \in Tenants
    /\ step[p] = "posted" => /\ post[p] \in Resolvers
                             /\ resolve[post[p]] # "idle"
                             /\ target[post[p]] = id[p]

OpenInv == \A p \in Pages : OpenPage(p)

\* Whatever the pages do, the handlers take the steps of Gateway.
LEMMA DetailSteps ==
    ASSUME OpenInv, [DetailNext]_detailVars
    PROVE  [Next]_vars
  <1>1. ASSUME HandlersNext PROVE Next
    BY <1>1 DEF HandlersNext
  <1>2. ASSUME NEW p \in Pages, NEW h \in Resolvers, Click(p, h) PROVE Next
    <2>1. id[p] \in Requests /\ key[p] \in Tenants
      BY <1>2 DEF OpenInv, OpenPage, Click, PageStep
    <2> QED
      BY <1>2, <2>1 DEF Click, Next
  <1>3. ASSUME NEW p \in Pages,
               \/ \E r \in Requests, t \in Tenants : Open(p, r, t)
               \/ Close(p) \/ LoadProgress(p) \/ LoseLoad(p)
               \/ Answered(p) \/ LosePost(p)
        PROVE  UNCHANGED vars
    BY <1>3 DEF Open, Close, LoadProgress, ReadRequestRow, ReadDecisionRow,
            ReadApprovalRow, ReadCostRow, ReadLogs, LoseLoad, Answered, LosePost
  <1>4. CASE UNCHANGED detailVars
    BY <1>4 DEF detailVars
  <1> QED
    BY <1>1, <1>2, <1>3, <1>4 DEF DetailNext, PageNext

-----------------------------------------------------------------------------
(* What pages rely on of the tables.                                       *)

Held == {"approval_required", "approved", "rejected"}

Recorded(r, action) == \E a \in auditLogs : a.request = r /\ a.action = action

\* A request reads held or resolved only when it has an approval; it does so from
\* the statement on that precedes the answer 202; and an approve that was
\* answered 200 is on record.
HeldInv ==
    /\ \A r \in Requests :
          /\ status[r] \in Held =>
                decision[r] = "approval_required" /\ approval[r] # "none"
          /\ invoke[r] \in {"holdAudit", "held202"} => status[r] \in Held
    /\ \A h \in Resolvers : resolve[h] = "granted200" =>
          Recorded(target[h], "approval.granted")

\* At first nothing is held.
LEMMA HeldInit == Init => HeldInv
  BY DEF Init, HeldInv, Held

\* Every statement of the handlers keeps what pages rely on.
LEMMA HeldStep ==
    ASSUME Inv, HeldInv, [Next]_vars
    PROVE  HeldInv'
  <1> USE DEF HeldInv, Held, Recorded, Inv, AuthorityInv, TypeOK, DecisionInv, TargetInv,
             BeforeRecord, DenyPath, HoldPath, AllowPath, InvokeRan, Found,
             ResolveSteps, ApproveSteps, DenySteps, InvokeSteps,
             InvokeStep, ResolveStep, SetStatus, AddCost, WriteAudit,
             invokeVars, resolveVars, ledger
  <1>1. ASSUME NEW r \in Requests,
               \/ \E t \in Tenants : Receive(r, t)
               \/ Refuse(r) \/ FailInvoke(r) \/ CheckRateLimit(r)
               \/ ResolveAgent(r) \/ InsertRequest(r)
               \/ \E d \in Decisions : EvaluatePolicy(r, d)
        PROVE  HeldInv'
    BY <1>1 DEF Receive, Refuse, FailInvoke, CheckRateLimit, ResolveAgent,
            InsertRequest, EvaluatePolicy
  <1>2. ASSUME NEW r \in Requests, RecordDecision(r) PROVE HeldInv'
    BY <1>2 DEF RecordDecision, Branch
  <1>3. ASSUME NEW r \in Requests,
               \/ Deny(r) \/ AuditDeny(r)
               \/ InsertApproval(r) \/ Hold(r) \/ AuditHold(r)
        PROVE  HeldInv'
    BY <1>3 DEF Deny, AuditDeny, InsertApproval, Hold, AuditHold
  <1>4. ASSUME NEW r \in Requests,
               \/ Execute(r) \/ MarkError(r) \/ AuditError(r)
               \/ Allow(r) \/ CostAllow(r) \/ AuditAllow(r)
        PROVE  HeldInv'
    BY <1>4 DEF Execute, MarkError, AuditError, Allow, CostAllow, AuditAllow
  <1>5. ASSUME NEW h \in Resolvers, NEW r \in Requests, NEW t \in Tenants,
               ReadForApprove(h, r, t) \/ ReadForDeny(h, r, t)
        PROVE  HeldInv'
    BY <1>5 DEF ReadForApprove, ReadForDeny, Lookup
  <1>6. ASSUME NEW h \in Resolvers,
               \/ RefuseResolver(h) \/ FailResolve(h) \/ ReadRequest(h)
               \/ Claim(h) \/ RunDeferred(h) \/ Rollback(h) \/ Flip(h)
        PROVE  HeldInv'
    BY <1>6 DEF RefuseResolver, FailResolve, ReadRequest, Claim, RunDeferred,
            Rollback, Flip, FlipPending
  <1>7. ASSUME NEW h \in Resolvers, Settle(h) \/ Reject(h) PROVE HeldInv'
    <2>1. /\ target[h] \in Requests /\ approval[target[h]] # "none"
          /\ decision[target[h]] = "approval_required"
      BY <1>7 DEF Settle, Reject
    <2> QED
      BY <1>7, <2>1 DEF Settle, Reject
  <1>9. ASSUME NEW h \in Resolvers, CostSettle(h) PROVE HeldInv'
    BY <1>9 DEF CostSettle
  <1>10. ASSUME NEW h \in Resolvers, AuditSettle(h) PROVE HeldInv'
    <2>1. [request |-> target[h], handler |-> h, action |-> "approval.granted",
           outcome |-> "success"] \in auditLogs'
      BY <1>10 DEF AuditSettle
    <2>2. Recorded(target[h], "approval.granted")'
      BY <1>10, <2>1 DEF AuditSettle
    <2>3. ASSUME NEW g \in Resolvers, g # h, resolve'[g] = "granted200"
          PROVE  Recorded(target[g], "approval.granted")'
      <3>1. resolve[g] = "granted200" /\ target' = target
        BY <1>10, <2>3 DEF AuditSettle
      <3>2. auditLogs \subseteq auditLogs'
        BY <1>10 DEF AuditSettle
      <3> QED
        BY <3>1, <3>2
    <2>4. UNCHANGED <<status, invoke, decision, approval>>
      BY <1>10 DEF AuditSettle
    <2> HIDE DEF Recorded
    <2> QED
      BY <2>2, <2>3, <2>4
  <1>11. ASSUME NEW h \in Resolvers, AuditReject(h) PROVE HeldInv'
    BY <1>11 DEF AuditReject
  <1>8. CASE UNCHANGED vars
    BY <1>8 DEF vars
  <1> HIDE DEF HeldInv, Held, Recorded, Inv, AuthorityInv, TypeOK, DecisionInv, TargetInv,
             BeforeRecord, DenyPath, HoldPath, AllowPath, InvokeRan, Found,
             ResolveSteps, ApproveSteps, DenySteps, InvokeSteps,
             InvokeStep, ResolveStep, SetStatus, AddCost, WriteAudit,
             invokeVars, resolveVars, ledger
  <1> QED
    BY <1>1, <1>2, <1>3, <1>4, <1>5, <1>6, <1>7, <1>8, <1>9, <1>10, <1>11
       DEF Next, InvokeProgress, ResolveProgress

\* Executions, costs and audit rows are never taken back.
LEMMA LedgerGrows ==
    ASSUME [Next]_vars
    PROVE  /\ executions \subseteq executions'
           /\ costEvents \subseteq costEvents'
           /\ auditLogs \subseteq auditLogs'
  <1> USE DEF AddCost, WriteAudit, ToolReturns, ToolThrows, ledger
  <1>1. ASSUME NEW r \in Requests,
               \/ \E t \in Tenants : Receive(r, t)
               \/ Refuse(r) \/ InvokeProgress(r) \/ FailInvoke(r)
        PROVE  /\ executions \subseteq executions'
               /\ costEvents \subseteq costEvents' /\ auditLogs \subseteq auditLogs'
    BY <1>1 DEF Receive, Refuse, FailInvoke, InvokeProgress, CheckRateLimit,
            ResolveAgent, InsertRequest, EvaluatePolicy, RecordDecision, Deny,
            AuditDeny, InsertApproval, Hold, AuditHold, Execute, MarkError,
            AuditError, Allow, CostAllow, AuditAllow
  <1>2. ASSUME NEW h \in Resolvers,
               \/ \E r \in Requests, t \in Tenants :
                     ReadForApprove(h, r, t) \/ ReadForDeny(h, r, t)
               \/ RefuseResolver(h) \/ ResolveProgress(h) \/ FailResolve(h)
        PROVE  /\ executions \subseteq executions'
               /\ costEvents \subseteq costEvents' /\ auditLogs \subseteq auditLogs'
    BY <1>2 DEF RefuseResolver, ResolveProgress, FailResolve, ReadRequest, Claim,
            RunDeferred, Rollback, Settle, CostSettle, AuditSettle, Flip, Reject,
            AuditReject, ReadForApprove, ReadForDeny, Lookup
  <1>3. CASE UNCHANGED vars
    BY <1>3 DEF vars
  <1> QED
    BY <1>1, <1>2, <1>3 DEF Next

\* What the tables say of a decided request is not taken back, but for the
\* approval of one that has not run.
LEMMA TablesStay ==
    ASSUME Inv, [Next]_vars, NEW r \in Requests
    PROVE  /\ decision[r] # "none" => decision'[r] = decision[r]
           /\ approval[r] # "none" => approval'[r] # "none"
           /\ approval[r] = "approved" /\ Executed(r) => approval'[r] = "approved"
           /\ Executed(r) => Executed(r)'
  <1>1. decision[r] # "none" => decision'[r] = decision[r]
    BY DecisionWriters DEF Inv, AuthorityInv, DecisionInv, BeforeRecord
  <1>2. ApprovalMoves \/ UNCHANGED vars
    BY InvApprovals DEF Inv
  <1>3. executions \subseteq executions'
    BY LedgerGrows
  <1> QED
    BY <1>1, <1>2, <1>3 DEF ApprovalMoves, Executed, vars

\* A resolver that was called keeps its request.
LEMMA TargetStays ==
    ASSUME TypeOK, [Next]_vars, NEW h \in Resolvers, resolve[h] # "idle"
    PROVE  resolve'[h] # "idle" /\ target'[h] = target[h]
  <1> USE DEF TypeOK, ResolveStep
  <1>1. ASSUME NEW r \in Requests,
               \/ \E t \in Tenants : Receive(r, t)
               \/ Refuse(r) \/ InvokeProgress(r) \/ FailInvoke(r)
        PROVE  UNCHANGED <<resolve, target>>
    BY <1>1 DEF Receive, Refuse, FailInvoke, InvokeProgress, CheckRateLimit,
            ResolveAgent, InsertRequest, EvaluatePolicy, RecordDecision, Deny,
            AuditDeny, InsertApproval, Hold, AuditHold, Execute, MarkError,
            AuditError, Allow, CostAllow, AuditAllow, resolveVars
  <1>2. ASSUME NEW g \in Resolvers,
               \/ \E r \in Requests, t \in Tenants :
                     ReadForApprove(g, r, t) \/ ReadForDeny(g, r, t)
               \/ RefuseResolver(g)
        PROVE  resolve'[h] # "idle" /\ target'[h] = target[h]
    BY <1>2 DEF RefuseResolver, ReadForApprove, ReadForDeny, Lookup
  <1>3. ASSUME NEW g \in Resolvers, ResolveProgress(g) \/ FailResolve(g)
        PROVE  resolve'[h] # "idle" /\ target'[h] = target[h]
    BY <1>3 DEF ResolveProgress, FailResolve, ReadRequest, Claim,
            RunDeferred, Rollback, Settle, CostSettle, AuditSettle, Flip, Reject,
            AuditReject
  <1>4. CASE UNCHANGED vars
    BY <1>4 DEF vars, resolveVars
  <1> HIDE DEF TypeOK, ResolveStep
  <1> QED
    BY <1>1, <1>2, <1>3, <1>4 DEF Next
-----------------------------------------------------------------------------
(* What a page has read.                                                   *)

\* What status s of request r rests on, in the tables and in a detail.
Rests(r, s) ==
    /\ s = "denied" => decision[r] = "deny"
    /\ s \in {"allowed", "error"} => decision[r] = "allow"
    /\ s \in Held => decision[r] = "approval_required" /\ approval[r] # "none"
    /\ s = "approved" => approval[r] = "approved" /\ Executed(r)

RestsOnDecision(d) ==
    /\ d.status = "denied" => d.decision = "deny"
    /\ d.status \in {"allowed", "error"} => d.decision = "allow"
    /\ d.status \in Held => d.decision = "approval_required"

RestsOnApproval(d) ==
    /\ d.status \in Held => d.approval # "none"
    /\ d.status = "approved" => d.approval = "approved"

\* The tables keep up with what was read; what was read keeps up with itself.
DraftPage(p) ==
    /\ step[p] \in LoadSteps \ {"request"} => Rests(id[p], draft[p].status)
    /\ step[p] \in {"approval", "cost", "logs"} => RestsOnDecision(draft[p])
    /\ step[p] \in {"cost", "logs"} => RestsOnApproval(draft[p])
    /\ Causal(data[p])

\* The tables have all of a granted approval.
GrantedRow(r) ==
    /\ approval[r] = "approved" /\ Executed(r)
    /\ \E e \in costEvents : e.request = r
    /\ Recorded(r, "approval.granted")

GrantedPage(p) ==
    granted[p] =>
        /\ step[p] \notin {"closed", "posted"}
        /\ GrantedRow(id[p])
        /\ step[p] \in {"cost", "logs"} => draft[p].approval = "approved"
        /\ step[p] = "logs" => draft[p].cost
        /\ step[p] = "shown" => /\ data[p].approval = "approved" /\ data[p].cost
                                /\ "approval.granted" \in data[p].logs

PageInv(p) == OpenPage(p) /\ DraftPage(p) /\ GrantedPage(p)

DetailInv ==
    /\ Inv /\ HeldInv /\ PagesTypeOK
    /\ \A p \in Pages : PageInv(p)

\* Every status rests on the other rows when it is read, and goes on to.
LEMMA StatusRests ==
    ASSUME Inv, HeldInv, NEW r \in Requests
    PROVE  Rests(r, status[r])
  BY DEF Inv, HeldInv, StatusInv, Rests

\* What a status rests on is never taken back.
LEMMA RestsStays ==
    ASSUME Inv, [Next]_vars, NEW r \in Requests, NEW s, Rests(r, s)
    PROVE  Rests(r, s)'
  BY TablesStay DEF Rests, Held

\* The rows of a granted approval stay.
LEMMA GrantedStays ==
    ASSUME Inv, [Next]_vars, NEW r \in Requests, GrantedRow(r)
    PROVE  GrantedRow(r)'
  BY TablesStay, LedgerGrows DEF GrantedRow, Recorded

\* An approve that was answered 200 left all of its rows.
LEMMA AnswerGranted ==
    ASSUME Inv, HeldInv, NEW h \in Resolvers, resolve[h] = "granted200"
    PROVE  GrantedRow(target[h])
  <1>1. approval[target[h]] = "approved" /\ Event(target[h], h) \in costEvents
    BY InvReplies DEF RepliesTruthful
  <1>2. Event(target[h], h) \in executions
    BY <1>1 DEF Inv, CostInv
  <1>3. Event(target[h], h).request = target[h]
    BY DEF Event
  <1> QED
    BY <1>1, <1>2, <1>3 DEF GrantedRow, Executed, HeldInv

-----------------------------------------------------------------------------
\* A page keeps its invariant while others, and the handlers, act.
Still(p) ==
    /\ step'[p] = step[p] /\ id'[p] = id[p] /\ key'[p] = key[p]
    /\ draft'[p] = draft[p] /\ data'[p] = data[p]
    /\ post'[p] = post[p] /\ granted'[p] = granted[p]

\* A page that does nothing keeps its invariant while handlers go on.
LEMMA StillPage ==
    ASSUME Inv, [Next]_vars, NEW p \in Pages, PageInv(p), Still(p)
    PROVE  PageInv(p)'
  <1>1. OpenPage(p)'
    <2>1. step[p] = "posted" =>
             /\ resolve'[post[p]] # "idle"
             /\ target'[post[p]] = target[post[p]]
      BY TargetStays DEF PageInv, OpenPage, Inv, AuthorityInv
    <2> QED
      BY <2>1 DEF PageInv, OpenPage, Still
  <1>2. DraftPage(p)'
    <2>1. step[p] \in LoadSteps \ {"request"} => Rests(id[p], draft[p].status)'
      <3>1. ASSUME NEW r \in Requests, NEW s, r = id[p], s = draft[p].status,
                   step[p] \in LoadSteps \ {"request"}
            PROVE  Rests(id[p], draft[p].status)'
        <4>1. Rests(r, s)'
          BY <3>1, RestsStays DEF PageInv, DraftPage
        <4> QED
          BY <3>1, <4>1 DEF Still
      <3> QED
        BY <3>1 DEF PageInv, OpenPage, LoadSteps
    <2> QED
      BY <2>1 DEF PageInv, DraftPage, Still, RestsOnDecision, RestsOnApproval, Causal
  <1>3. GrantedPage(p)'
    <2>1. granted[p] => GrantedRow(id[p])'
      <3>1. ASSUME NEW r \in Requests, r = id[p], granted[p]
            PROVE  GrantedRow(id[p])'
        <4>1. GrantedRow(r)'
          BY <3>1, GrantedStays DEF PageInv, GrantedPage
        <4> QED
          BY <3>1, <4>1 DEF Still
      <3> QED
        BY <3>1 DEF PageInv, OpenPage, GrantedPage
    <2> QED
      BY <2>1 DEF PageInv, GrantedPage, Still
  <1> QED
    BY <1>1, <1>2, <1>3 DEF PageInv

\* A page's step leaves the other pages alone.
LEMMA OthersStill ==
    ASSUME PagesTypeOK, NEW p \in Pages, PageNext(p), NEW q \in Pages, q # p
    PROVE  Still(q)
  <1> USE DEF Still, PagesTypeOK, PageStep
  <1>1. ASSUME NEW r \in Requests, NEW t \in Tenants, Open(p, r, t) PROVE Still(q)
    BY <1>1 DEF Open
  <1>2. CASE Close(p)
    BY <1>2 DEF Close
  <1>3. CASE ReadRequestRow(p)
    BY <1>3 DEF ReadRequestRow
  <1>4. CASE ReadDecisionRow(p)
    BY <1>4 DEF ReadDecisionRow
  <1>5. CASE ReadApprovalRow(p)
    BY <1>5 DEF ReadApprovalRow
  <1>6. CASE ReadCostRow(p)
    BY <1>6 DEF ReadCostRow
  <1>7. CASE ReadLogs(p)
    BY <1>7 DEF ReadLogs
  <1>8. CASE LoseLoad(p)
    BY <1>8 DEF LoseLoad
  <1>9. ASSUME NEW h \in Resolvers, Click(p, h) PROVE Still(q)
    BY <1>9 DEF Click
  <1>10. CASE Answered(p)
    BY <1>10 DEF Answered
  <1>11. CASE LosePost(p)
    BY <1>11 DEF LosePost
  <1> HIDE DEF Still, PagesTypeOK, PageStep
  <1> QED
    BY <1>1, <1>2, <1>3, <1>4, <1>5, <1>6, <1>7, <1>8, <1>9, <1>10, <1>11
       DEF PageNext, LoadProgress

\* The page that acts keeps its invariant: a read finds the tables in agreement
\* with what was read before, and only an answer 200 makes it granted.
LEMMA ActingPage ==
    ASSUME DetailInv, NEW p \in Pages, PageNext(p)
    PROVE  PageInv(p)'
  <1> USE DEF PageStep, LoadSteps
  <1>1. PagesTypeOK /\ PageInv(p)
    BY DEF DetailInv
  <1>2. ASSUME NEW r \in Requests, NEW t \in Tenants, Open(p, r, t)
        PROVE  PageInv(p)'
    <2>1. /\ step[p] = "closed" /\ step'[p] = "request"
          /\ id'[p] = r /\ key'[p] = t /\ data' = data /\ granted' = granted
      BY <1>1, <1>2 DEF Open, PagesTypeOK
    <2> QED
      BY <1>1, <2>1 DEF PageInv, OpenPage, DraftPage, GrantedPage, Causal
  <1>3. CASE Close(p)
    <2>1. step'[p] = "closed" /\ data'[p] = Blank /\ granted'[p] = FALSE
      BY <1>1, <1>3 DEF Close, PagesTypeOK
    <2> QED
      BY <2>1 DEF PageInv, OpenPage, DraftPage, GrantedPage, Causal, Blank
  <1>4. CASE ReadRequestRow(p)
    <2>1. /\ step[p] = "request" /\ step'[p] \in {"decision", "error"}
          /\ step'[p] = "decision" => draft'[p].status = status[id[p]]
          /\ UNCHANGED <<vars, id, key, data, post, granted>>
      BY <1>1, <1>4 DEF ReadRequestRow, PagesTypeOK, Details
    <2>2. id[p] \in Requests
      BY <1>1, <2>1 DEF PageInv, OpenPage
    <2>3. Rests(id[p], status[id[p]])
      BY <2>2, StatusRests DEF DetailInv
    <2>4. step'[p] = "decision" => Rests(id[p], draft[p].status)'
      BY <2>1, <2>3 DEF Rests, Executed, vars
    <2>5. granted[p] => GrantedRow(id[p])'
      BY <1>1, <2>1 DEF PageInv, GrantedPage, GrantedRow, Recorded, Executed, vars, ledger
    <2> QED
      BY <1>1, <2>1, <2>4, <2>5
         DEF PageInv, OpenPage, DraftPage, GrantedPage, Causal
  <1>5. CASE ReadDecisionRow(p)
    <2>1. /\ step[p] = "decision" /\ step'[p] = "approval"
          /\ draft'[p].decision = decision[id[p]]
          /\ draft'[p].status = draft[p].status
          /\ UNCHANGED <<vars, id, key, data, post, granted>>
      BY <1>1, <1>5 DEF ReadDecisionRow, PagesTypeOK, Details
    <2>2. Rests(id[p], draft[p].status) /\ Rests(id[p], draft[p].status)'
      BY <1>1, <2>1 DEF PageInv, DraftPage, Rests, Executed, vars
    <2>3. RestsOnDecision(draft[p])'
      BY <2>1, <2>2 DEF Rests, RestsOnDecision, Held
    <2>4. granted[p] => GrantedRow(id[p])'
      BY <1>1, <2>1 DEF PageInv, GrantedPage, GrantedRow, Recorded, Executed, vars, ledger
    <2> QED
      BY <1>1, <2>1, <2>2, <2>3, <2>4
         DEF PageInv, OpenPage, DraftPage, GrantedPage, Causal
  <1>6. CASE ReadApprovalRow(p)
    <2>1. /\ step[p] = "approval" /\ step'[p] = "cost"
          /\ draft'[p].approval = approval[id[p]]
          /\ draft'[p].status = draft[p].status
          /\ draft'[p].decision = draft[p].decision
          /\ UNCHANGED <<vars, id, key, data, post, granted>>
      BY <1>1, <1>6 DEF ReadApprovalRow, PagesTypeOK, Details
    <2>2. Rests(id[p], draft[p].status) /\ Rests(id[p], draft[p].status)'
      BY <1>1, <2>1 DEF PageInv, DraftPage, Rests, Executed, vars
    <2>3. RestsOnDecision(draft[p])' /\ RestsOnApproval(draft[p])'
      BY <1>1, <2>1, <2>2
         DEF PageInv, DraftPage, Rests, RestsOnDecision, RestsOnApproval
    <2>4. granted[p] => GrantedRow(id[p])' /\ draft'[p].approval = "approved"
      BY <1>1, <2>1 DEF PageInv, GrantedPage, GrantedRow, Recorded, Executed, vars, ledger
    <2> QED
      BY <1>1, <2>1, <2>2, <2>3, <2>4
         DEF PageInv, OpenPage, DraftPage, GrantedPage, Causal
  <1>7. CASE ReadCostRow(p)
    <2>1. /\ step[p] = "cost" /\ step'[p] = "logs"
          /\ draft'[p].cost = (\E e \in costEvents : e.request = id[p])
          /\ draft'[p].status = draft[p].status
          /\ draft'[p].decision = draft[p].decision
          /\ draft'[p].approval = draft[p].approval
          /\ UNCHANGED <<vars, id, key, data, post, granted>>
      BY <1>1, <1>7 DEF ReadCostRow, PagesTypeOK, Details
    <2>2. Rests(id[p], draft[p].status)'
      BY <1>1, <2>1 DEF PageInv, DraftPage, Rests, Executed, vars
    <2>3. RestsOnDecision(draft[p])' /\ RestsOnApproval(draft[p])'
      BY <1>1, <2>1 DEF PageInv, DraftPage, RestsOnDecision, RestsOnApproval
    <2>4. granted[p] => /\ GrantedRow(id[p])' /\ draft'[p].approval = "approved"
                        /\ draft'[p].cost
      BY <1>1, <2>1 DEF PageInv, GrantedPage, GrantedRow, Recorded, Executed, vars, ledger
    <2> QED
      BY <1>1, <2>1, <2>2, <2>3, <2>4
         DEF PageInv, OpenPage, DraftPage, GrantedPage, Causal
  <1>8. CASE ReadLogs(p)
    <2>1. /\ step[p] = "logs" /\ step'[p] = "shown"
          /\ data'[p].status = draft[p].status
          /\ data'[p].decision = draft[p].decision
          /\ data'[p].approval = draft[p].approval
          /\ data'[p].cost = draft[p].cost
          /\ data'[p].logs = {a.action : a \in {b \in auditLogs :
                                                   b.request = id[p]}}
          /\ UNCHANGED <<vars, id, key, post, granted>>
      BY <1>1, <1>8 DEF ReadLogs, PagesTypeOK, Details
    <2>2. Causal(data[p])'
      BY <1>1, <2>1 DEF PageInv, DraftPage, RestsOnDecision, RestsOnApproval,
                        Causal, Held
    <2>3. granted[p] => /\ GrantedRow(id[p])' /\ data'[p].approval = "approved"
                        /\ data'[p].cost
      BY <1>1, <2>1 DEF PageInv, GrantedPage, GrantedRow, Recorded, Executed, vars, ledger
    <2>4. granted[p] => "approval.granted" \in data'[p].logs
      BY <1>1, <2>1 DEF PageInv, GrantedPage, GrantedRow, Recorded
    <2> QED
      BY <1>1, <2>1, <2>2, <2>3, <2>4 DEF PageInv, OpenPage, DraftPage, GrantedPage
  <1>9. CASE LoseLoad(p)
    <2>1. /\ step[p] \in LoadSteps /\ step'[p] = "error"
          /\ UNCHANGED <<vars, id, key, data, post, granted>>
      BY <1>1, <1>9 DEF LoseLoad, PagesTypeOK
    <2>2. granted[p] => GrantedRow(id[p])'
      BY <1>1, <2>1 DEF PageInv, GrantedPage, GrantedRow, Recorded, Executed, vars, ledger
    <2> QED
      BY <1>1, <2>1, <2>2 DEF PageInv, OpenPage, DraftPage, GrantedPage, Causal
  <1>10. ASSUME NEW h \in Resolvers, Click(p, h) PROVE PageInv(p)'
    <2>1. /\ step[p] = "shown" /\ step'[p] = "posted" /\ post'[p] = h
          /\ Offers(data[p])
          /\ UNCHANGED <<id, key, draft, data, granted>>
      BY <1>1, <1>10 DEF Click, PagesTypeOK
    <2>2. id[p] \in Requests /\ ~granted[p]
      BY <1>1, <2>1 DEF PageInv, OpenPage, GrantedPage, Offers
    <2>3. resolve'[h] # "idle" /\ target'[h] = id[p]
      BY <1>1, <1>10, <2>2
         DEF Click, ReadForApprove, ReadForDeny, Lookup, PagesTypeOK, TypeOK
    <2> QED
      BY <1>1, <2>1, <2>2, <2>3 DEF PageInv, OpenPage, DraftPage, GrantedPage, Causal
  <1>11. CASE Answered(p)
    <2>1. /\ step[p] = "posted" /\ step'[p] \in {"request", "shown"}
          /\ step'[p] = "shown" => resolve[post[p]] # "granted200"
          /\ granted'[p] <=> granted[p] \/ resolve[post[p]] = "granted200"
          /\ UNCHANGED <<vars, id, key, draft, data>>
      BY <1>1, <1>11 DEF Answered, PagesTypeOK
    <2>2. post[p] \in Resolvers /\ target[post[p]] = id[p] /\ ~granted[p]
      BY <1>1, <2>1 DEF PageInv, OpenPage, GrantedPage
    <2>3. granted'[p] => GrantedRow(id[p])
      BY <2>1, <2>2, AnswerGranted DEF DetailInv
    <2>4. granted'[p] => GrantedRow(id[p])'
      BY <2>1, <2>3 DEF GrantedRow, Recorded, Executed, vars, ledger
    <2> QED
      BY <1>1, <2>1, <2>2, <2>4 DEF PageInv, OpenPage, DraftPage, GrantedPage, Causal
  <1>12. CASE LosePost(p)
    <2>1. /\ step[p] = "posted" /\ step'[p] = "shown"
          /\ UNCHANGED <<vars, id, key, draft, data, granted>>
      BY <1>1, <1>12 DEF LosePost, PagesTypeOK
    <2> QED
      BY <1>1, <2>1 DEF PageInv, OpenPage, DraftPage, GrantedPage, Causal
  <1> QED
    BY <1>2, <1>3, <1>4, <1>5, <1>6, <1>7, <1>8, <1>9, <1>10, <1>11, <1>12
       DEF PageNext, LoadProgress
-----------------------------------------------------------------------------
\* What a read puts into a detail leaves it one.
LEMMA ReadDetails ==
    ASSUME NEW d \in Details
    PROVE  /\ \A v \in Statuses : [d EXCEPT !.status = v] \in Details
           /\ \A v \in Decisions \cup {"none"} : [d EXCEPT !.decision = v] \in Details
           /\ \A v \in ApprovalStatuses : [d EXCEPT !.approval = v] \in Details
           /\ \A v \in BOOLEAN : [d EXCEPT !.cost = v] \in Details
           /\ \A v \in SUBSET AuditActions : [d EXCEPT !.logs = v] \in Details
  BY DEF Details

\* Every step keeps the types of the pages.
LEMMA PagesTypesStep ==
    ASSUME PagesTypeOK, OpenInv, TypeOK', [DetailNext]_detailVars
    PROVE  PagesTypeOK'
  <1> USE DEF PagesTypeOK, PageStep, PageSteps, LoadSteps
  <1>1. ASSUME NEW p \in Pages, NEW r \in Requests, NEW t \in Tenants, Open(p, r, t)
        PROVE  PagesTypeOK'
    BY <1>1 DEF Open
  <1>2. ASSUME NEW p \in Pages, Close(p) PROVE PagesTypeOK'
    <2>1. Blank \in Details
      BY DEF Blank, Details, Statuses, ApprovalStatuses
    <2> QED
      BY <1>2, <2>1 DEF Close
  <1>3. ASSUME NEW p \in Pages, ReadRequestRow(p) PROVE PagesTypeOK'
    <2>1. id[p] \in Requests
      BY <1>3 DEF ReadRequestRow, OpenInv, OpenPage
    <2>2. status[id[p]] \in Statuses
      BY <2>1 DEF TypeOK
    <2>3. [draft[p] EXCEPT !.status = status[id[p]]] \in Details
      BY <2>2, ReadDetails
    <2>4. draft' = draft \/ draft' = [draft EXCEPT ![p] =
                                         [draft[p] EXCEPT !.status = status[id[p]]]]
      BY <1>3 DEF ReadRequestRow
    <2> QED
      BY <1>3, <2>3, <2>4 DEF ReadRequestRow
  <1>4. ASSUME NEW p \in Pages, ReadDecisionRow(p) PROVE PagesTypeOK'
    <2>1. decision[id[p]] \in Decisions \cup {"none"}
      BY <1>4 DEF ReadDecisionRow, OpenInv, OpenPage, TypeOK
    <2>2. [draft[p] EXCEPT !.decision = decision[id[p]]] \in Details
      BY <2>1, ReadDetails
    <2>3. draft' = [draft EXCEPT ![p] =
                       [draft[p] EXCEPT !.decision = decision[id[p]]]]
      BY <1>4 DEF ReadDecisionRow
    <2> QED
      BY <1>4, <2>2, <2>3 DEF ReadDecisionRow
  <1>5. ASSUME NEW p \in Pages, ReadApprovalRow(p) PROVE PagesTypeOK'
    <2>1. approval[id[p]] \in ApprovalStatuses
      BY <1>5 DEF ReadApprovalRow, OpenInv, OpenPage, TypeOK
    <2>2. [draft[p] EXCEPT !.approval = approval[id[p]]] \in Details
      BY <2>1, ReadDetails
    <2>3. draft' = [draft EXCEPT ![p] =
                       [draft[p] EXCEPT !.approval = approval[id[p]]]]
      BY <1>5 DEF ReadApprovalRow
    <2> QED
      BY <1>5, <2>2, <2>3 DEF ReadApprovalRow
  <1>6. ASSUME NEW p \in Pages, ReadCostRow(p) PROVE PagesTypeOK'
    <2> DEFINE read == \E e \in costEvents : e.request = id[p]
    <2>1. [draft[p] EXCEPT !.cost = read] \in Details
      BY ReadDetails
    <2>2. draft' = [draft EXCEPT ![p] = [draft[p] EXCEPT !.cost = read]]
      BY <1>6 DEF ReadCostRow
    <2> HIDE DEF read
    <2> QED
      BY <1>6, <2>1, <2>2 DEF ReadCostRow
  <1>7. ASSUME NEW p \in Pages, ReadLogs(p) PROVE PagesTypeOK'
    <2> DEFINE read == {a.action : a \in {b \in auditLogs : b.request = id[p]}}
    <2>1. read \in SUBSET AuditActions
      BY DEF TypeOK, AuditRows
    <2>2. [draft[p] EXCEPT !.logs = read] \in Details
      BY <2>1, ReadDetails
    <2>3. Blank \in Details
      BY DEF Blank, Details, Statuses, ApprovalStatuses
    <2> QED
      BY <1>7, <2>2, <2>3 DEF ReadLogs
  <1>8. ASSUME NEW p \in Pages, LoseLoad(p) PROVE PagesTypeOK'
    <2>1. Blank \in Details
      BY DEF Blank, Details, Statuses, ApprovalStatuses
    <2> QED
      BY <1>8, <2>1 DEF LoseLoad
  <1>9. ASSUME NEW p \in Pages, NEW h \in Resolvers, Click(p, h) PROVE PagesTypeOK'
    BY <1>9 DEF Click
  <1>10. ASSUME NEW p \in Pages, Answered(p) PROVE PagesTypeOK'
    BY <1>10 DEF Answered
  <1>11. ASSUME NEW p \in Pages, LosePost(p) PROVE PagesTypeOK'
    BY <1>11 DEF LosePost
  <1>12. CASE UNCHANGED pageVars
    BY <1>12 DEF pageVars
  <1>13. CASE UNCHANGED detailVars
    BY <1>13 DEF detailVars, pageVars
  <1> HIDE DEF PagesTypeOK, PageStep, PageSteps, LoadSteps
  <1> QED
    BY <1>1, <1>2, <1>3, <1>4, <1>5, <1>6, <1>7, <1>8, <1>9, <1>10, <1>11,
       <1>12, <1>13
       DEF DetailNext, HandlersNext, PageNext, LoadProgress

\* What every reachable state of pages and handlers satisfies.
THEOREM DetailInvariance == DetailSpec => []DetailInv
  <1>1. DetailInit => DetailInv
    <2> SUFFICES ASSUME DetailInit PROVE DetailInv
      OBVIOUS
    <2>1. Inv /\ HeldInv /\ TypeOK
      BY AuthorityInit, RecordsInit, DenialInit, HeldInit
         DEF DetailInit, Inv, RecordsInv, AuthorityInv
    <2>2. PagesTypeOK
      BY <2>1 DEF DetailInit, PagesTypeOK, PageSteps, Blank, Details, Statuses,
                  ApprovalStatuses
    <2>3. \A p \in Pages : PageInv(p)
      BY DEF DetailInit, PageInv, OpenPage, DraftPage, GrantedPage, Causal, Blank,
             LoadSteps
    <2> QED
      BY <2>1, <2>2, <2>3 DEF DetailInv
  <1>2. DetailInv /\ [DetailNext]_detailVars => DetailInv'
    <2> SUFFICES ASSUME DetailInv, [DetailNext]_detailVars PROVE DetailInv'
      OBVIOUS
    <2>1. OpenInv /\ [Next]_vars
      BY DetailSteps DEF DetailInv, OpenInv, PageInv
    <2>2. Inv' /\ HeldInv'
      BY <2>1, AuthorityStep, RecordsStep, DenialStep, HeldStep DEF DetailInv, Inv, RecordsInv
    <2>3. PagesTypeOK'
      BY <2>1, <2>2, PagesTypesStep DEF DetailInv, Inv, AuthorityInv
    <2>4. ASSUME NEW q \in Pages PROVE PageInv(q)'
      <3>1. CASE UNCHANGED pageVars
        <4>1. Still(q)
          BY <3>1 DEF Still, pageVars
        <4> QED
          BY <2>1, <4>1, StillPage DEF DetailInv
      <3>2. ASSUME NEW p \in Pages, PageNext(p), q # p PROVE PageInv(q)'
        <4>1. Still(q)
          BY <3>2, OthersStill DEF DetailInv
        <4> QED
          BY <2>1, <4>1, StillPage DEF DetailInv
      <3>3. ASSUME PageNext(q) PROVE PageInv(q)'
        BY <3>3, ActingPage
      <3> QED
        BY <3>1, <3>2, <3>3 DEF DetailNext, HandlersNext, detailVars
    <2> QED
      BY <2>2, <2>3, <2>4 DEF DetailInv
  <1> QED
    BY <1>1, <1>2, PTL DEF DetailSpec

\* The handlers behave as in Gateway, whatever pages do with them; so what is
\* proved of Gateway holds with them.
THEOREM DetailIsGateway == DetailSpec => Spec
  <1>1. DetailInit => Init
    BY DEF DetailInit
  <1>2. DetailInv /\ [DetailNext]_detailVars => [Next]_vars
    BY DetailSteps DEF DetailInv, OpenInv, PageInv
  <1> QED
    BY <1>1, <1>2, DetailInvariance, PTL DEF DetailSpec, Spec

\* Pages keep their types.
THEOREM PagesTypeCorrect == DetailSpec => []PagesTypeOK
  BY DetailInvariance, PTL DEF DetailInv

\* No page shows a status without the rows it rests on, however the five reads
\* interleave with the handlers (requests.ts:52-86).
THEOREM DetailsAreCausal == DetailSpec => []DetailCausal
  <1>1. DetailInv => DetailCausal
    BY DEF DetailInv, PageInv, DraftPage, DetailCausal
  <1> QED
    BY <1>1, DetailInvariance, PTL

\* A page that was told its approve succeeded shows so once it is loaded
\* (RequestDetail.tsx:51-52).
THEOREM GrantsAreShown == DetailSpec => []GrantedIsShown
  <1>1. DetailInv => GrantedIsShown
    BY DEF DetailInv, PageInv, GrantedPage, GrantedIsShown
  <1> QED
    BY <1>1, DetailInvariance, PTL

\* A held call whose approval is pending can be resolved from a page
\* (RequestDetail.tsx:93).
THEOREM HeldAreOffered == DetailSpec => []HeldStaysOffered
  <1>1. DetailInv => HeldStaysOffered
    BY DEF DetailInv, HeldInv, Held, Inv, StatusInv, HeldStaysOffered, Offers
  <1> QED
    BY <1>1, DetailInvariance, PTL

\* The pages are clients like any other: with them the handlers implement the
\* abstract promise.
THEOREM DetailImplementation == DetailSpec => Implements
  BY DetailIsGateway, Implementation

\* Clicks, answers that are lost and pages that are closed strand no approval.
THEOREM DetailStranded == DetailSpec => []NoneStranded
  BY DetailIsGateway, Stranded
===============================================================================

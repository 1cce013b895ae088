----------------------------- MODULE RequestDetail -----------------------------
(***************************************************************************)
(* The detail pages operators have open (components/RequestDetail.tsx)     *)
(* together with the handlers of Gateway: a page reads one request with    *)
(* GET /v1/requests/:id (routes/requests.ts), five statements without a    *)
(* transaction, shows what it read until it reads again, and its buttons   *)
(* call the approve and deny handlers, as others do without a page.        *)
(***************************************************************************)
EXTENDS Gateway

CONSTANTS
    Pages,    \* pages open in some browser
    MayLose   \* whether the network or a read may fail

ASSUME PagesAssumption == MayLose \in BOOLEAN

VARIABLES
    step,     \* per page, the statement its load awaits next, or what it does
    id, key,  \* the request of the URL, the tenant of the API key
    draft,    \* what the load has read so far
    data,     \* the detail shown
    post,     \* the resolver serving the click the page waits for
    granted   \* whether an approve of this page was answered 200

pageVars == <<step, id, key, draft, data, post, granted>>
detailVars == <<vars, pageVars>>

LoadSteps == {"request", "decision", "approval", "cost", "logs"}
PageSteps == LoadSteps \cup {"closed", "shown", "posted", "error"}

Details == [status : Statuses, decision : Decisions \cup {"none"},
            approval : ApprovalStatuses, cost : BOOLEAN,
            logs : SUBSET AuditActions]

Blank == [status |-> "none", decision |-> "none", approval |-> "none",
          cost |-> FALSE, logs |-> {}]

PagesTypeOK ==
    /\ TypeOK
    /\ step \in [Pages -> PageSteps]
    /\ id \in [Pages -> Requests \cup {None}]
    /\ key \in [Pages -> Tenants \cup {None}]
    /\ draft \in [Pages -> Details]
    /\ data \in [Pages -> Details]
    /\ post \in [Pages -> Resolvers \cup {None}]
    /\ granted \in [Pages -> BOOLEAN]

DetailInit ==
    /\ Init
    /\ step = [p \in Pages |-> "closed"]
    /\ id = [p \in Pages |-> None]
    /\ key = [p \in Pages |-> None]
    /\ draft = [p \in Pages |-> Blank]
    /\ data = [p \in Pages |-> Blank]
    /\ post = [p \in Pages |-> None]
    /\ granted = [p \in Pages |-> FALSE]

PageStep(p, from, to) ==
    /\ step[p] = from
    /\ step' = [step EXCEPT ![p] = to]

\* The page is mounted for request r and loads it.
Open(p, r, t) ==
    /\ PageStep(p, "closed", "request")
    /\ id' = [id EXCEPT ![p] = r]
    /\ key' = [key EXCEPT ![p] = t]
    /\ UNCHANGED <<vars, draft, data, post, granted>>

\* The operator leaves the page, or reloads it.  What the server was asked to
\* do goes on.
Close(p) ==
    /\ step[p] # "closed"
    /\ step' = [step EXCEPT ![p] = "closed"]
    /\ id' = [id EXCEPT ![p] = None]
    /\ key' = [key EXCEPT ![p] = None]
    /\ draft' = [draft EXCEPT ![p] = Blank]
    /\ data' = [data EXCEPT ![p] = Blank]
    /\ post' = [post EXCEPT ![p] = None]
    /\ granted' = [granted EXCEPT ![p] = FALSE]
    /\ UNCHANGED vars

-----------------------------------------------------------------------------
(* GET /v1/requests/:id, one action per statement.                         *)

\* The request row, of the tenant of the key: 404, which the page shows as an
\* error, if there is none.
ReadRequestRow(p) ==
    LET found == status[id[p]] # "none" /\ tenant[id[p]] = key[p]
    IN  /\ PageStep(p, "request", IF found THEN "decision" ELSE "error")
        /\ draft' = IF found THEN [draft EXCEPT ![p].status = status[id[p]]]
                    ELSE draft
        /\ UNCHANGED <<vars, id, key, data, post, granted>>

ReadDecisionRow(p) ==
    /\ PageStep(p, "decision", "approval")
    /\ draft' = [draft EXCEPT ![p].decision = decision[id[p]]]
    /\ UNCHANGED <<vars, id, key, data, post, granted>>

ReadApprovalRow(p) ==
    /\ PageStep(p, "approval", "cost")
    /\ draft' = [draft EXCEPT ![p].approval = approval[id[p]]]
    /\ UNCHANGED <<vars, id, key, data, post, granted>>

ReadCostRow(p) ==
    /\ PageStep(p, "cost", "logs")
    /\ draft' = [draft EXCEPT ![p].cost =
                    \E e \in costEvents : e.request = id[p]]
    /\ UNCHANGED <<vars, id, key, data, post, granted>>

\* (mutant) the request row is read again for the answer, after the others
ReadLogsAndRow(p) ==
    /\ PageStep(p, "logs", "shown")
    /\ data' = [data EXCEPT ![p] = [draft[p] EXCEPT
                   !.status = status[id[p]],
                   !.logs = {a.action : a \in {b \in auditLogs :
                                                  b.request = id[p]}}]]
    /\ draft' = [draft EXCEPT ![p] = Blank]
    /\ UNCHANGED <<vars, id, key, post, granted>>

\* The last read; the answer is shown.
ReadLogs(p) ==
    /\ PageStep(p, "logs", "shown")
    /\ data' = [data EXCEPT ![p] = [draft[p] EXCEPT
                   !.logs = {a.action : a \in {b \in auditLogs :
                                                  b.request = id[p]}}]]
    /\ draft' = [draft EXCEPT ![p] = Blank]
    /\ UNCHANGED <<vars, id, key, post, granted>>

\* (mutant) the error is swallowed, and the page shows neither
LoseLoadBlank(p) ==
    /\ MayLose /\ step[p] \in LoadSteps
    /\ PageStep(p, step[p], "blank")
    /\ draft' = [draft EXCEPT ![p] = Blank]
    /\ UNCHANGED <<vars, id, key, data, post, granted>>

\* A statement is rejected or the answer is lost: the page shows the error,
\* and has no button to try again.
LoseLoad(p) ==
    /\ MayLose /\ step[p] \in LoadSteps
    /\ PageStep(p, step[p], "error")
    /\ draft' = [draft EXCEPT ![p] = Blank]
    /\ UNCHANGED <<vars, id, key, data, post, granted>>

-----------------------------------------------------------------------------
(* The buttons.                                                            *)

\* When the page offers them.
Offers(d) == d.status = "approval_required" /\ d.approval = "pending"

\* handleApprove and handleDeny up to the call: the first read of a handler.
\* Until it is answered the buttons are disabled.
Click(p, h) ==
    /\ Offers(data[p])
    /\ PageStep(p, "shown", "posted")
    /\ \/ ReadForApprove(h, id[p], key[p]) \/ ReadForDeny(h, id[p], key[p])
    /\ post' = [post EXCEPT ![p] = h]
    /\ UNCHANGED <<id, key, draft, data, granted>>

\* (mutant) the page is not loaded again
AnsweredNoLoad(p) ==
    /\ step[p] = "posted" /\ resolve[post[p]] \in ResolveReplies
    /\ PageStep(p, "posted", "shown")
    /\ granted' = [granted EXCEPT ![p] =
                      @ \/ resolve[post[p]] = "granted200"]
    /\ post' = [post EXCEPT ![p] = None]
    /\ UNCHANGED <<vars, id, key, draft, data>>

\* (mutant) the page goes on waiting when the answer is not a 200
AnsweredUncaught(p) ==
    /\ step[p] = "posted" /\ resolve[post[p]] \in {"granted200", "denied200"}
    /\ PageStep(p, "posted", "request")
    /\ granted' = [granted EXCEPT ![p] =
                      @ \/ resolve[post[p]] = "granted200"]
    /\ post' = [post EXCEPT ![p] = None]
    /\ UNCHANGED <<vars, id, key, draft, data>>

\* The answer: after a 200 the page loads again, after any other it alerts and
\* goes on showing what it had.
Answered(p) ==
    /\ step[p] = "posted" /\ resolve[post[p]] \in ResolveReplies
    /\ PageStep(p, "posted",
          IF resolve[post[p]] \in {"granted200", "denied200"}
          THEN "request" ELSE "shown")
    /\ granted' = [granted EXCEPT ![p] =
                      @ \/ resolve[post[p]] = "granted200"]
    /\ post' = [post EXCEPT ![p] = None]
    /\ UNCHANGED <<vars, id, key, draft, data>>

\* The answer is lost, whatever the handler did or still does.
LosePost(p) ==
    /\ MayLose
    /\ PageStep(p, "posted", "shown")
    /\ post' = [post EXCEPT ![p] = None]
    /\ UNCHANGED <<vars, id, key, draft, data, granted>>

-----------------------------------------------------------------------------
LoadProgress(p) ==
    \/ ReadRequestRow(p) \/ ReadDecisionRow(p) \/ ReadApprovalRow(p)
    \/ ReadCostRow(p) \/ ReadLogs(p)

PageNext(p) ==
    \/ \E r \in Requests, t \in Tenants : Open(p, r, t)
    \/ Close(p)
    \/ LoadProgress(p) \/ LoseLoad(p)
    \/ \E h \in Resolvers : Click(p, h)
    \/ Answered(p) \/ LosePost(p)

\* Whatever the API serves, approve and deny calls that come from no page
\* included.
HandlersNext == Next /\ UNCHANGED pageVars

DetailNext == HandlersNext \/ \E p \in Pages : PageNext(p)

DetailSpec == DetailInit /\ [][DetailNext]_detailVars

\* Handlers go on as in Gateway, reads are answered, and so are calls.
DetailFairSpec ==
    /\ DetailSpec
    /\ \A r \in Requests :
          WF_detailVars(InvokeProgress(r) /\ UNCHANGED pageVars)
    /\ \A h \in Resolvers :
          WF_detailVars(ResolveProgress(h) /\ UNCHANGED pageVars)
    /\ \A p \in Pages : WF_detailVars(LoadProgress(p) \/ Answered(p))

-----------------------------------------------------------------------------
\* What a detail may show of a request, given that its row is read first and
\* that handlers write that row after the decision and the approval it speaks
\* of: a status is never shown without what it rests on (requests.ts:52-86).
Causal(d) ==
    /\ d.status = "denied" => d.decision = "deny"
    /\ d.status \in {"allowed", "error"} => d.decision = "allow"
    /\ d.status \in {"approval_required", "approved", "rejected"} =>
          d.decision = "approval_required" /\ d.approval # "none"
    /\ d.status = "approved" => d.approval = "approved"

DetailCausal == \A p \in Pages : Causal(data[p])

\* Once an approve of a page was answered 200, whatever the page then shows has
\* the approval, its cost and its audit row, and so no buttons, although others
\* may still write the request (RequestDetail.tsx:51-52).
GrantedIsShown ==
    \A p \in Pages : granted[p] /\ step[p] = "shown" =>
        /\ data[p].approval = "approved"
        /\ data[p].cost
        /\ "approval.granted" \in data[p].logs

\* A call that was answered 202 can be approved from the dashboard as long as
\* its approval is pending, whoever tried and failed before, unless a deny has
\* marked it rejected (RequestDetail.tsx:93 asks for both columns).
HeldStaysOffered ==
    \A r \in Requests :
        invoke[r] = "held202" /\ approval[r] = "pending" =>
            \/ Offers([status |-> status[r], approval |-> approval[r]])
            \/ status[r] = "rejected"

\* No page waits for ever: a load or a click ends in something shown.
PageSettles ==
    \A p \in Pages :
        step[p] \in LoadSteps \cup {"posted"} ~>
            step[p] \in {"shown", "error", "closed"}
===============================================================================

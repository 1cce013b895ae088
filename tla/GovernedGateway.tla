---------------------------- MODULE GovernedGateway ----------------------------
(***************************************************************************)
(* Gateway while operators add policies (POST /v1/policies,                *)
(* routes/policies.ts): the handlers of both run concurrently, and an      *)
(* invoke handler decides on the policies its one query finds.             *)
(*                                                                         *)
(* The evaluator itself is module PolicyEngine; what is proved of it there *)
(* (Decides: the highest applicable policy decides, none denies) is all    *)
(* that is used of it here.                                                *)
(***************************************************************************)
EXTENDS Gateway, PolicyDecision

CONSTANTS
    Policies,   \* calls of POST /v1/policies, and the rows they insert
    Bodies      \* what a call may ask for

\* A body is seen as its priority, its decision, and the calls it is enabled for
\* and its tool and gates fit.
ASSUME BodiesAssumption ==
    \A b \in Bodies : /\ b.priority \in Int
                      /\ b.decision \in Decisions
                      /\ b.applies \subseteq Requests

ASSUME PoliciesAssumption == None \notin Bodies

VARIABLES
    create, body, owner,  \* the handlers of POST /v1/policies
    policies,             \* the table: the calls whose row is in it
    inForce               \* per invoke or resolver call, the policies answered
                          \* 201 when it arrived (not stored by the program)

policyVars == <<create, body, owner, policies>>
governedVars == <<vars, policyVars, inForce>>

CreateSteps == {"insert", "reread"}
CreateReplies == {"created201", "invalid400", "unauthorized401", "failed500"}

GovernedTypeOK ==
    /\ TypeOK
    /\ create \in [Policies -> {"idle"} \cup CreateSteps \cup CreateReplies]
    /\ body \in [Policies -> Bodies \cup {None}]
    /\ owner \in [Policies -> Tenants \cup {None}]
    /\ policies \subseteq Policies
    /\ inForce \in [Handlers -> SUBSET Policies]

GovernedInit ==
    /\ Init
    /\ create = [p \in Policies |-> "idle"]
    /\ body = [p \in Policies |-> None]
    /\ owner = [p \in Policies |-> None]
    /\ policies = {}
    /\ inForce = [x \in Handlers |-> {}]

-----------------------------------------------------------------------------
(* POST /v1/policies.                                                      *)

CreateStep(p, from, to) ==
    /\ create[p] = from
    /\ create' = [create EXCEPT ![p] = to]

\* The key is one of tenant t, and the body b is valid.
ReceivePolicy(p, t, b) ==
    /\ CreateStep(p, "idle", "insert")
    /\ body' = [body EXCEPT ![p] = b]
    /\ owner' = [owner EXCEPT ![p] = t]
    /\ UNCHANGED <<vars, policies, inForce>>

RefusePolicy(p) ==
    /\ \E reply \in {"unauthorized401", "invalid400"} :
          CreateStep(p, "idle", reply)
    /\ UNCHANGED <<vars, body, owner, policies, inForce>>

InsertPolicy(p) ==
    /\ CreateStep(p, "insert", "reread")
    /\ policies' = policies \cup {p}
    /\ UNCHANGED <<vars, body, owner, inForce>>

\* The row is read again for the answer; no code deletes one.
RereadPolicy(p) ==
    /\ CreateStep(p, "reread", "created201")
    /\ UNCHANGED <<vars, body, owner, policies, inForce>>

\* What was inserted stays, though the operator was not told.
FailPolicy(p) ==
    /\ MayFail
    /\ create[p] \in CreateSteps
    /\ create' = [create EXCEPT ![p] = "failed500"]
    /\ UNCHANGED <<vars, body, owner, policies, inForce>>

-----------------------------------------------------------------------------
(* Invoke and resolve, over that table.                                    *)

\* The rows of the tenant that apply to the call.
Eligible(r) == {p \in policies : owner[p] = tenant[r] /\ r \in body[p].applies}

\* (mutant) the comparison of the sort is the wrong way round
MayDecideLowest(S, d) ==
    \/ S = {} /\ d = "deny"
    \/ \E p \in S : /\ body[p].decision = d
                    /\ \A q \in S : body[p].priority <= body[q].priority

\* The evaluator may decide d on the applicable policies S.
MayDecide(S, d) == Decides({body[p] : p \in S}, d)

Arriving(x) ==
    inForce' = [inForce EXCEPT ![x] =
                  {p \in Policies : create[p] = "created201"}]

ReceiveGoverned(r, t) ==
    /\ Receive(r, t)
    /\ Arriving(r)
    /\ UNCHANGED policyVars

\* (mutant) the query does not filter on the tenant
EvaluateAnyTenant(r) ==
    /\ \E d \in Decisions :
          /\ MayDecide({p \in policies : r \in body[p].applies}, d)
          /\ EvaluatePolicy(r, d)
    /\ UNCHANGED <<policyVars, inForce>>

\* (mutant) no decision is set when no policy applies
EvaluateNoDefault(r) ==
    /\ \/ /\ Eligible(r) # {}
          /\ \E d \in Decisions :
                MayDecide(Eligible(r), d) /\ EvaluatePolicy(r, d)
       \/ Eligible(r) = {} /\ EvaluatePolicy(r, None)
    /\ UNCHANGED <<policyVars, inForce>>

EvaluateGoverned(r) ==
    /\ \E d \in Decisions : MayDecide(Eligible(r), d) /\ EvaluatePolicy(r, d)
    /\ UNCHANGED <<policyVars, inForce>>

\* What the invoke handler does but for reading the policies.
OtherProgress(r) ==
    /\ \/ CheckRateLimit(r) \/ ResolveAgent(r) \/ InsertRequest(r)
       \/ RecordDecision(r)
       \/ Deny(r) \/ AuditDeny(r)
       \/ InsertApproval(r) \/ Hold(r) \/ AuditHold(r)
       \/ Execute(r) \/ MarkError(r) \/ AuditError(r)
       \/ Allow(r) \/ CostAllow(r) \/ AuditAllow(r)
       \/ Refuse(r) \/ FailInvoke(r)
    /\ UNCHANGED <<policyVars, inForce>>

\* The approve and deny handlers do not read the policies.
ResolveGoverned(h) ==
    \/ /\ \E r \in Requests, t \in Tenants :
             ReadForApprove(h, r, t) \/ ReadForDeny(h, r, t)
       /\ Arriving(h)
       /\ UNCHANGED policyVars
    \/ /\ RefuseResolver(h) \/ ResolveProgress(h) \/ FailResolve(h)
       /\ UNCHANGED <<policyVars, inForce>>

GovernedNext ==
    \/ \E p \in Policies :
          \/ \E t \in Tenants, b \in Bodies : ReceivePolicy(p, t, b)
          \/ RefusePolicy(p) \/ InsertPolicy(p) \/ RereadPolicy(p)
          \/ FailPolicy(p)
    \/ \E r \in Requests :
          \/ \E t \in Tenants : ReceiveGoverned(r, t)
          \/ EvaluateGoverned(r) \/ OtherProgress(r)
    \/ \E h \in Resolvers : ResolveGoverned(h)

GovernedSpec == GovernedInit /\ [][GovernedNext]_governedVars

-----------------------------------------------------------------------------
\* The policies of r's tenant that were answered 201 before r arrived.
Known(r) == Eligible(r) \cap inForce[r]

\* The decision of a call is that of a table between the one its caller could
\* know of and the one there is now: a policy acknowledged before the call
\* arrived is looked at, one of another tenant never, and one inserted
\* meanwhile, acknowledged or not, may be (gateway.ts:127-130).
DecisionFresh ==
    \A r \in Requests : decision[r] # "none" =>
        \E S \in SUBSET Eligible(r) :
            Known(r) \subseteq S /\ MayDecide(S, decision[r])

\* Policy p is a deny that applies to r and stands above every other policy of
\* its tenant that does.
Blocks(p, r) ==
    /\ p \in policies /\ r \in body[p].applies /\ body[p].decision = "deny"
    /\ \A q \in policies \ {p} :
          owner[q] = owner[p] /\ r \in body[q].applies
          => body[q].priority < body[p].priority

\* Once a block has been answered 201, no call that arrives later has its tool
\* run, at once or after an approval, and none is held
\* (security-model.md:67, "emergency blocks that take effect immediately").
BlockStopsCalls ==
    \A r \in Requests, p \in Policies :
        p \in inForce[r] /\ Blocks(p, r) /\ owner[p] = tenant[r]
        => ~Executed(r) /\ approval[r] = "none"

-----------------------------------------------------------------------------
\* security-model.md:67 says that emergency blocks "take effect immediately":
\* an approve call that arrives after the block was answered 201 does not run
\* the tool.
BlockStopsApprovals ==
    \A h \in Resolvers, p \in Policies :
        p \in inForce[h] /\ Blocks(p, target[h]) /\ owner[p] = caller[h]
        => Event(target[h], h) \notin executions
=============================================================================

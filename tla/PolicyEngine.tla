---------------------------- MODULE PolicyEngine ----------------------------
(***************************************************************************)
(* PolicyEvaluator.evaluate (packages/policy-engine/src/evaluator.ts), one *)
(* evaluation of one call.  The rows of the policies table are a set: the  *)
(* query that loads them (routes/gateway.ts) has no ORDER BY, so after the *)
(* stable sort by priority rows of equal priority stand in any order.      *)
(***************************************************************************)
EXTENDS PolicyDecision, FiniteSets

CONSTANTS
    Tables,      \* the contents the policies table may have
    Calls,       \* the contexts evaluate may be called with
    None,        \* a column or an amount that is null
    Absent,      \* a field of toolArgs that is not given, or null
    NotNumeric   \* a field of toolArgs that is no number and parses to none

Decisions == {"allow", "deny", "approval_required"}

\* A row constrains the call by the gates that are set: a null scope or
\* maximum and an empty list constrain nothing.
IsPolicy(p) ==
    /\ p.priority \in Int
    /\ p.decision \in Decisions
    /\ p.max \in Int \cup {None}

\* toolArgs is seen through the four fields an amount may stand in, in the
\* order they are tried: amount, value, transfer_amount, payment_amount.
AmountFields == 1..4

IsCall(c) == c.args \in [AmountFields -> Int \cup {Absent, NotNumeric}]

ASSUME PoliciesAssumption ==
    \A T \in Tables :
        IsFiniteSet(T) /\ None \notin T /\ \A p \in T : IsPolicy(p)

ASSUME CallsAssumption == \A c \in Calls : IsCall(c)

ASSUME ValuesAssumption ==
    None \notin Int /\ Absent \notin Int /\ NotNumeric \notin Int

VARIABLES
    table, call,  \* what the evaluation is given
    active,       \* the sorted array, once the rows are loaded
    next,         \* the position of the loop; 0 before the rows are loaded
    rejection,    \* firstRejectionReason: a policy and its failed gate
    outcome       \* the result: the policy that fired, or the default deny

vars == <<table, call, active, next, rejection, outcome>>

-----------------------------------------------------------------------------
\* The first field given decides, whether or not it holds a number.
ExtractAmount(args) ==
    LET given == {i \in AmountFields : args[i] # Absent}
        first == CHOOSE i \in given : \A j \in given : i <= j
    IN  IF given = {} \/ args[first] = NotNumeric THEN None ELSE args[first]

\* checkConditions: the four gates, and their conjunction.
ScopeGate(p, c) == p.scope # None => p.scope \in c.scopes

AllowlistGate(p, c) == p.allowed # {} => c.agent \in p.allowed

BlocklistGate(p, c) == c.agent \notin p.blocked

AmountGate(p, c) ==
    LET amount == ExtractAmount(c.args)
    IN  p.max # None /\ amount # None => amount <= p.max

Passes(p, c) == /\ ScopeGate(p, c)
                /\ AllowlistGate(p, c)
                /\ BlocklistGate(p, c)
                /\ AmountGate(p, c)

\* The rows of the call's tenant that are enabled and name its tool.
Eligible(T, c) ==
    {p \in T : p.tenant = c.tenant /\ p.enabled /\ p.tool = c.tool}

\* (mutant) the comparison of the sort is the wrong way round
SortedAscending(S) ==
    {s \in [1..Cardinality(S) -> S] :
        /\ \A p \in S : \E i \in DOMAIN s : s[i] = p
        /\ \A i, j \in DOMAIN s : i < j => s[i].priority <= s[j].priority}

\* The arrays that list S by descending priority.
Sorted(S) ==
    {s \in [1..Cardinality(S) -> S] :
        /\ \A p \in S : \E i \in DOMAIN s : s[i] = p
        /\ \A i, j \in DOMAIN s : i < j => s[i].priority >= s[j].priority}

Length == Cardinality(Eligible(table, call))

Result(d, p, why) == [decision |-> d, policy |-> p, reason |-> why]

Init ==
    /\ table \in Tables
    /\ call \in Calls
    /\ active = <<>>
    /\ next = 0
    /\ rejection = None
    /\ outcome = None

Load ==
    /\ next = 0
    /\ active' \in Sorted(Eligible(table, call))
    /\ next' = 1
    /\ UNCHANGED <<table, call, rejection, outcome>>

InLoop == outcome = None /\ next \in 1..Length

\* (mutant) every rejection overwrites the one before
RejectOverwrites ==
    /\ InLoop /\ ~Passes(active[next], call)
    /\ next' = next + 1
    /\ rejection' = active[next]
    /\ UNCHANGED <<table, call, active, outcome>>

\* The policy does not apply; the first one that does not is remembered.
Reject ==
    /\ InLoop /\ ~Passes(active[next], call)
    /\ next' = next + 1
    /\ rejection' = IF rejection = None THEN active[next] ELSE rejection
    /\ UNCHANGED <<table, call, active, outcome>>

Fire ==
    /\ InLoop /\ Passes(active[next], call)
    /\ outcome' = Result(active[next].decision, active[next], active[next])
    /\ UNCHANGED <<table, call, active, next, rejection>>

\* (mutant) the loop stops one policy early
DefaultEarly ==
    /\ outcome = None /\ next > 0 /\ next >= Length
    /\ outcome' = Result("deny", None, rejection)
    /\ UNCHANGED <<table, call, active, next, rejection>>

\* (mutant) no default decision is set
DefaultUnset ==
    /\ outcome = None /\ next > Length
    /\ outcome' = Result(None, None, rejection)
    /\ UNCHANGED <<table, call, active, next, rejection>>

\* No policy applied: fail closed.
Default ==
    /\ outcome = None /\ next > Length
    /\ outcome' = Result("deny", None, rejection)
    /\ UNCHANGED <<table, call, active, next, rejection>>

Next == Load \/ Reject \/ Fire \/ Default

Spec == Init /\ [][Next]_vars

-----------------------------------------------------------------------------
TypeOK ==
    /\ IsFiniteSet(table) /\ None \notin table /\ \A p \in table : IsPolicy(p)
    /\ IsCall(call)
    /\ active \in [1..Length -> Eligible(table, call)] \/ next = 0
    /\ next \in 0..(Length + 1)
    /\ rejection \in Eligible(table, call) \cup {None}
    /\ outcome # None =>
          outcome \in [decision : Decisions,
                       policy : Eligible(table, call) \cup {None},
                       reason : Eligible(table, call) \cup {None}]

\* The loop invariant: every policy before position next was rejected, the
\* first of them is the one remembered, and a result is either the policy at
\* next, which passed, or the default after all of them.
LoopInv ==
    /\ next > 0 => active \in Sorted(Eligible(table, call))
    /\ \A i \in 1..(next - 1) : ~Passes(active[i], call)
    /\ rejection = IF next > 1 THEN active[1] ELSE None
    /\ outcome # None =>
          \/ /\ next \in 1..Length /\ Passes(active[next], call)
             /\ outcome = Result(active[next].decision, active[next], active[next])
          \/ /\ next = Length + 1
             /\ outcome = Result("deny", None, rejection)

\* The policies a reader of the table would say apply to the call.
Applicable == {p \in Eligible(table, call) : Passes(p, call)}

Fired == outcome # None /\ outcome.policy # None
Defaulted == outcome # None /\ outcome.policy = None

\* The policy that fires applies to the call, decides for it, and no
\* applicable policy has a higher priority: so a deny of the highest priority
\* overrides every allow (security-model.md:67).
FiredIsTop ==
    Fired => /\ outcome.policy \in Applicable
             /\ outcome.decision = outcome.policy.decision
             /\ \A q \in Applicable : q.priority <= outcome.policy.priority

\* The default is taken exactly when no policy applies, and it is deny:
\* a gap in the table never grants (evaluator.ts:54).
FailClosed ==
    Defaulted => Applicable = {} /\ outcome.decision = "deny"

\* A default deny reports a rejection of the highest priority among the
\* policies for the tool, and none only when there is no such policy
\* (evaluator.ts:28).
TopRejectionReported ==
    Defaulted =>
        IF Eligible(table, call) = {} THEN outcome.reason = None
        ELSE /\ outcome.reason \in Eligible(table, call)
             /\ \A q \in Eligible(table, call) :
                    q.priority <= outcome.reason.priority

\* An evaluation answers once, as Decides allows: with the loop, the gates and
\* the order of the rows it comes to the decision of one of the highest
\* applicable policies, or to deny if there is none (evaluator.ts:33-61).
AnswersAsDecided ==
    [][outcome' # outcome =>
          outcome = None /\ Decides(Applicable, outcome'.decision)]_vars

-----------------------------------------------------------------------------
\* README.md:93 configures "block high-value transfers regardless of scope" as
\* a deny policy with a maximum: if such a policy stands above all others and
\* has no other gate, a call above the maximum is denied.
HighAmountDenied ==
    \A p \in Eligible(table, call) :
        /\ p.decision = "deny" /\ p.max # None
        /\ ScopeGate(p, call) /\ AllowlistGate(p, call) /\ BlocklistGate(p, call)
        /\ \A q \in Eligible(table, call) \ {p} : q.priority < p.priority
        /\ ~AmountGate(p, call)
        /\ outcome # None
        => outcome.decision = "deny"
=============================================================================

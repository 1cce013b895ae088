-------------------------- MODULE PolicyEngineProofs --------------------------
(***************************************************************************)
(* Proofs about PolicyEngine, for any policies and any call.  The loop     *)
(* invariant says that everything before the loop's position was rejected; *)
(* the array lists all eligible policies by descending priority, so what   *)
(* comes later in it cannot stand above what fired.                        *)
(***************************************************************************)
EXTENDS PolicyEngine, FiniteSetTheorems, TLAPS

USE PoliciesAssumption, CallsAssumption, ValuesAssumption

IInv == TypeOK /\ LoopInv

\* The eligible policies are finitely many, so the array has a length.
LEMMA LengthType == TypeOK => Length \in Nat
  <1> SUFFICES ASSUME TypeOK PROVE Length \in Nat
    OBVIOUS
  <1>1. Eligible(table, call) \subseteq table /\ IsFiniteSet(table)
    BY DEF Eligible, TypeOK
  <1> QED
    BY <1>1, FS_Subset, FS_CardinalityType DEF Length

\* The loop invariant holds before the rows are loaded.
LEMMA InitIInv == Init => IInv
  <1> SUFFICES ASSUME Init PROVE IInv
    OBVIOUS
  <1> USE DEF Init
  <1>1. /\ IsFiniteSet(table) /\ None \notin table /\ \A p \in table : IsPolicy(p)
        /\ IsCall(call)
    OBVIOUS
  <1>2. Length \in Nat
    <2>1. Eligible(table, call) \subseteq table
      BY DEF Eligible
    <2> QED
      BY <1>1, <2>1, FS_Subset, FS_CardinalityType DEF Length
  <1>3. TypeOK
    BY <1>1, <1>2 DEF TypeOK
  <1> QED
    BY <1>3 DEF IInv, LoopInv

\* Load, Reject, Fire and Default each preserve the loop invariant.
LEMMA StepIInv == IInv /\ [Next]_vars => IInv'
  <1> SUFFICES ASSUME IInv, [Next]_vars PROVE IInv'
    OBVIOUS
  <1> DEFINE E == Eligible(table, call)
  <1>1. Length \in Nat /\ None \notin E /\ next \in 0..(Length + 1)
    BY LengthType DEF Eligible, IInv, TypeOK
  <1>2. CASE UNCHANGED vars
    BY <1>2 DEF vars, Length, IInv, TypeOK, LoopInv
  <1>3. ASSUME UNCHANGED <<table, call>>
        PROVE  E' = E /\ Length' = Length
    BY <1>3 DEF Length
  <1>4. ASSUME Load PROVE IInv'
    BY <1>1, <1>4 DEF Load, Sorted, Length, IInv, TypeOK, LoopInv
  <1>5. ASSUME Reject PROVE IInv'
    BY <1>1, <1>5 DEF Reject, InLoop, Sorted, Length, IInv, TypeOK, LoopInv
  <1>6. ASSUME Fire PROVE IInv'
    <2>1. /\ next \in 1..Length /\ Passes(active[next], call)
          /\ outcome' = Result(active[next].decision, active[next], active[next])
          /\ UNCHANGED <<table, call, active, next, rejection>>
      BY <1>6 DEF Fire, InLoop
    <2>2. E' = E /\ Length' = Length
      BY <2>1, <1>3
    <2>3. active \in [1..Length -> E] /\ active[next] \in E
      BY <2>1, <1>1 DEF IInv, TypeOK
    <2>4. active[next].decision \in Decisions
      BY <2>3 DEF IInv, TypeOK, Eligible, IsPolicy
    <2>5. outcome' \in [decision : Decisions, policy : E \cup {None},
                        reason : E \cup {None}]
      BY <2>1, <2>3, <2>4 DEF Result
    <2>6. TypeOK'
      BY <2>1, <2>2, <2>5 DEF IInv, TypeOK
    <2>7. LoopInv'
      BY <2>1, <2>2 DEF IInv, LoopInv
    <2> QED
      BY <2>6, <2>7 DEF IInv
  <1>7. ASSUME Default PROVE IInv'
    <2>1. /\ next > Length
          /\ outcome' = Result("deny", None, rejection)
          /\ UNCHANGED <<table, call, active, next, rejection>>
      BY <1>7 DEF Default
    <2>2. E' = E /\ Length' = Length /\ next = Length + 1
      BY <2>1, <1>3, <1>1
    <2>3. outcome' \in [decision : Decisions, policy : E \cup {None},
                        reason : E \cup {None}]
      BY <2>1 DEF Result, Decisions, IInv, TypeOK
    <2>4. TypeOK'
      BY <2>1, <2>2, <2>3 DEF IInv, TypeOK
    <2>5. LoopInv'
      BY <2>1, <2>2 DEF IInv, LoopInv
    <2> QED
      BY <2>4, <2>5 DEF IInv
  <1> QED
    BY <1>2, <1>4, <1>5, <1>6, <1>7 DEF Next

\* Type correctness and the loop invariant are invariants of every evaluation.
THEOREM EvaluationInvariance == Spec => []IInv
  <1> QED
    BY InitIInv, StepIInv, PTL DEF Spec

\* The loop has rejected what it has passed, and remembers the first rejection.
THEOREM LoopInvariance == Spec => []LoopInv
  <1>1. IInv => LoopInv
    BY DEF IInv
  <1> QED
    BY <1>1, EvaluationInvariance, PTL

\* Every value the evaluation holds is of its type: a result names a decision,
\* and a policy or a rejection that was eligible.
THEOREM EvaluationTypes == Spec => []TypeOK
  <1>1. IInv => TypeOK
    BY DEF IInv
  <1> QED
    BY <1>1, EvaluationInvariance, PTL

\* A policy that comes no earlier in the array has no higher priority.
LEMMA NoHigherLater ==
  ASSUME IInv, next \in 1..(Length + 1), NEW i \in 1..Length,
         NEW j \in 1..Length, i <= j
  PROVE  active[j].priority <= active[i].priority
  <1>1. active \in Sorted(Eligible(table, call)) /\ Length \in Nat
    BY LengthType DEF IInv, LoopInv
  <1>2. DOMAIN active = 1..Length /\ active[i] \in table /\ active[j] \in table
    BY <1>1 DEF Sorted, Length, Eligible
  <1>3. active[i].priority \in Int /\ active[j].priority \in Int
    BY <1>2 DEF IInv, TypeOK, IsPolicy
  <1>4. CASE i = j
    BY <1>3, <1>4
  <1>5. CASE i < j
    BY <1>1, <1>2, <1>3, <1>5 DEF Sorted
  <1> QED
    BY <1>1, <1>4, <1>5

\* Every eligible policy stands somewhere in the array.
LEMMA Listed ==
  ASSUME IInv, next \in 1..(Length + 1), NEW q \in Eligible(table, call)
  PROVE  \E j \in 1..Length : active[j] = q
  BY LengthType DEF IInv, LoopInv, Sorted, Length

\* An outcome names a policy exactly when one fired; the default is deny.
LEMMA OutcomeShape ==
  ASSUME IInv, outcome # None
  PROVE  /\ Length \in Nat
         /\ next \in 1..(Length + 1)
         /\ Fired => /\ next \in 1..Length
                     /\ Passes(active[next], call)
                     /\ outcome.policy = active[next]
                     /\ outcome.decision = active[next].decision
                     /\ active[next] \in Eligible(table, call)
         /\ Defaulted => /\ next = Length + 1
                         /\ outcome.decision = "deny"
                         /\ outcome.reason = rejection
  <1>1. Length \in Nat
    BY LengthType DEF IInv
  <1>2. next \in 0..(Length + 1) /\ None \notin Eligible(table, call)
    BY DEF IInv, TypeOK, Eligible
  <1>3. CASE /\ next \in 1..Length /\ Passes(active[next], call)
             /\ outcome = Result(active[next].decision, active[next], active[next])
    <2>1. active[next] \in Eligible(table, call)
      BY <1>1, <1>3 DEF IInv, TypeOK
    <2>2. outcome.policy = active[next] /\ outcome.decision = active[next].decision
      BY <1>3 DEF Result
    <2> QED
      BY <1>1, <1>2, <1>3, <2>1, <2>2 DEF Fired, Defaulted
  <1>4. CASE /\ next = Length + 1
             /\ outcome = Result("deny", None, rejection)
    BY <1>1, <1>4 DEF Fired, Defaulted, Result
  <1> QED
    BY <1>3, <1>4 DEF IInv, LoopInv

\* The policy that fires applies, and no applicable policy stands above it:
\* the loop rejected all that come before it, and the array is sorted.
THEOREM HighestPriorityFires == Spec => []FiredIsTop
  <1>1. ASSUME IInv PROVE FiredIsTop
    <2> SUFFICES ASSUME Fired PROVE
            /\ outcome.policy \in Applicable
            /\ outcome.decision = outcome.policy.decision
            /\ \A q \in Applicable : q.priority <= outcome.policy.priority
      BY DEF FiredIsTop
    <2>1. /\ Length \in Nat /\ next \in 1..Length /\ next \in 1..(Length + 1)
          /\ Passes(active[next], call) /\ outcome.policy = active[next]
          /\ outcome.decision = active[next].decision
          /\ active[next] \in Eligible(table, call)
      BY <1>1, OutcomeShape DEF Fired
    <2>2. ASSUME NEW q \in Applicable
          PROVE  q.priority <= active[next].priority
      <3>1. q \in Eligible(table, call) /\ Passes(q, call)
        BY DEF Applicable
      <3>2. PICK j \in 1..Length : active[j] = q
        BY <1>1, <2>1, <3>1, Listed
      <3>3. \A i \in 1..(next - 1) : ~Passes(active[i], call)
        BY <1>1 DEF IInv, LoopInv
      <3>4. ~(j < next)
        BY <2>1, <3>1, <3>2, <3>3
      <3>5. next <= j
        BY <2>1, <3>2, <3>4
      <3> QED
        BY <1>1, <2>1, <3>2, <3>5, NoHigherLater
    <2> QED
      BY <2>1, <2>2 DEF Applicable
  <1> QED
    BY <1>1, EvaluationInvariance, PTL

\* When nothing fired, every policy of the array was rejected, so none applies;
\* and the default is deny.
THEOREM DefaultDenies == Spec => []FailClosed
  <1>1. ASSUME IInv PROVE FailClosed
    <2> SUFFICES ASSUME Defaulted
                 PROVE  Applicable = {} /\ outcome.decision = "deny"
      BY DEF FailClosed
    <2>1. /\ Length \in Nat /\ next = Length + 1 /\ next \in 1..(Length + 1)
          /\ outcome.decision = "deny"
      BY <1>1, OutcomeShape DEF Defaulted
    <2>2. ASSUME NEW q \in Applicable PROVE FALSE
      <3>1. q \in Eligible(table, call) /\ Passes(q, call)
        BY DEF Applicable
      <3>2. PICK j \in 1..Length : active[j] = q
        BY <1>1, <2>1, <3>1, Listed
      <3>3. \A i \in 1..(next - 1) : ~Passes(active[i], call)
        BY <1>1 DEF IInv, LoopInv
      <3> QED
        BY <2>1, <3>1, <3>2, <3>3
    <2> QED
      BY <2>1, <2>2
  <1> QED
    BY <1>1, EvaluationInvariance, PTL

\* The rejection a default deny reports is that of the array's first policy,
\* which no eligible policy stands above.
THEOREM ReportsTopRejection == Spec => []TopRejectionReported
  <1>1. ASSUME IInv PROVE TopRejectionReported
    <2> DEFINE E == Eligible(table, call)
    <2> SUFFICES ASSUME Defaulted
                 PROVE  IF E = {} THEN outcome.reason = None
                        ELSE /\ outcome.reason \in E
                             /\ \A q \in E : q.priority <= outcome.reason.priority
      BY DEF TopRejectionReported
    <2>1. /\ Length \in Nat /\ next = Length + 1 /\ next \in 1..(Length + 1)
          /\ outcome.reason = rejection
      BY <1>1, OutcomeShape DEF Defaulted
    <2>2. rejection = IF next > 1 THEN active[1] ELSE None
      BY <1>1 DEF IInv, LoopInv
    <2>3. active \in [1..Length -> E]
      BY <1>1, <2>1 DEF IInv, TypeOK
    <2>4. CASE E = {}
      <3>1. Length = 0
        BY <2>4, FS_EmptySet DEF Length
      <3> QED
        BY <2>1, <2>2, <2>4, <3>1
    <2>5. CASE E # {}
      <3>1. PICK p \in E : TRUE
        BY <2>5
      <3>2. \E j \in 1..Length : active[j] = p
        BY <1>1, <2>1, <3>1, Listed
      <3>3. Length >= 1 /\ 1 \in 1..Length
        BY <2>1, <3>2
      <3>4. outcome.reason = active[1] /\ active[1] \in E
        BY <2>1, <2>2, <2>3, <3>3
      <3>5. ASSUME NEW q \in E PROVE q.priority <= active[1].priority
        <4>1. PICK j \in 1..Length : active[j] = q
          BY <1>1, <2>1, <3>5, Listed
        <4>2. 1 <= j
          BY <2>1, <4>1
        <4> QED
          BY <1>1, <2>1, <3>3, <4>1, <4>2, NoHigherLater
      <3> QED
        BY <2>5, <3>4, <3>5
    <2> QED
      BY <2>4, <2>5
  <1> QED
    BY <1>1, EvaluationInvariance, PTL

-----------------------------------------------------------------------------
\* Once there is a result no step changes it.
LEMMA AnswersOnce ==
  ASSUME IInv, [Next]_vars, outcome' # outcome
  PROVE  /\ outcome = None
         /\ outcome' # None
         /\ UNCHANGED <<table, call>>
  <1>1. Fire \/ Default
    BY DEF Next, vars, Load, Reject
  <1>2. IInv'
    BY StepIInv
  <1> QED
    BY <1>1, <1>2 DEF Fire, Default, InLoop

\* The loop over the sorted array comes to what GovernedGateway takes the
\* evaluator to answer: one decision, that of an applicable policy of the highest
\* priority, or deny when none applies (evaluator.ts:33-61).
THEOREM EvaluatorDecides == Spec => AnswersAsDecided
  <1>1. ASSUME IInv, [Next]_vars, FiredIsTop', FailClosed'
        PROVE  outcome' # outcome =>
                  outcome = None /\ Decides(Applicable, outcome'.decision)
    <2> SUFFICES ASSUME outcome' # outcome
                 PROVE  outcome = None /\ Decides(Applicable, outcome'.decision)
      OBVIOUS
    <2>1. /\ outcome = None /\ outcome' # None
          /\ UNCHANGED <<table, call>>
      BY <1>1, AnswersOnce
    <2>2. Applicable' = Applicable
      BY <2>1 DEF Applicable
    <2>3. CASE Fired'
      <3>1. /\ outcome'.policy \in Applicable
            /\ outcome'.policy.decision = outcome'.decision
            /\ \A q \in Applicable : q.priority <= outcome'.policy.priority
        BY <1>1, <2>2, <2>3 DEF FiredIsTop
      <3> QED
        BY <2>1, <3>1 DEF Decides
    <2>4. CASE Defaulted'
      BY <1>1, <2>1, <2>2, <2>4 DEF FailClosed, Decides
    <2> QED
      BY <2>1, <2>3, <2>4 DEF Fired, Defaulted
  <1> QED
    BY <1>1, EvaluationInvariance, HighestPriorityFires, DefaultDenies, PTL
       DEF Spec, AnswersAsDecided

\* No two rows of equal priority decide differently.
TieFree(rows) ==
    \A p, q \in rows : p.priority = q.priority => p.decision = q.decision

\* Of rows without such ties Decides allows one decision.
LEMMA OneDecision ==
  ASSUME NEW rows, \A p \in rows : IsPolicy(p), TieFree(rows),
         NEW d, NEW e, Decides(rows, d), Decides(rows, e)
  PROVE  d = e
  <1>1. CASE rows = {}
    BY <1>1 DEF Decides
  <1>2. CASE rows # {}
    <2>1. PICK p \in rows : p.decision = d /\ \A r \in rows : r.priority <= p.priority
      BY <1>2 DEF Decides
    <2>2. PICK q \in rows : q.decision = e /\ \A r \in rows : r.priority <= q.priority
      BY <1>2 DEF Decides
    <2>3. p.priority \in Int /\ q.priority \in Int
      BY DEF IsPolicy
    <2>4. p.priority = q.priority
      BY <2>1, <2>2, <2>3
    <2> QED
      BY <2>1, <2>2, <2>4 DEF TieFree
  <1> QED
    BY <1>1, <1>2

\* What the evaluator answers does not depend on the order in which the database
\* returns the rows, which no query fixes, unless rows of equal priority decide
\* differently: it is the one decision that the rows allow (evaluator.ts:24-26).
OrderIndependent ==
    outcome # None /\ TieFree(Applicable) =>
        \A d \in Decisions : Decides(Applicable, d) <=> d = outcome.decision

\* The order of the rows matters only between ties, whatever the table and the
\* call: evaluate sorts, walks the array and stops so that no other decision
\* comes out (evaluator.ts:24-61).
THEOREM OnlyTiesVary == Spec => []OrderIndependent
  <1>1. TypeOK /\ FiredIsTop /\ FailClosed => OrderIndependent
    <2> SUFFICES ASSUME TypeOK, FiredIsTop, FailClosed, outcome # None,
                        TieFree(Applicable), NEW d \in Decisions
                 PROVE  Decides(Applicable, d) <=> d = outcome.decision
      BY DEF OrderIndependent
    <2>1. Decides(Applicable, outcome.decision)
      BY DEF FiredIsTop, FailClosed, Fired, Defaulted, Decides
    <2>2. \A p \in Applicable : IsPolicy(p)
      BY DEF Applicable, Eligible, TypeOK
    <2> QED
      BY <2>1, <2>2, OneDecision
  <1> QED
    BY <1>1, EvaluationTypes, HighestPriorityFires, DefaultDenies, PTL
===============================================================================

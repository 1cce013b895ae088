--------------------------- MODULE RateLimiterProofs ---------------------------
(***************************************************************************)
(* Proofs about RateLimiter, for any number of calls in flight and any     *)
(* window.  An admitted call stays in the set for a window because the     *)
(* clocks of later calls only trim what is older than their own window,    *)
(* and because the key's expiry lies a window after every admitted call.   *)
(***************************************************************************)
EXTENDS RateLimiter, FiniteSetTheorems, TLAPS

USE LimiterAssumption

\* No call arrived in the future.
Arrived == \A c \in Calls : stamp[c] <= now

\* A recorded call is still there, unless it left the window.
Recorded ==
    \A c \in Calls :
        step[c] \in {"expire", "allowed"} /\ stamp[c] >= now - Window
        => c \in entries

\* The expiry lies a window after every admitted call in the set.
Covered ==
    expiry # None =>
        \A c \in entries : step[c] = "allowed" => stamp[c] + Ttl <= expiry

\* The set is finite, and has only calls that were let through.
Members ==
    /\ IsFiniteSet(entries)
    /\ \A c \in entries : step[c] \in {"expire", "allowed", "open"}

IInv == TypeOK /\ Arrived /\ Recorded /\ Covered

\* The invariant holds before any call arrives.
LEMMA InitIInv == Init => IInv
  BY DEF Init, IInv, TypeOK, Arrived, Recorded, Covered

\* The step that takes entries away as time passes is Tick; it finds every
\* admitted call it takes outside the window.
LEMMA StepIInv ==
  ASSUME "expire" \in Prompt, IInv, [Next]_vars
  PROVE  IInv'
  <1> USE DEF IInv, TypeOK, Arrived, Recorded, Covered, Go, Commands, Results
  <1>1. CASE Tick
    <2>1. now \in Nat /\ now' = now + 1 /\ UNCHANGED <<step, stamp>>
      BY <1>1 DEF Tick
    <2>2. \A c \in Calls : step[c] # "expire"
      BY <1>1 DEF Tick
    <2>3. CASE /\ expiry # None /\ now' > expiry
               /\ entries' = {} /\ expiry' = None
      <3>1. ASSUME NEW c \in Calls, step[c] = "allowed"
            PROVE  stamp[c] < now' - Window
        <4>1. CASE c \in entries
          BY <2>1, <2>3, <3>1, <4>1
        <4>2. CASE c \notin entries
          BY <2>1, <3>1, <4>2
        <4> QED
          BY <4>1, <4>2
      <3>2. Recorded'
        BY <2>1, <2>2, <3>1
      <3> QED
        BY <2>1, <2>3, <3>2
    <2>4. CASE UNCHANGED <<entries, expiry>>
      BY <2>1, <2>2, <2>4
    <2> QED
      BY <1>1, <2>3, <2>4 DEF Tick
  <1>2. ASSUME NEW c \in Calls, Arrive(c) PROVE IInv'
    BY <1>2 DEF Arrive
  <1>3. ASSUME NEW c \in Calls, Trim(c) PROVE IInv'
    <2>1. /\ step[c] = "trim" /\ step' = [step EXCEPT ![c] = "count"]
          /\ entries' = {d \in entries : stamp[d] >= stamp[c] - Window}
          /\ expiry' = IF entries' = {} THEN None ELSE expiry
          /\ UNCHANGED <<now, stamp>>
      BY <1>3 DEF Trim, Within
    <2>2. TypeOK' /\ Arrived'
      BY <2>1
    <2>3. Recorded'
      BY <2>1
    <2>4. Covered'
      BY <2>1
    <2> QED
      BY <2>2, <2>3, <2>4
  <1>4. ASSUME NEW c \in Calls, Count(c) PROVE IInv'
    BY <1>4 DEF Count
  <1>5. ASSUME NEW c \in Calls, Add(c) PROVE IInv'
    BY <1>5 DEF Add
  <1>6. ASSUME NEW c \in Calls, Expire(c) PROVE IInv'
    BY <1>6 DEF Expire
  <1>7. ASSUME NEW c \in Calls, FailOpen(c) PROVE IInv'
    BY <1>7 DEF FailOpen
  <1>8. CASE UNCHANGED vars
    BY <1>8 DEF vars
  <1> QED
    BY <1>1, <1>2, <1>3, <1>4, <1>5, <1>6, <1>7, <1>8 DEF Next

\* If EXPIRE follows ZADD within a tick, an admitted call is counted for its
\* whole window, however many calls interleave and whatever Redis refuses.
THEOREM AdmittedAreCounted ==
  ASSUME "expire" \in Prompt
  PROVE  Spec => []NoneForgotten
  <1>1. Init => IInv
    BY InitIInv
  <1>2. IInv /\ [Next]_vars => IInv'
    BY StepIInv
  <1>3. IInv => NoneForgotten
    BY DEF IInv, Recorded, NoneForgotten
  <1> QED
    BY <1>1, <1>2, <1>3, PTL DEF Spec

-----------------------------------------------------------------------------
\* What is recorded is finite and let through, whatever the timing.
LEMMA StepMembers ==
  ASSUME TypeOK, Members, [Next]_vars
  PROVE  TypeOK' /\ Members'
  <1> USE DEF TypeOK, Members, Go, Commands, Results
  <1>1. CASE Tick
    <2>1. entries' = {} \/ entries' = entries
      BY <1>1 DEF Tick
    <2>2. IsFiniteSet(entries')
      BY <2>1, FS_EmptySet
    <2> QED
      BY <1>1, <2>1, <2>2 DEF Tick
  <1>2. ASSUME NEW c \in Calls, Arrive(c) PROVE TypeOK' /\ Members'
    BY <1>2 DEF Arrive
  <1>3. ASSUME NEW c \in Calls, Trim(c) PROVE TypeOK' /\ Members'
    <2>1. entries' \in SUBSET entries
      BY <1>3 DEF Trim, Within
    <2>2. IsFiniteSet(entries')
      BY <2>1, FS_Subset
    <2> QED
      BY <1>3, <2>1, <2>2 DEF Trim
  <1>4. ASSUME NEW c \in Calls, Count(c) PROVE TypeOK' /\ Members'
    BY <1>4 DEF Count
  <1>5. ASSUME NEW c \in Calls, Add(c) PROVE TypeOK' /\ Members'
    <2>1. IsFiniteSet(entries')
      BY <1>5, FS_AddElement DEF Add
    <2> QED
      BY <1>5, <2>1 DEF Add
  <1>6. ASSUME NEW c \in Calls, Expire(c) PROVE TypeOK' /\ Members'
    BY <1>6 DEF Expire
  <1>7. ASSUME NEW c \in Calls, FailOpen(c) PROVE TypeOK' /\ Members'
    BY <1>7 DEF FailOpen
  <1>8. CASE UNCHANGED vars
    BY <1>8 DEF vars
  <1> QED
    BY <1>1, <1>2, <1>3, <1>4, <1>5, <1>6, <1>7, <1>8 DEF Next

\* Every variable keeps its type, with any timing and any failures.
THEOREM LimiterTypes == Spec => [](TypeOK /\ Members)
  <1>1. Init => TypeOK /\ Members
    BY FS_EmptySet DEF Init, TypeOK, Members
  <1>2. TypeOK /\ Members /\ [Next]_vars => (TypeOK /\ Members)'
    BY StepMembers
  <1> QED
    BY <1>1, <1>2, PTL DEF Spec

\* If EXPIRE follows ZADD within a tick, no call passes the count while the
\* answered calls of its window alone reach the limit.
THEOREM NoAdmissionWhenFull ==
  ASSUME "expire" \in Prompt
  PROVE  Spec => AdmitsBelowLimit
  <1> DEFINE Standing == {d \in Calls : step[d] = "allowed"
                                        /\ stamp[d] >= now - Window}
  <1>1. ASSUME IInv, Members, NEW c \in Calls,
               Next, step[c] = "count", step'[c] = "add"
        PROVE  Cardinality(Standing) < Max
    <2> USE DEF IInv, TypeOK, Commands, Results
    <2>1. Count(c)
      BY <1>1 DEF Next, Tick, Arrive, Trim, Count, Add, Expire, FailOpen, Go
    <2>2. ~(Cardinality(Within(entries, c)) >= Max)
      BY <1>1, <2>1 DEF Count, Go
    <2>3. /\ IsFiniteSet(Within(entries, c))
          /\ Standing \in SUBSET Within(entries, c)
      <3>1. Within(entries, c) \in SUBSET entries
        BY DEF Within
      <3>2. Standing \in SUBSET Within(entries, c)
        BY <1>1 DEF Within, Arrived, Recorded
      <3> QED
        BY <1>1, <3>1, <3>2, FS_Subset DEF Members
    <2>4. /\ Cardinality(Standing) <= Cardinality(Within(entries, c))
          /\ Cardinality(Standing) \in Nat
          /\ Cardinality(Within(entries, c)) \in Nat
      BY <2>3, FS_Subset, FS_CardinalityType
    <2> HIDE DEF Standing
    <2> QED
      BY <2>2, <2>4
  <1>2. IInv /\ Members /\ [Next]_vars =>
          [\A c \in Calls :
             step[c] = "count" /\ step'[c] = "add" =>
                 Cardinality(Standing) < Max]_vars
    BY <1>1
  <1>3. Init => IInv
    BY InitIInv
  <1>4. IInv /\ [Next]_vars => IInv'
    BY StepIInv
  <1>5. Spec => []Members
    BY LimiterTypes, PTL
  <1> QED
    BY <1>2, <1>3, <1>4, <1>5, PTL DEF Spec, AdmitsBelowLimit

\* The calls that count against call c.
Against(c) == {d \in Calls : step[d] \in {"expire", "allowed", "open"}
                             /\ stamp[d] >= stamp[c] - Window}

\* Of finitely many calls, one is refused only when Max others that were let
\* through stand in its window, with any timing and any failures.
THEOREM RefusedOnlyWhenFull ==
  ASSUME IsFiniteSet(Calls)
  PROVE  Spec => []LimitedOnlyWhenFull
  <1> USE DEF TypeOK, Commands, Results
  <1>1. Init => LimitedOnlyWhenFull
    BY DEF Init, LimitedOnlyWhenFull
  <1>2. ASSUME TypeOK, Members, LimitedOnlyWhenFull, [Next]_vars
        PROVE  LimitedOnlyWhenFull'
    <2>1. \A c \in Calls : step[c] # "idle" =>
             stamp'[c] = stamp[c] /\ step'[c] # "idle"
      BY <1>2 DEF Next, vars, Tick, Arrive, Trim, Count, Add, Expire,
                  FailOpen, Go
    <2>2. \A d \in Calls : step[d] \in {"expire", "allowed", "open"} =>
             step'[d] \in {"expire", "allowed", "open"}
      BY <1>2 DEF Next, vars, Tick, Arrive, Trim, Count, Add, Expire,
                  FailOpen, Go
    <2>3. ASSUME NEW c \in Calls, step'[c] = "limited"
          PROVE  Cardinality(Against(c)') >= Max
      <3>1. /\ IsFiniteSet(Against(c)')
            /\ IsFiniteSet(Against(c))
        BY FS_Subset DEF Against
      <3>2. CASE step[c] = "limited"
        <4>1. Cardinality(Against(c)) >= Max
          BY <1>2, <3>2 DEF LimitedOnlyWhenFull, Against
        <4>2. Against(c) \in SUBSET Against(c)'
          BY <1>2, <2>1, <2>2, <3>2 DEF Against
        <4>3. /\ Cardinality(Against(c)) <= Cardinality(Against(c)')
              /\ Cardinality(Against(c)) \in Nat
              /\ Cardinality(Against(c)') \in Nat
          BY <3>1, <4>2, FS_Subset, FS_CardinalityType
        <4> QED
          BY <4>1, <4>3
      <3>3. CASE step[c] # "limited"
        <4>1. Count(c)
          BY <1>2, <2>3, <3>3 DEF Next, vars, Tick, Arrive, Trim, Count, Add,
                                  Expire, FailOpen, Go
        <4>2. Cardinality(Within(entries, c)) >= Max
          BY <1>2, <2>3, <4>1 DEF Count, Go
        <4>3. Within(entries, c) \in SUBSET Against(c)'
          BY <1>2, <4>1 DEF Within, Against, Members, Count, Go
        <4>4. IsFiniteSet(Within(entries, c))
          BY <3>1, <4>3, FS_Subset
        <4>5. /\ Cardinality(Within(entries, c)) <= Cardinality(Against(c)')
              /\ Cardinality(Within(entries, c)) \in Nat
              /\ Cardinality(Against(c)') \in Nat
          BY <3>1, <4>3, <4>4, FS_Subset, FS_CardinalityType
        <4> QED
          BY <4>2, <4>5
      <3> QED
        BY <3>2, <3>3
    <2> QED
      BY <2>3 DEF LimitedOnlyWhenFull, Against
  <1> QED
    BY <1>1, <1>2, LimiterTypes, PTL DEF Spec

-----------------------------------------------------------------------------
(* How far calls that overlap may go past the limit.                       *)

\* The calls on their way, and those past the count in the window that ends now.
Flying   == {c \in Calls : step[c] \in Commands}
Admitted == {c \in Calls : step[c] \in {"add", "expire", "allowed"}
                           /\ stamp[c] >= now - Window}

OverrunInv ==
    /\ IsFiniteSet(Flying) /\ Cardinality(Flying) <= InFlight
    /\ IsFiniteSet(Admitted)
    /\ Admitted # {} => Cardinality(Admitted) < Max + InFlight

\* The number of calls on their way stays within what the server takes at once.
LEMMA FlyingStep ==
  ASSUME TypeOK, OverrunInv, [Next]_vars
  PROVE  IsFiniteSet(Flying') /\ Cardinality(Flying') <= InFlight
  <1> USE DEF TypeOK, Go, Commands, Results
  <1>1. ASSUME NEW c \in Calls, Arrive(c)
        PROVE  IsFiniteSet(Flying') /\ Cardinality(Flying') <= InFlight
    <2>1. Flying' \in SUBSET (Flying \cup {c})
      BY <1>1 DEF Arrive, Flying
    <2>2. Cardinality(Flying) < InFlight
      BY <1>1 DEF Arrive, Flying
    <2>3. /\ IsFiniteSet(Flying \cup {c}) /\ Cardinality(Flying) \in Nat
          /\ Cardinality(Flying \cup {c}) \in Nat
          /\ Cardinality(Flying \cup {c}) <= Cardinality(Flying) + 1
      <3>1. IsFiniteSet(Flying) /\ Cardinality(Flying) \in Nat
        BY FS_CardinalityType DEF OverrunInv
      <3>2. /\ IsFiniteSet(Flying \cup {c})
            /\ \/ Cardinality(Flying \cup {c}) = Cardinality(Flying)
               \/ Cardinality(Flying \cup {c}) = Cardinality(Flying) + 1
        BY <3>1, FS_AddElement
      <3> QED
        BY <3>1, <3>2
    <2>4. /\ IsFiniteSet(Flying') /\ Cardinality(Flying') \in Nat
          /\ Cardinality(Flying') <= Cardinality(Flying \cup {c})
      BY <2>1, <2>3, FS_Subset, FS_CardinalityType
    <2> QED
      BY <2>2, <2>3, <2>4
  <1>2. ASSUME \A c \in Calls : step'[c] \in Commands => step[c] \in Commands
        PROVE  IsFiniteSet(Flying') /\ Cardinality(Flying') <= InFlight
    <2>1. Flying' \in SUBSET Flying
      BY <1>2 DEF Flying
    <2>2. /\ IsFiniteSet(Flying') /\ Cardinality(Flying') \in Nat
          /\ Cardinality(Flying) \in Nat /\ Cardinality(Flying') <= Cardinality(Flying)
      BY <2>1, FS_Subset, FS_CardinalityType DEF OverrunInv
    <2> QED
      BY <2>2 DEF OverrunInv
  <1>3. \/ \E c \in Calls : Arrive(c)
        \/ \A c \in Calls : step'[c] \in Commands => step[c] \in Commands
    BY DEF Next, vars, Tick, Trim, Count, Add, Expire, FailOpen
  <1> QED
    BY <1>1, <1>2, <1>3

\* The step that admits a call is Count: it found fewer than Max of the admitted
\* calls recorded, and those not recorded yet are on their way.
LEMMA AdmittedStep ==
  ASSUME IInv, Members, OverrunInv, [Next]_vars
  PROVE  /\ IsFiniteSet(Admitted')
         /\ Admitted' # {} => Cardinality(Admitted') < Max + InFlight
  <1> USE DEF IInv, TypeOK, Go, Commands, Results
  <1>1. ASSUME NEW c \in Calls, Count(c), step'[c] = "add"
        PROVE  /\ IsFiniteSet(Admitted')
               /\ Cardinality(Admitted') < Max + InFlight
    <2> DEFINE recorded == Within(entries, c)
    <2>1. Cardinality(recorded) < Max /\ IsFiniteSet(recorded)
          /\ Cardinality(recorded) \in Nat
      <3>1. recorded \in SUBSET entries
        BY DEF Within
      <3>2. IsFiniteSet(recorded)
        BY <3>1, FS_Subset DEF Members
      <3>3. Cardinality(recorded) \in Nat
        BY <3>2, FS_CardinalityType
      <3>4. ~(Cardinality(recorded) >= Max)
        BY <1>1 DEF Count
      <3> QED
        BY <3>2, <3>3, <3>4
    <2>2. Admitted' \in SUBSET (recorded \cup Flying)
      BY <1>1 DEF Admitted, Flying, Within, Count, Arrived, Recorded
    <2>3. /\ IsFiniteSet(recorded \cup Flying)
          /\ Cardinality(recorded \cup Flying) =
                Cardinality(recorded) + Cardinality(Flying)
                  - Cardinality(recorded \cap Flying)
      BY <2>1, FS_Union DEF OverrunInv
    <2>4. /\ Cardinality(recorded \cap Flying) \in Nat
          /\ Cardinality(Flying) \in Nat
          /\ Cardinality(recorded \cup Flying) \in Nat
      BY <2>1, <2>3, FS_Intersection, FS_CardinalityType DEF OverrunInv
    <2>5. /\ IsFiniteSet(Admitted') /\ Cardinality(Admitted') \in Nat
          /\ Cardinality(Admitted') <= Cardinality(recorded \cup Flying)
      BY <2>2, <2>3, FS_Subset, FS_CardinalityType
    <2> HIDE DEF recorded
    <2> QED
      BY <2>1, <2>3, <2>4, <2>5 DEF OverrunInv
  <1>2. ASSUME Admitted' \in SUBSET Admitted
        PROVE  /\ IsFiniteSet(Admitted')
               /\ Admitted' # {} => Cardinality(Admitted') < Max + InFlight
    <2>1. /\ IsFiniteSet(Admitted') /\ Cardinality(Admitted') \in Nat
          /\ Cardinality(Admitted) \in Nat
          /\ Cardinality(Admitted') <= Cardinality(Admitted)
      BY <1>2, FS_Subset, FS_CardinalityType DEF OverrunInv
    <2> QED
      BY <1>2, <2>1 DEF OverrunInv
  <1>3. \/ \E c \in Calls : Count(c) /\ step'[c] = "add"
        \/ Admitted' \in SUBSET Admitted
    <2>1. CASE Tick
      BY <2>1 DEF Tick, Admitted
    <2>2. ASSUME NEW c \in Calls, Count(c), step'[c] # "add"
          PROVE  Admitted' \in SUBSET Admitted
      BY <2>2 DEF Count, Admitted
    <2>3. ASSUME NEW c \in Calls,
                 Arrive(c) \/ Trim(c) \/ Add(c) \/ Expire(c) \/ FailOpen(c)
          PROVE  Admitted' \in SUBSET Admitted
      BY <2>3 DEF Arrive, Trim, Add, Expire, FailOpen, Admitted
    <2>4. CASE UNCHANGED vars
      BY <2>4 DEF vars, Admitted
    <2> QED
      BY <2>1, <2>2, <2>3, <2>4 DEF Next
  <1> QED
    BY <1>1, <1>2, <1>3

\* If EXPIRE follows ZADD within a tick, the calls of one window that were
\* answered "allowed" never outnumber the limit by more than the calls that were
\* on their way together, less one.
THEOREM BoundedOverrun ==
  ASSUME "expire" \in Prompt
  PROVE  Spec => []OverrunBounded
  <1>1. Init => IInv /\ OverrunInv
    <2> SUFFICES ASSUME Init PROVE OverrunInv
      BY InitIInv
    <2>1. Flying = {} /\ Admitted = {}
      BY DEF Init, Flying, Admitted, Commands
    <2> QED
      BY <2>1, FS_EmptySet DEF OverrunInv
  <1>2. IInv /\ Members /\ OverrunInv /\ [Next]_vars => IInv' /\ OverrunInv'
    BY StepIInv, FlyingStep, AdmittedStep DEF IInv, OverrunInv
  <1>3. IInv /\ OverrunInv => OverrunBounded
    <2> SUFFICES ASSUME IInv, OverrunInv,
                 {c \in Calls : step[c] = "allowed" /\ stamp[c] >= now - Window} # {}
          PROVE  Cardinality({c \in Calls : step[c] = "allowed"
                                /\ stamp[c] >= now - Window}) < Max + InFlight
      BY DEF OverrunBounded
    <2> DEFINE answered == {c \in Calls : step[c] = "allowed"
                                          /\ stamp[c] >= now - Window}
    <2>1. answered \in SUBSET Admitted /\ Admitted # {}
      BY DEF Admitted
    <2>2. /\ Cardinality(answered) <= Cardinality(Admitted)
          /\ Cardinality(answered) \in Nat /\ Cardinality(Admitted) \in Nat
      BY <2>1, FS_Subset, FS_CardinalityType DEF OverrunInv
    <2> HIDE DEF answered
    <2>3. Cardinality(answered) < Max + InFlight
      BY <2>1, <2>2 DEF OverrunInv
    <2> QED
      BY <2>3 DEF answered
  <1> QED
    BY <1>1, <1>2, <1>3, LimiterTypes, PTL DEF Spec

-----------------------------------------------------------------------------
(* Every window, also those that ended long ago, if Redis answers promptly. *)

\* The calls past the count that arrived in the window from t on.
Taken(t) == {c \in Calls : step[c] \in {"add", "expire", "allowed"}
                           /\ stamp[c] \in t..(t + Window)}

TakenInv ==
    \A t \in Nat : /\ IsFiniteSet(Taken(t))
                   /\ Taken(t) # {} => Cardinality(Taken(t)) < Max + InFlight

\* A call on its way arrived just now.
InTime == \A c \in Calls : step[c] \in Commands => stamp[c] = now

\* No window gets more than Max calls answered "allowed", but for those that were
\* on their way together with the last one.
EveryWindowBounded ==
    \A t \in Nat :
        LET admitted == {c \in Calls : step[c] = "allowed"
                                       /\ stamp[c] \in t..(t + Window)}
        IN  admitted # {} => Cardinality(admitted) < Max + InFlight

\* Calls that are answered within a tick are on their way at one time.
LEMMA InTimeStep ==
  ASSUME Commands \subseteq Prompt, TypeOK, InTime, [Next]_vars
  PROVE  InTime'
  BY DEF InTime, Commands, TypeOK, Next, vars, Tick, Arrive, Trim, Count, Add,
         Expire, FailOpen, Go

\* A window that ends now or later has only calls of the window that ends now;
\* one that ended before gets no more of them.
LEMMA TakenStep ==
  ASSUME TypeOK, TypeOK', OverrunInv', InTime, TakenInv, [Next]_vars
  PROVE  TakenInv'
  <1> SUFFICES ASSUME NEW t \in Nat
               PROVE  /\ IsFiniteSet(Taken(t)')
                      /\ Taken(t)' # {} => Cardinality(Taken(t)') < Max + InFlight
    BY DEF TakenInv, Taken
  <1>1. ASSUME NEW S, IsFiniteSet(S), S # {} => Cardinality(S) < Max + InFlight,
               Taken(t)' \in SUBSET S
        PROVE  /\ IsFiniteSet(Taken(t)')
               /\ Taken(t)' # {} => Cardinality(Taken(t)') < Max + InFlight
    <2>1. /\ IsFiniteSet(Taken(t)') /\ Cardinality(Taken(t)') \in Nat
          /\ Cardinality(S) \in Nat /\ Cardinality(Taken(t)') <= Cardinality(S)
      BY <1>1, FS_Subset, FS_CardinalityType
    <2>2. Taken(t)' # {} => S # {}
      BY <1>1
    <2> QED
      BY <1>1, <2>1, <2>2
  <1>2. CASE t + Window >= now'
    <2>1. Taken(t)' \in SUBSET Admitted'
      BY <1>2 DEF Taken, Admitted, TypeOK
    <2> QED
      BY <1>1, <2>1 DEF OverrunInv
  <1>3. CASE t + Window < now'
    <2>1. ASSUME NEW c \in Calls, c \in Taken(t)' PROVE c \in Taken(t)
      <3>1. step[c] \in {"add", "expire", "allowed"} => stamp'[c] = stamp[c]
        BY DEF TypeOK, Next, vars, Tick, Arrive, Trim, Count, Add, Expire,
               FailOpen, Go
      <3>2. CASE step[c] \in {"add", "expire", "allowed"}
        BY <2>1, <3>1, <3>2 DEF Taken
      <3>3. CASE step[c] \notin {"add", "expire", "allowed"}
        <4>1. step[c] = "count" /\ now' = now /\ stamp'[c] = stamp[c]
          BY <2>1, <3>3 DEF Taken, TypeOK, Next, vars, Tick, Arrive, Trim, Count,
                            Add, Expire, FailOpen, Go
        <4>2. stamp'[c] = now'
          BY <4>1 DEF InTime, Commands
        <4> QED
          BY <1>3, <2>1, <4>2 DEF Taken, TypeOK
      <3> QED
        BY <3>2, <3>3
    <2>2. Taken(t)' \in SUBSET Taken(t)
      BY <2>1 DEF Taken
    <2> QED
      BY <1>1, <2>2 DEF TakenInv
  <1> QED
    BY <1>2, <1>3 DEF TypeOK

\* The invariant of every window.
LEMMA WindowInvariance ==
  ASSUME Commands \subseteq Prompt
  PROVE  Spec => []TakenInv
  <1>1. "expire" \in Prompt
    BY DEF Commands
  <1>2. Init => TypeOK /\ Members /\ IInv /\ OverrunInv /\ InTime /\ TakenInv
    <2> SUFFICES ASSUME Init
                 PROVE  TypeOK /\ Members /\ IInv /\ OverrunInv /\ InTime /\ TakenInv
      OBVIOUS
    <2>1. Flying = {} /\ Admitted = {} /\ \A t \in Nat : Taken(t) = {}
      BY DEF Init, Flying, Admitted, Taken, Commands
    <2>2. TypeOK /\ Members /\ IInv
      BY InitIInv, FS_EmptySet DEF Init, Members, IInv
    <2>3. InTime
      BY DEF Init, InTime, Commands
    <2> QED
      BY <2>1, <2>2, <2>3, FS_EmptySet DEF OverrunInv, TakenInv
  <1>3. TypeOK /\ Members /\ IInv /\ OverrunInv /\ InTime /\ TakenInv /\ [Next]_vars
          => (TypeOK /\ Members /\ IInv /\ OverrunInv /\ InTime /\ TakenInv)'
    <2> SUFFICES ASSUME TypeOK, Members, IInv, OverrunInv, InTime, TakenInv,
                        [Next]_vars
                 PROVE  (TypeOK /\ Members /\ IInv /\ OverrunInv /\ InTime
                           /\ TakenInv)'
      OBVIOUS
    <2>1. TypeOK' /\ Members' /\ IInv'
      BY <1>1, StepMembers, StepIInv
    <2>2. OverrunInv'
      BY FlyingStep, AdmittedStep DEF OverrunInv
    <2> QED
      BY <2>1, <2>2, InTimeStep, TakenStep
  <1> QED
    BY <1>2, <1>3, PTL DEF Spec

\* If every command is answered within a tick, no window of the past either
\* exceeds the limit by more than the calls that overlapped, whatever fails.
THEOREM BoundedWindows ==
  ASSUME Commands \subseteq Prompt
  PROVE  Spec => []EveryWindowBounded
  <1>1. TakenInv => EveryWindowBounded
    <2> SUFFICES ASSUME TakenInv, NEW t \in Nat,
                        {c \in Calls : step[c] = "allowed"
                                       /\ stamp[c] \in t..(t + Window)} # {}
                 PROVE  Cardinality({c \in Calls : step[c] = "allowed"
                           /\ stamp[c] \in t..(t + Window)}) < Max + InFlight
      BY DEF EveryWindowBounded
    <2> DEFINE admitted == {c \in Calls : step[c] = "allowed"
                                          /\ stamp[c] \in t..(t + Window)}
    <2>1. admitted \in SUBSET Taken(t) /\ Taken(t) # {}
      BY DEF Taken
    <2>2. IsFiniteSet(Taken(t)) /\ Cardinality(Taken(t)) < Max + InFlight
      BY <2>1 DEF TakenInv
    <2> HIDE DEF admitted
    <2>3. Cardinality(admitted) < Max + InFlight
      <3>1. /\ Cardinality(admitted) <= Cardinality(Taken(t))
            /\ Cardinality(admitted) \in Nat /\ Cardinality(Taken(t)) \in Nat
        BY <2>1, <2>2, FS_Subset, FS_CardinalityType
      <3> QED
        BY <2>2, <3>1
    <2> QED
      BY <2>3 DEF admitted
  <1> QED
    BY <1>1, WindowInvariance, PTL
================================================================================

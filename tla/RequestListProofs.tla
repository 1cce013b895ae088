--------------------------- MODULE RequestListProofs ---------------------------
(***************************************************************************)
(* Proofs about RequestList, for any filters and any number of loads.      *)
(* That the page comes to show the rows of its filter is liveness and      *)
(* stays with TLC (Converges, CatchesUp); what is proved is the part that  *)
(* is safety: what it shows was in the table, and once no load of an       *)
(* earlier filter, or with earlier rows, is on its way, none comes back.   *)
(***************************************************************************)
EXTENDS RequestList, TLAPS

USE ListAssumption

\* Every load and what is shown have their types, through any overlap of loads.
LEMMA TypeStep ==
  ASSUME TypeOK, [Next]_vars
  PROVE  TypeOK'
  <1> USE DEF TypeOK, LoadStates, Answers, Versions, Free, Ask
  <1>1. CASE Change
    BY <1>1 DEF Change
  <1>2. ASSUME NEW l \in Loads, NEW f \in Filters, Ask(l, f)
        PROVE  load' \in [Loads -> LoadStates] /\ loading' \in BOOLEAN
               /\ error' \in BOOLEAN
    <2>1. [step |-> "asked", filter |-> f] \in LoadStates
      OBVIOUS
    <2> QED
      BY <1>2, <2>1
  <1> HIDE DEF Ask
  <1>3. CASE Tick
    <2>1. PICK l \in Loads : Ask(l, filter)
      BY <1>3 DEF Tick
    <2> QED
      BY <1>2, <1>3, <2>1 DEF Tick
  <1>4. ASSUME NEW f \in Filters, SetFilter(f) PROVE TypeOK'
    BY <1>2, <1>4 DEF SetFilter
  <1>5. ASSUME NEW l \in Loads, Query(l) PROVE TypeOK'
    <2>1. load[l] \in [step : {"asked"}, filter : Filters]
      BY <1>5 DEF Query
    <2> QED
      BY <1>5, <2>1 DEF Query
  <1>6. ASSUME NEW l \in Loads, Land(l) PROVE TypeOK'
    <2>1. load[l] \in [step : {"answered"}, answer : Answers]
      BY <1>6 DEF Land
    <2> QED
      BY <1>6, <2>1 DEF Land
  <1>7. ASSUME NEW l \in Loads, Fail(l) PROVE TypeOK'
    BY <1>7 DEF Fail
  <1>8. CASE UNCHANGED vars
    BY <1>8 DEF vars
  <1> QED
    BY <1>1, <1>3, <1>4, <1>5, <1>6, <1>7, <1>8 DEF Next

\* The page keeps its types, however many loads overlap and fail
\* (RequestList.tsx:30-46).
THEOREM ListTypes == Spec => []TypeOK
  <1>1. ASSUME Init PROVE TypeOK
    <2>1. Free \in LoadStates /\ [step |-> "asked", filter |-> All] \in LoadStates
      BY DEF LoadStates, Free
    <2>2. load \in [Loads -> LoadStates]
      BY <1>1, <2>1 DEF Init
    <2>3. /\ rows = 0 /\ filter = All /\ shown = Nothing
          /\ loading = TRUE /\ error = FALSE
      BY <1>1 DEF Init
    <2>4. rows \in Versions
      BY <2>3 DEF Versions
    <2> QED
      BY <2>2, <2>3, <2>4 DEF TypeOK
  <1> QED
    BY <1>1, TypeStep, PTL DEF Spec

-----------------------------------------------------------------------------
\* No answer, on its way or shown, is of a table that was not there yet.
PastRows ==
    /\ shown # Nothing => shown.version <= rows
    /\ \A l \in Loads :
          load[l].step = "answered" => load[l].answer.version <= rows

\* Rows are read when the query runs, and the table only moves on: the page
\* shows a state the table was in (RequestList.tsx:34-37).
THEOREM ShowsThePast == Spec => []PastRows
  <1> USE DEF TypeOK, LoadStates, Answers, Versions, Free, Nothing, PastRows
  <1>1. Init => PastRows
    BY DEF Init
  <1>2. TypeOK /\ PastRows /\ [Next]_vars => PastRows'
    <2> SUFFICES ASSUME TypeOK, PastRows, [Next]_vars PROVE PastRows'
      OBVIOUS
    <2>1. CASE Change
      BY <2>1 DEF Change
    <2>2. ASSUME NEW f \in Filters, Tick \/ SetFilter(f) PROVE PastRows'
      BY <2>2 DEF Tick, SetFilter, Ask
    <2>3. ASSUME NEW l \in Loads, Query(l) PROVE PastRows'
      BY <2>3 DEF Query
    <2>4. ASSUME NEW l \in Loads, Land(l) PROVE PastRows'
      BY <2>4 DEF Land
    <2>5. ASSUME NEW l \in Loads, Fail(l) PROVE PastRows'
      BY <2>5 DEF Fail
    <2>6. CASE UNCHANGED vars
      BY <2>6 DEF vars
    <2> QED
      BY <2>1, <2>2, <2>3, <2>4, <2>5, <2>6 DEF Next
  <1> QED
    BY <1>1, <1>2, ListTypes, PTL DEF Spec

-----------------------------------------------------------------------------
\* Once the loads made for earlier filters are gone, the page stays with the
\* rows of its filter until another is chosen: the half of Converges that is
\* safety.
THEOREM FilterStays == Spec => StaysWithFilter
  <1>1. ASSUME TypeOK, [Next]_vars, FilterSettled, filter' = filter
        PROVE  FilterSettled'
    <2> USE <1>1 DEF TypeOK, LoadStates, Answers, Free, FilterSettled
    <2>1. CASE Change
      BY <2>1 DEF Change
    <2>2. CASE Tick
      BY <2>2 DEF Tick, Ask
    <2>3. ASSUME NEW f \in Filters, SetFilter(f) PROVE FilterSettled'
      BY <2>3 DEF SetFilter
    <2>4. ASSUME NEW l \in Loads, Query(l) PROVE FilterSettled'
      BY <2>4 DEF Query
    <2>5. ASSUME NEW l \in Loads, Land(l) PROVE FilterSettled'
      <3>1. load[l].answer \in Answers /\ load[l].answer.filter = filter
        BY <2>5 DEF Land
      <3>2. load[l].answer # Nothing
        BY <3>1 DEF Nothing
      <3> QED
        BY <2>5, <3>1, <3>2 DEF Land
    <2>6. ASSUME NEW l \in Loads, Fail(l) PROVE FilterSettled'
      BY <2>6 DEF Fail
    <2>7. CASE UNCHANGED vars
      BY <2>7 DEF vars
    <2> QED
      BY <2>1, <2>2, <2>3, <2>4, <2>5, <2>6, <2>7 DEF Next
  <1> QED
    BY <1>1, ListTypes, PTL DEF Spec, StaysWithFilter

\* Once no answer with earlier rows is on its way, the page stays as new as the
\* table until the table changes: the half of CatchesUp that is safety.
THEOREM RowsStay == Spec => StaysWithRows
  <1>1. ASSUME TypeOK, [Next]_vars, RowsSettled, rows' = rows
        PROVE  RowsSettled'
    <2> USE <1>1 DEF TypeOK, LoadStates, Answers, Versions, Free, RowsSettled
    <2>1. CASE Change
      BY <2>1 DEF Change
    <2>2. ASSUME NEW f \in Filters, Tick \/ SetFilter(f) PROVE RowsSettled'
      BY <2>2 DEF Tick, SetFilter, Ask
    <2>3. ASSUME NEW l \in Loads, Query(l) PROVE RowsSettled'
      BY <2>3 DEF Query
    <2>4. ASSUME NEW l \in Loads, Land(l) PROVE RowsSettled'
      <3>1. load[l].answer \in Answers /\ load[l].answer.version = rows
        BY <2>4 DEF Land
      <3>2. load[l].answer # Nothing
        BY <3>1 DEF Nothing
      <3> QED
        BY <2>4, <3>1, <3>2 DEF Land
    <2>5. ASSUME NEW l \in Loads, Fail(l) PROVE RowsSettled'
      BY <2>5 DEF Fail
    <2>6. CASE UNCHANGED vars
      BY <2>6 DEF vars
    <2> QED
      BY <2>1, <2>2, <2>3, <2>4, <2>5, <2>6 DEF Next
  <1> QED
    BY <1>1, ListTypes, PTL DEF Spec, StaysWithRows
================================================================================

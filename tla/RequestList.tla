------------------------------ MODULE RequestList ------------------------------
(***************************************************************************)
(* The request list of the dashboard (components/RequestList.tsx) and the  *)
(* query that feeds it (GET /v1/requests, routes/requests.ts).  The page   *)
(* asks again whenever the filter changes and every five seconds, without  *)
(* waiting for, or cancelling, what it asked before; whichever answer      *)
(* comes last is shown.                                                    *)
(***************************************************************************)
EXTENDS Naturals

CONSTANTS
    Filters,     \* the values of the filter buttons
    All,         \* the one the page starts with: no condition on the status
    Loads,       \* (bound) loads that may be on their way at once
    MaxChanges   \* (bound) how often rows of the tenant change

ASSUME ListAssumption ==
    /\ All \in Filters /\ Loads # {}
    /\ MaxChanges \in Nat

VARIABLES
    rows,     \* gateway_requests, seen as the number of its changes
    filter,   \* the filter chosen
    load,     \* the loads on their way
    shown,    \* the answer whose rows are shown
    loading, error

vars == <<rows, filter, load, shown, loading, error>>

Versions == 0..MaxChanges

\* The rows that matched a filter when the table was at a version.
Answers == [filter : Filters, version : Versions]

\* A load is answered with the table as its query finds it.
LoadStates ==
    [step : {"free"}] \cup [step : {"asked"}, filter : Filters]
    \cup [step : {"answered"}, answer : Answers]

Free == [step |-> "free"]

Nothing == [filter |-> "none"]

TypeOK ==
    /\ rows \in Versions
    /\ filter \in Filters
    /\ load \in [Loads -> LoadStates]
    /\ shown \in Answers \cup {Nothing}
    /\ loading \in BOOLEAN /\ error \in BOOLEAN

-----------------------------------------------------------------------------
\* load(): the filter is the one the callback was made for.
Ask(l, f) ==
    /\ load[l] = Free
    /\ load' = [load EXCEPT ![l] = [step |-> "asked", filter |-> f]]
    /\ loading' = TRUE
    /\ error' = FALSE

\* The page is mounted, and its first effect loads everything.
Init ==
    /\ rows = 0
    /\ filter = All
    /\ \E l \in Loads :
          load = [m \in Loads |->
                    IF m = l THEN [step |-> "asked", filter |-> All] ELSE Free]
    /\ shown = Nothing
    /\ loading = TRUE
    /\ error = FALSE

\* Handlers of the gateway insert or update a row.
Change ==
    /\ rows < MaxChanges
    /\ rows' = rows + 1
    /\ UNCHANGED <<filter, load, shown, loading, error>>

\* A click on another filter renders the page anew: its effects load with the
\* new filter and start a new interval.  Loads on their way stay.
SetFilter(f) ==
    /\ f # filter
    /\ filter' = f
    /\ \E l \in Loads : Ask(l, f)
    /\ UNCHANGED <<rows, shown>>

\* (mutant) the interval keeps the callback of the first rendering
TickFirstFilter ==
    /\ \E l \in Loads : Ask(l, All)
    /\ UNCHANGED <<rows, filter, shown>>

\* (mutant) the page stops refreshing once a load has failed
TickUnlessError ==
    /\ ~error
    /\ \E l \in Loads : Ask(l, filter)
    /\ UNCHANGED <<rows, filter, shown>>

\* The interval fires, whatever is on its way.
Tick ==
    /\ \E l \in Loads : Ask(l, filter)
    /\ UNCHANGED <<rows, filter, shown>>

\* (mutant) the answer does not say which filter it was made for
QueryUnfiltered(l) ==
    /\ load[l].step = "asked"
    /\ load' = [load EXCEPT ![l] =
          [step |-> "answered", answer |-> [filter |-> "none",
                                            version |-> rows]]]
    /\ UNCHANGED <<rows, filter, shown, loading, error>>

\* (mutant) the query is answered by a copy of the table that lags behind
QueryLagging(l) ==
    /\ load[l].step = "asked"
    /\ \E v \in 0..rows : load' = [load EXCEPT ![l] =
          [step |-> "answered",
           answer |-> [filter |-> load[l].filter, version |-> v]]]
    /\ UNCHANGED <<rows, filter, shown, loading, error>>

\* GET /v1/requests runs its one statement.
Query(l) ==
    /\ load[l].step = "asked"
    /\ load' = [load EXCEPT ![l] =
          [step |-> "answered",
           answer |-> [filter |-> load[l].filter, version |-> rows]]]
    /\ UNCHANGED <<rows, filter, shown, loading, error>>

\* The answer arrives and its rows are shown, whatever the filter is by now.
Land(l) ==
    /\ load[l].step = "answered"
    /\ load' = [load EXCEPT ![l] = Free]
    /\ shown' = load[l].answer
    /\ loading' = FALSE
    /\ UNCHANGED <<rows, filter, error>>

\* apiFetch throws: the request or its answer is lost, or the answer is not
\* ok.  The rows shown stay.
Fail(l) ==
    /\ load[l] # Free
    /\ load' = [load EXCEPT ![l] = Free]
    /\ error' = TRUE
    /\ loading' = FALSE
    /\ UNCHANGED <<rows, filter, shown>>

Next ==
    \/ Change \/ Tick
    \/ \E f \in Filters : SetFilter(f)
    \/ \E l \in Loads : Query(l) \/ Land(l) \/ Fail(l)

Spec == Init /\ [][Next]_vars

\* The browser fires the interval as long as the page is open, every load comes
\* to an end, and not every one of them fails for ever.
Fairness ==
    /\ WF_vars(Tick)
    /\ \A l \in Loads : SF_vars(Query(l)) /\ SF_vars(Land(l))

FairSpec == Spec /\ Fairness

-----------------------------------------------------------------------------
\* The rows shown, and those any load is to bring, are of the filter chosen.
FilterSettled ==
    /\ shown # Nothing /\ shown.filter = filter
    /\ \A l \in Loads :
          /\ load[l].step = "asked" => load[l].filter = filter
          /\ load[l].step = "answered" => load[l].answer.filter = filter

\* They are as new as the table.
RowsSettled ==
    /\ shown # Nothing /\ shown.version = rows
    /\ \A l \in Loads :
          load[l].step = "answered" => load[l].answer.version = rows

\* Only a new choice of filter lets rows of another filter in: a refresh, a
\* failure or answers out of order do not (RequestList.tsx:48-55).
StaysWithFilter == [][FilterSettled /\ filter' = filter => FilterSettled']_vars

\* Only a change of the table makes the rows shown old again.
StaysWithRows == [][RowsSettled /\ rows' = rows => RowsSettled']_vars

\* Answers come in any order, so the rows of an earlier filter may replace those
\* of the filter chosen (RequestList.tsx:36).  That does not last: once the
\* filter stays, the page comes to show rows of that filter and to stay with
\* them, whatever was on its way and whatever failed.
Converges ==
    \A f \in Filters :
        <>[](filter = f) => <>[](shown # Nothing /\ shown.filter = f)

\* However the operator goes on switching filters, the page does not stay
\* behind the table: what it shows comes to be, and to remain, as new as the
\* last change ("auto-refresh 5s", RequestList.tsx:77).
CatchesUp ==
    \A v \in Versions :
        <>[](rows = v) => <>[](shown # Nothing /\ shown.version = v)
===============================================================================

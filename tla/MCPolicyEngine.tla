---------------------------- MODULE MCPolicyEngine ----------------------------
(* PolicyEngine on tables of at most three policies, for TLC.                *)
EXTENDS PolicyEngine

CONSTANTS t1, t2, x, y, a1, a2, s1

\* A policy of tenant t1 for tool x, enabled and without gates, and the calls
\* it applies to.
Plain(d, n) ==
    [tenant |-> t1, tool |-> x, enabled |-> TRUE, decision |-> d,
     priority |-> n, scope |-> None, allowed |-> {}, blocked |-> {},
     max |-> None]

Gated(p) == {[p EXCEPT !.scope = s1], [p EXCEPT !.max = 10],
             [p EXCEPT !.scope = s1, !.max = 10]}

Listed(p) == {[p EXCEPT !.allowed = {a1}], [p EXCEPT !.allowed = {a2}],
              [p EXCEPT !.allowed = {a1, a2}, !.blocked = {a1}],
              [p EXCEPT !.blocked = {a2}]}

Elsewhere(p) == {[p EXCEPT !.tenant = t2], [p EXCEPT !.tool = y],
                 [p EXCEPT !.enabled = FALSE]}

\* Every decision at two priorities, with and without scope and maximum; the
\* lists and the policies that are not for this call at one priority each.
Policies ==
    LET plain == {Plain(d, n) : d \in Decisions, n \in {10, 20}}
    IN  plain \cup UNION {Gated(p) : p \in plain}
              \cup Listed(Plain("allow", 10)) \cup Listed(Plain("deny", 30))
              \cup Elsewhere(Plain("allow", 40))

MCTables == {{}} \cup {{p, q, w} : p, q, w \in Policies}

\* An amount within and above the maximum, in the first field or a later one,
\* not given, not a number, and one that shadows another.
Args == LET none == [i \in AmountFields |-> Absent]
        IN  {none, [none EXCEPT ![1] = 10], [none EXCEPT ![1] = 11],
             [none EXCEPT ![4] = 11], [none EXCEPT ![2] = NotNumeric],
             [none EXCEPT ![1] = NotNumeric, ![2] = 11],
             [none EXCEPT ![2] = 5, ![3] = 11]}

MCCalls == [tenant : {t1}, tool : {x}, agent : {a1}, scopes : {{}, {s1}},
            args : Args]
===============================================================================

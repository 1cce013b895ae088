---------------------------- MODULE PolicyDecision ----------------------------
(***************************************************************************)
(* What PolicyEvaluator.evaluate answers, without saying how: the module   *)
(* PolicyEngine is shown to answer so, and GovernedGateway takes its       *)
(* answers from here.                                                      *)
(***************************************************************************)
EXTENDS Integers

\* The decision d may be given when rows are the policies that apply to a call:
\* that of one with the highest priority, or deny if there is none.  Of rows of
\* equal priority any may come first.
Decides(rows, d) ==
    \/ rows = {} /\ d = "deny"
    \/ \E p \in rows : /\ p.decision = d
                       /\ \A q \in rows : q.priority <= p.priority
===============================================================================

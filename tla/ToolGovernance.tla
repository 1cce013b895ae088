---------------------------- MODULE ToolGovernance ----------------------------
(***************************************************************************)
(* What the gateway promises of a tool call, without saying how: a call is *)
(* proposed, a policy allows, refuses or holds it, an operator approves or *)
(* refuses a held one, and it runs at most once, after it was authorised.  *)
(* An approved call whose attempt comes to nothing may be held again.      *)
(***************************************************************************)
CONSTANTS Requests, Handlers

VARIABLES
    call,   \* where each request stands
    ranBy   \* the handlers that completed its tool call

States == {"proposed", "allowed", "held", "approved", "refused", "run"}

Init ==
    /\ call = [r \in Requests |-> "proposed"]
    /\ ranBy = [r \in Requests |-> {}]

Move(r, from, to) ==
    /\ call[r] \in from
    /\ call' = [call EXCEPT ![r] = to]

\* The policy decides, once.
Decide(r) ==
    /\ \E to \in {"allowed", "held", "refused"} : Move(r, {"proposed"}, to)
    /\ UNCHANGED ranBy

\* An operator resolves a held call.
Resolve(r) ==
    /\ \E to \in {"approved", "refused"} : Move(r, {"held"}, to)
    /\ UNCHANGED ranBy

\* The approval is taken back before the call ran.
Reopen(r) == Move(r, {"approved"}, "held") /\ UNCHANGED ranBy

\* The tool runs, for exactly one handler.
Run(r, h) ==
    /\ Move(r, {"allowed", "approved"}, "run")
    /\ ranBy' = [ranBy EXCEPT ![r] = {h}]

Next == \E r \in Requests :
            \/ Decide(r) \/ Resolve(r) \/ Reopen(r)
            \/ \E h \in Handlers : Run(r, h)

Spec == Init /\ [][Next]_<<call, ranBy>>
===============================================================================

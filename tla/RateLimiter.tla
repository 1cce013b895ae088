----------------------------- MODULE RateLimiter -----------------------------
(***************************************************************************)
(* checkRateLimit (services/rate-limiter.ts): the calls of one tenant over *)
(* the sorted set Redis keeps for it.  Each Redis command is awaited, so   *)
(* calls interleave between any two commands, and the clock may tick.      *)
(***************************************************************************)
EXTENDS Integers, FiniteSets

CONSTANTS
    Calls,
    Window, Max,  \* windowMs, in ticks of the clock, and the calls it admits
    Ttl,          \* what EXPIRE is given: the window rounded up to seconds
    InFlight,     \* how many calls may be on their way at once
    MaxTime,      \* (bound) where the clock stops
    Wired,        \* whether the server was given a Redis client
    MayFail,      \* whether a command may be rejected
    Prompt,       \* (bound) the commands that are answered within a tick
    None          \* the key has no expiry

ASSUME LimiterAssumption ==
    /\ Window \in Nat /\ Ttl \in Nat /\ Window <= Ttl
    /\ Max \in Nat /\ InFlight \in Nat /\ MaxTime \in Nat
    /\ Wired \in BOOLEAN /\ MayFail \in BOOLEAN
    /\ None \notin Int

VARIABLES
    now,      \* Date.now(), the same on every replica
    step,     \* per call, the command it awaits next, or its result
    stamp,    \* per call, the clock when it arrived
    entries,  \* the members of the sorted set, named by call; scored by stamp
    expiry    \* when Redis drops the key

vars == <<now, step, stamp, entries, expiry>>

Commands == {"trim", "count", "add", "expire"}

\* "open" is the answer "allowed" without the limiter having its say.
Results == {"allowed", "limited", "open"}

TypeOK ==
    /\ now \in Nat
    /\ step \in [Calls -> {"idle"} \cup Commands \cup Results]
    /\ stamp \in [Calls -> Nat]
    /\ entries \subseteq Calls
    /\ expiry \in Nat \cup {None}

Init ==
    /\ now = 0
    /\ step = [c \in Calls |-> "idle"]
    /\ stamp = [c \in Calls |-> 0]
    /\ entries = {}
    /\ expiry = None

Go(c, from, to) ==
    /\ step[c] = from
    /\ step' = [step EXCEPT ![c] = to]

\* The calls recorded at or after the start of the window of call c; the
\* count has no upper end.
Within(S, c) == {d \in S : stamp[d] >= stamp[c] - Window}

\* Redis drops a key once the clock is past its expiry, and one left empty.
Tick ==
    /\ now < MaxTime
    /\ \A c \in Calls : step[c] \notin Prompt
    /\ now' = now + 1
    /\ \/ expiry # None /\ now' > expiry /\ entries' = {} /\ expiry' = None
       \/ (expiry # None => now' <= expiry) /\ UNCHANGED <<entries, expiry>>
    /\ UNCHANGED <<step, stamp>>

\* The call arrives and reads the clock; without a client it is let through.
Arrive(c) ==
    /\ Cardinality({d \in Calls : step[d] \in Commands}) < InFlight
    /\ Go(c, "idle", IF Wired THEN "trim" ELSE "open")
    /\ stamp' = [stamp EXCEPT ![c] = now]
    /\ UNCHANGED <<now, entries, expiry>>

\* (mutant) the trim also takes the call at the start of the window
TrimTooMuch(c) ==
    /\ Go(c, "trim", "count")
    /\ entries' = {d \in entries : stamp[d] > stamp[c] - Window}
    /\ expiry' = IF entries' = {} THEN None ELSE expiry
    /\ UNCHANGED <<now, stamp>>

Trim(c) ==
    /\ Go(c, "trim", "count")
    /\ entries' = Within(entries, c)
    /\ expiry' = IF entries' = {} THEN None ELSE expiry
    /\ UNCHANGED <<now, stamp>>

\* (mutant) a call is recorded whether or not it is let through
CountRecorded(c) ==
    /\ Go(c, "count", IF Cardinality(Within(entries, c)) >= Max
                      THEN "limited" ELSE "add")
    /\ entries' = entries \cup {c}
    /\ UNCHANGED <<now, stamp, expiry>>

\* (mutant) the limit is tested with > instead of >=
CountPastLimit(c) ==
    /\ Go(c, "count", IF Cardinality(Within(entries, c)) > Max
                      THEN "limited" ELSE "add")
    /\ UNCHANGED <<now, stamp, entries, expiry>>

Count(c) ==
    /\ Go(c, "count", IF Cardinality(Within(entries, c)) >= Max
                      THEN "limited" ELSE "add")
    /\ UNCHANGED <<now, stamp, entries, expiry>>

Add(c) ==
    /\ Go(c, "add", "expire")
    /\ entries' = entries \cup {c}
    /\ UNCHANGED <<now, stamp, expiry>>

\* EXPIRE does nothing to a key that is not there.
Expire(c) ==
    /\ Go(c, "expire", "allowed")
    /\ expiry' = IF entries = {} THEN None ELSE now + Ttl
    /\ UNCHANGED <<now, stamp, entries>>

\* (mutant) the error is passed on to the caller
FailPropagated(c) ==
    /\ MayFail /\ step[c] \in Commands
    /\ step' = [step EXCEPT ![c] = "failed"]
    /\ UNCHANGED <<now, stamp, entries, expiry>>

\* The catch branch: the call is let through.  What it recorded stays.
FailOpen(c) ==
    /\ MayFail /\ step[c] \in Commands
    /\ step' = [step EXCEPT ![c] = "open"]
    /\ UNCHANGED <<now, stamp, entries, expiry>>

Next ==
    \/ Tick
    \/ \E c \in Calls : \/ Arrive(c) \/ Trim(c) \/ Count(c) \/ Add(c)
                        \/ Expire(c) \/ FailOpen(c)

Spec == Init /\ [][Next]_vars

-----------------------------------------------------------------------------
\* No call is let past the count while Max calls that were answered "allowed"
\* stand in the window that ends now: overruns come only from calls that are
\* still between their count and their answer (rate-limiter.ts:64).
AdmitsBelowLimit ==
    [][\A c \in Calls :
          step[c] = "count" /\ step'[c] = "add" =>
              Cardinality({d \in Calls : step[d] = "allowed"
                                         /\ stamp[d] >= now - Window}) < Max]_vars

\* Calls that overlap may pass the count together, but no further than that: of
\* the calls of the window that ends now, at most one less than Max were there
\* to be counted, and the others were on their way at once.
OverrunBounded ==
    LET admitted == {c \in Calls : step[c] = "allowed" /\ stamp[c] >= now - Window}
    IN  admitted # {} => Cardinality(admitted) < Max + InFlight

\* A call is refused only when Max calls that were let through stand in its
\* window or after it: calls that were refused themselves do not hold it back,
\* so a caller that waits for a window is served again.
LimitedOnlyWhenFull ==
    \A c \in Calls : step[c] = "limited" =>
        Cardinality({d \in Calls : step[d] \in {"expire", "allowed", "open"}
                                   /\ stamp[d] >= stamp[c] - Window}) >= Max

\* A call that was admitted is there to be counted for a whole window: neither
\* the trim of a later call nor the expiry of the key takes it too early
\* (rate-limiter.ts:8, "counts members within [now - windowMs, now]").  It holds
\* as long as EXPIRE follows ZADD within a tick.
NoneForgotten ==
    \A c \in Calls :
        step[c] = "allowed" /\ stamp[c] >= now - Window => c \in entries

-----------------------------------------------------------------------------
\* README.md:68 promises a "Redis sliding-window" limit: as long as Redis
\* answers, no window lets more than Max calls through.
LimitEnforced ==
    \A t \in 0..now :
        Cardinality({c \in Calls : step[c] \in {"allowed", "open"}
                                  /\ stamp[c] \in t..(t + Window)}) <= Max
==============================================================================

# Verification of policy-governed-ai-gateway

TLA+ models of the gateway's control plane, checked with TLC and proved with
TLAPS. Paths are relative to the repository root; `gateway.ts`, `approvals.ts`
and so on stand for `apps/api/src/routes/...`, `RequestList.tsx` and
`RequestDetail.tsx` for `apps/web/src/components/...`.

## The system

An agent asks the gateway to run a tool (`POST /v1/gateway/invoke`). The gateway
authenticates the tenant, limits its rate, looks up the agent, inserts a request
row, evaluates the tenant's policies, records the decision and then denies the
call, runs the tool, or holds the call until an operator approves or denies it
(`POST /v1/approvals/:id/approve`, `/deny`). Operators add policies
(`POST /v1/policies`) and watch and resolve requests in a dashboard. The API runs
as several replicas over one Postgres; handlers are async functions, and every
statement they await commits by itself: no code opens a transaction.

| component | state | operations | what makes it correct | hard behaviour |
|---|---|---|---|---|
| invoke handler (`gateway.ts`) | its control point, the tenant, `evalResult` | one call, 16 awaited statements on four paths | a tool runs only on a recorded decision; replies and rows are true; every call is settled | failure after any statement; an operator acting before the hold is complete |
| approval handlers (`approvals.ts`) | control point, approval id, caller's tenant | approve (claim, run, settle or roll back), deny | one execution, denial final, tenants isolated | approve/approve and approve/deny races, rollback and retry, crash after the claim |
| tables (`db/schema.ts`) | request status, decision, approval, cost, audit rows | unconditional and conditional updates, inserts | rows agree with each other and with what ran | updates of several handlers in any order |
| policy engine (`packages/policy-engine`) | local state of one evaluation | `evaluate`, `checkConditions`, `extractAmount` | highest applicable policy decides; gaps deny | ties, gates by decision, unreadable amounts |
| policy routes (`policies.ts`) | policies | list, insert and re-read | a policy that was acknowledged decides every later call | inserts while calls are decided and held; inserted but answered 500 |
| rate limiter (`services/rate-limiter.ts`) | a sorted set in Redis, with an expiry | trim, count, add, expire; fail open | no admission when the window is full; nobody refused without reason | check-then-act, stale clocks, expiry, half-done calls |
| read routes (`requests.ts`, `audit.ts`) | - | list, detail, audit log | a detail whose parts agree | five statements, no snapshot |
| dashboard (`apps/web`) | rows shown, filter, detail shown, loading, error | poll, filter, load, approve, deny | what is shown is of the filter, new and consistent; what is held can be resolved | answers out of order or lost, stale buttons |
| metrics (`metrics.ts`) | counters of a process | increment, observe, render | they agree with what was done and recorded | several replicas, a crash between act and count |
| tool executor, authentication, server | - | `executeTool`, `authenticate`, error handler | (parts of the handlers above) | a tool that throws, a statement that is rejected, a replica that dies |
| cost estimator, logging, tracing, migration, seed, in-memory database, deployment | data and formatting | - | - | none that a model would show |

Interaction: the invoke handler calls the limiter, the evaluator, the executor and
the database; it shares approvals and request rows with the approval handlers,
which call the executor again later, and the policies with the policy handlers.
All count in the metrics of their replica. The dashboard polls the list, reads the
detail and calls the approval handlers.

## Modules

| module | models | role |
|---|---|---|
| `Gateway` | `gateway.ts`, `approvals.ts`, with `auth.ts`, `tool-executor.ts`, the error handler and the schema as far as they use them | the detailed specification and its properties |
| `ToolGovernance` | - | the abstract promise: decide once, resolve only what is held, run at most once and only when authorised |
| `GatewayInvariant` | - | the inductive invariant of `Gateway` |
| `GatewayImplements` | - | refinement mapping from `Gateway` to `ToolGovernance` |
| `GovernedGateway` | `policies.ts`, and the query of the policies in `gateway.ts` | `Gateway` composed with handlers that add policies |
| `RequestDetail` | `RequestDetail.tsx`, `GET /v1/requests/:id`, `client.ts` | `Gateway` composed with the pages that read and resolve its requests |
| `GatewayMetrics` | `metrics.ts` and its calls | `Gateway` on replicas that count and die |
| `RequestList` | `RequestList.tsx`, `GET /v1/requests` | the polling list |
| `PolicyEngine` | `evaluator.ts` and the query that feeds it | one evaluation |
| `PolicyDecision` | the answer of `evaluate` | what `PolicyEngine` is shown to answer and `GovernedGateway` uses |
| `RateLimiter` | `rate-limiter.ts` | concurrent calls over one Redis key |
| `GatewayProofs`, `GatewayImplementsProofs`, `GovernedGatewayProofs`, `RequestDetailProofs`, `GatewayMetricsProofs`, `PolicyEngineProofs`, `RateLimiterProofs`, `RequestListProofs` | - | TLAPS proofs |
| `MC...` | - | small instances for TLC |

**Gateway.** `invoke[r]` and `resolve[h]` hold, for each call, the statement its
handler awaits next (`"claim"`, `"settleCost"`, ...) or its reply (`"granted200"`,
`"conflict409"`, ...). An action is one statement together with the synchronous
code after it. `status`, `decision`, `approval`, `costEvents` and `auditLogs` are the
tables; `executions` is a history variable of the `executeTool` calls that returned,
which the program does not store. A request has at most one approval (unique index
in the schema), so `:id` is written as the request. Two different updates are kept
apart: `SetStatus` is the unconditional one of `gateway_requests`, `FlipPending` the
`WHERE status = 'pending'` one of `approvals`. `Claim` looks at the number of rows
changed, `Flip` (deny) does not, `Rollback` has no condition: as in the code.
`FailInvoke` and `FailResolve` end a handler at any statement. The mock executor
always returns, with `success: false` for a tool that failed, which neither caller
looks at; so `ToolReturns` is one outcome, and an execution is a call of the executor
that returned, whatever became of the tool. That `executeTool` may throw is what the
catch branches of both callers are written for, and the models take them at their word. The rate limiter
and the evaluator appear as choices of their possible answers; `RateLimiter`,
`PolicyEngine` and `GovernedGateway` say which answer is given. Logs, latencies and
payloads are left out: nothing reads them back.

**GovernedGateway.** A policy is inserted, read again and answered 201, each a
statement that may fail. A body is what the evaluator's result depends on: its
priority, its decision, and the calls it applies to (enabled, tool and gates).
`EvaluateGoverned` is the one query of the table with the evaluation after it:
`MayDecide` is `PolicyDecision`'s `Decides` over the applicable rows: the decision of
one of the highest priority, or deny. That the evaluator answers just so is a property of
`PolicyEngine` (`AnswersAsDecided`), checked and proved there, so the composition takes
nothing of it on trust. `inForce` remembers for each call the policies that
had been answered 201 when it arrived. Policies cannot be changed or removed: the API
has no such route.

**RequestDetail.** A page's load is the five reads of the detail, one action each;
what it read becomes `data` at once. `Offers` is the condition of the buttons. `Click`
is the call of the button together with the first read of the handler it reaches;
before that read the call has no effect. Approve and deny calls of API clients without
a page, before the hold is complete too, are steps of `Gateway` beside them. A click is answered, or its answer is lost
while the handler goes on; every loss ends in an alert or, for a load, in an error
text that nothing clears but leaving the page.

**RequestList.** The table is seen as the number of its changes, an answer as the
filter and the version it is for. `SetFilter` replaces the callback of the interval,
as the two effects do; loads that are on their way stay and land on whatever the
filter is then.

**GatewayMetrics.** Each action of `Gateway` with the counters its handler raises in the
same synchronous stretch. A call is sent to one replica; `Crash` ends all handlers of
one and zeroes its counters. `RejectStatement` is a failure of a statement alone. The
limiter's counter of Redis errors (`rate-limiter.ts:82`) is left out: no row could back
it.

**PolicyEngine.** `Load` is the query, the filter and the sort. The query has no
`ORDER BY`, so rows of equal priority may stand in any order and `Load` chooses one.
`Reject`, `Fire` and `Default` are the loop. The four gates and `ExtractAmount` are
operators. Strings of `toolArgs` are numbers, unreadable values or absent.

**RateLimiter.** One Redis command per action; the calls of one tenant, since keys of
tenants are independent. The clock ticks between any two commands that are not in
`Prompt`. Redis itself (scores, expiry once the clock is past it, an empty key
disappearing) is modelled from its use.

## Runs

| run | shows | bounds |
|---|---|---|
| `gateway_faults` | authority, at most once, truthful rows and replies but for a lost deny, the approval protocol, nothing stranded but by a failure | 2 requests, 3 resolvers, 2 tenants, tools that return and throw, failures anywhere |
| `governed_policies` | decisions are of a fresh table, blocks stop calls, `Inv`, `Implements` | 1 request, 2 resolvers, 2 policies, 2 tenants, failures |
| `request_pages` | a consistent detail, buttons where they are needed, liveness of pages, calls and approvals | 1 request, 2 resolvers, 1 page, 2 tenants, a tool that throws, answers that are lost |
| `metrics_replicas` | counters against audit rows and executions, their inductive invariant, `Inv` under crashes | 2 requests, 2 resolvers, 2 replicas, failures |
| `list_polling` | the list comes to show the filter chosen and the newest rows, and does not fall back | 2 filters, 3 loads on their way, 2 changes of the table |
| `policy_outcome` | the outcome of an evaluation, and that it is what `GovernedGateway` assumes | every table of up to 3 of 35 policies, 14 calls |
| `limiter_overlap` | refusals justified, admitted calls counted, none admitted past the answered ones, overruns bounded | 4 calls, 3 in flight, window 2, 5 ticks, failures |
| `gateway_denyrace`, `gateway_heldlate`, `governed_emergency`, `policy_highamount`, `limiter_unwired` | findings, below | the smallest instance that shows each |

Why the bounds suffice: a handler touches one request, so two requests show that
handlers of different requests do not disturb each other; every race of the code is
between at most two handlers, and the third resolver of `gateway_faults` is the retry
after one of them rolled back or failed, or the operator of another tenant. Two policies are a block
and what it stands above, or a policy of another tenant, or one that comes too late.
Pages share nothing but the tables, so one of them, with resolvers it did not start
(an API client's, a click whose answer was lost, or one before the page was opened
again), shows what several would; two resolvers are a click and what races it or is
tried after it. With three the run takes more than five minutes. Two replicas: one that dies and one that does not. Three loads can
overlap and land in any order with one of an earlier filter among them. Three
policies in a table give one that fires, one before and one after it, or a tie. Four
calls against a limit of one fill the window, overrun it and come back after it; the
clock passes two windows. Requests, resolvers, tenants, policies, replicas and limiter
calls are symmetric in the safety runs; the liveness runs use no symmetry.
Deadlock is not checked: calls are finitely many and the clock stops, so every run
ends, but for the list, whose interval goes on for ever.

**Fairness.** `request_pages` assumes weak fairness of what each handler does once its
call has arrived: the event loop runs handlers that can go on, and Postgres answers
every statement. The same holds of a page's load and of the answer to its click.
Arrivals, clicks and openings are not fair: nobody has to call. Weak fairness suffices
because a step of a handler stays enabled until it is taken. Each handler's steps are
fair together, not each statement alone, so the outcome of a choice is not forced: a
tool may throw every time. Statements of handlers do not fail in that run (`MayFail`
is off): after a failure or a crash between claim and run nothing in the code serves
the approval. Losses of loads and answers (`MayLose`) are on.
`list_polling` assumes that the interval fires (weak fairness of `Tick`) and that loads
which are asked again and again are not all lost (strong fairness of `Query` and
`Land`): under a network that fails for ever the page cannot catch up.

## What is proved

For any sets of requests, resolvers, tenants, policies, pages and replicas, any
subset of tool outcomes and with or without failures (`ConstantsAssumption`,
`HandlersAssumption`, `BodiesAssumption`, `PoliciesAssumption`, `PagesAssumption`):

- `Invariance`: `Spec => []Inv`, and from it `TypeCorrect`, `Authorised`,
  `AtMostOnce`, `Records`, `Replies` and `Approvals`, every safety property of
  `gateway_faults` but one; that one is `Stranded`.
- `Implementation`: `Gateway` implements `ToolGovernance`.
- `GovernedIsGateway`: with policies that are added, the handlers behave as `Gateway`
  allows; so `GovernedInvariance`, `GovernedImplementation` and `GovernedStranded`.
  `DecisionsAreFresh` and `BlocksStopCalls` are what the policies add, with
  `GovernedTypeCorrect`.
- `DetailIsGateway`: pages, too, only do what `Gateway` allows; so
  `DetailImplementation` and `DetailStranded`. `DetailsAreCausal`, `GrantsAreShown`,
  `HeldAreOffered` and `PagesTypeCorrect` are the other safety properties of
  `request_pages`.
- `ReplicasInvariance`: `Inv` survives replicas that die with all their handlers, and
  with it authority and at most once (`ReplicasSafe`), what `Records` and `Replies` say
  (`ReplicasRecords`), the approval protocol (`ReplicasApprovals`), the promise
  (`ReplicasImplementation`) and `ReplicasStranded`.
- `Backed`, `Complete`, from `CounterInvariance`: the counters of all replicas together
  never show what is not in the audit log, whatever dies, and until something fails they
  show everything exactly once. `MeteredTypeCorrect`: counters only count.
- `LoopInvariance`, `HighestPriorityFires`, `DefaultDenies`, `ReportsTopRejection`,
  `EvaluationTypes`: for any finite tables and any calls. `EvaluatorDecides`: the
  evaluator answers once and as `Decides` allows. `OnlyTiesVary`: in every evaluation
  the order in which the database returned the rows matters only between rows of equal
  priority; without such ties the answer is the only one the rows allow.
- `AdmittedAreCounted`, `NoAdmissionWhenFull`: for any number of calls in flight, any
  window and limit, if `EXPIRE` is answered within a tick of `ZADD`.
  `BoundedOverrun`, under the same assumption: calls that overlap exceed the limit of
  the window that ends now by at most one less than may be in flight.
  `BoundedWindows`: if all commands are answered within a tick, the same holds of
  every window of the past, whatever fails.
  `RefusedOnlyWhenFull` for finitely many calls, and `LimiterTypes`, with any timing.
- `ListTypes`; `ShowsThePast`: the list shows rows the table once had. `FilterStays`,
  `RowsStay`: once no load made for another filter, or no answer with older rows, is on
  its way, only a new choice, or a change of the table, makes the list wrong again. This
  is the half of `Converges` and `CatchesUp` that is safety.

*The argument.* That a tool runs once is not inductive: what prevents the second run
is that a resolver between its claim and its reply keeps the approval out of
`'pending'`. `OwnerInv` says this: a resolver *owns* an approval from its claim
until it rolls back, and for ever once it has run the tool, even if it fails then; an
owned approval is approved and has one owner. `Claim` needs a pending, hence unowned,
approval; `Rollback` is unconditional but happens only while its handler owns an
approval under which nothing ran (`RollbackUnrun`), so it cannot take anybody
else's. `DecisionInv` ties the branch an invoke handler is on to the recorded
decision, which keeps invoke and approve from both running a request; `TargetInv`
carries the tenant check of the first read to the later steps; `RanInv` ties
executions to control points. `CostInv`, `StatusInv` and `AuditInv` are proved
relative to these. The mapping to `ToolGovernance` ignores `gateway_requests.status`:
it is read off the decision, the approval and the executions, which is why the findings
about the status column do not reach executions.

What a deny tells (the status `rejected`, the row `approval.denied`, its 200) is not
always so: that is finding 1, and `RecordsTruthful` and `RepliesTruthful` say no more of
it than is true. `DenialAccounted` is that the approval is denied, for good, or that an
approve of the request won its claim, or a call of it failed (a failed call may have won
its claim; which statement it failed at is not remembered). `DenialInv` proves it: an
approved approval was claimed by somebody, so when deny's update changes no row there is
a winner or an earlier denial, and neither goes away.

`Stranded` needs to know who holds an approval that is approved (`HolderInv`): the
resolver that claimed it is about to run the tool, has run it, is about to roll back, or
was cut off by a failure. A holder leaves these places only by the rollback that makes
the approval pending again. A failure between the claim and the end of the rollback
(`approvals.ts:101-114`) is thus the one way in which an approval stays approved without
a run; nothing in the code recovers from it.

The compositions add little to `Inv`, since their steps are steps of `Gateway` or leave
its variables alone. In `GovernedGateway` the addition is that the table only grows
and that what a call knew of is in it (`TableInv`), so a decision taken on all of
the table stays the decision of a table in between (`FreshInv`); an acknowledged
block is in every such table, and the applicable policies of the highest priority are
then the block alone. In `RequestDetail` it is what a status rests on (`Rests`): decision
and approval are written before the status that tells of them and are never taken
back, and the page reads the status first; so what the load has read so far is
covered by what it will read (`DraftPage`). `HeldInv` adds that an approve answered
200 has left all its rows, and `GrantedPage` carries that through a page's reloads. In
`GatewayMetrics`, `Crash` is many failures at once; that it keeps `Inv` is proved
from the fact that `Inv` constrains failed handlers less than running ones; to
`ToolGovernance` it is a step that changes nothing.

For the counters, the sum over replicas is taken as the size of a set: the ticks of a
series are the pairs of a replica and a number up to its counter. Raising a counter adds
one tick, a crash only removes some (`OneMore`, `TicksLost`), and no induction over the
replicas is needed. `CountersBacked` is then kept because the audit row a handler writes
before it counts is a new one: an audit row is its handler's last write, so a handler that
is still under way has none (`RowsInv`). `CountersComplete` is not inductive: it speaks of
the moment when all handlers have answered. `ExactInv` says of every moment before a
failure that each series has counted exactly the handlers that are past counting, and
`OrderlyInv` says why they are where they are (a handler answered 500 only because its
tool threw, an early refusal has no decision), so that at rest these are all executions
and all decisions.

In `PolicyEngine` the invariant is the loop's: everything before the position was
rejected, and the first rejection is the one kept. The array lists all eligible
policies in descending order, so whatever is applicable and later cannot be higher.
In `RateLimiter` it is that the expiry lies at least a window after every admitted
call in the set, and that trims by later clocks take only what is older than their
own window; a call that finds fewer than the limit has then counted all answered ones
of its window. Those admitted but not recorded yet are on their way, at most `InFlight`
together with itself: hence the bound on overruns. It is stated for the window that ends
now, because a call that waits for its commands until the key has expired is admitted
into a window of the past that no longer has its members; `BoundedWindows` excludes
that wait, and a call on its way then always belongs to the window that ends now.

*Only model-checked:* liveness (`ApprovedIsServed`, `EveryCallSettled`, `PageSettles`,
`Converges`, `CatchesUp`), which is out of the prover's reach, and every violation. All
invariants and action properties of the passing runs are stated by a theorem.

## Findings

1. **A lost deny marks an executed request rejected** (`gateway_denyrace`). Deny
   reads the approval as pending; approve claims it and runs the tool; deny's
   conditional update changes no row, which `approvals.ts:234` does not look at, and
   the handler sets the request to `rejected`, writes `approval.denied` and answers
   200 with `denied`: all three are untrue at the end of the trace. The comment at `approvals.ts:233` says the races are prevented.
2. **The hold overwrites an approval** (`gateway_heldlate`). The approval row exists
   before `gateway.ts:237` marks the request; an approve in between finishes, then
   the request is set back to `approval_required` for ever.
3. **An emergency block does not reach held calls** (`governed_emergency`).
   `docs/security-model.md:67` says such blocks "take effect immediately". They do for
   every call that arrives later (`BlockStopsCalls`, proved), but the approve handler
   does not look at the policies: a call held before the block runs when it is
   approved after it.
4. **A deny policy with a maximum works the other way round** (`policy_highamount`):
   the policy of `README.md:93` blocks transfers up to 10000 and is skipped above.
5. **The limiter is never wired** (`limiter_unwired`): nothing sets `app.redis`.

More behaviours follow from the same models and have no run of their own:

- *The limiter overruns.* Count and add are two round trips, so calls that count
  before any of them is recorded are all admitted, against the "true sliding window"
  of `rate-limiter.ts:9`. What does hold is `AdmitsBelowLimit`, overruns come only
  from calls that are still between their count and their answer, and
  `OverrunBounded`, they are fewer than the calls in flight.
- *The expiry can take a new call.* `ZADD` does not renew the key's expiry: an old
  one that falls between `ZADD` and `EXPIRE` drops the call just recorded. `Prompt`
  excludes it in `limiter_overlap`.
- *The audit chain of an approved request is incomplete.* `docs/demo-script.md:84` lists
  policy evaluated and tool executed; the code writes neither for a held request.
- *A tool that fails is recorded as one that succeeded.* The executor returns
  `success: false` (`tool-executor.ts:87-93`), which `gateway.ts:330-373` and
  `approvals.ts:129-174` do not look at: the request is allowed, charged, audited as
  `success` and counted, against "successful tool executions" of `README.md:281`. The
  mock tools never throw, so it does not happen with them; the models know one outcome
  for both.
- *The settlement is not a unit.* The three writes after a deferred run
  (`approvals.ts:129-165`) are separate statements, so a failure between them leaves
  a cost without an `approval.granted` row.
- *The queue depth only grows.* `pgag_approvals_pending_total`, "approval queue depth"
  in `docs/operability.md:71`, is raised by every hold and lowered by nothing.
- *A pending approval can become unreachable from the dashboard.* A deny that loses
  against an approve whose tool then throws leaves the approval pending and the
  request `rejected`; `RequestDetail.tsx:93` then shows no buttons. The same holds of
  a call whose handler failed before its hold, for which no 202 was answered.
- *The list may show rows of another filter* until the next poll, since nothing
  compares an answer with the filter it lands on (`RequestList.tsx:36`).

None of this lets a tool run twice or unauthorised: that is what is proved.

## Not modelled

- `GET /v1/audit-logs`, `GET /v1/policies` and the pages that show them: one query
  each, loaded once, without state; nothing interleaves in them that the list does not
  show.
- Health probes and `shutdown` (`index.ts`): they touch no row and no handler's state;
  `app.close` waits for the handlers, and a process killed earlier is `Crash`.
- The cost estimator's figures, the text of `renderPrometheus`, badges and layout:
  arithmetic on tables and formatting. The badge at `RequestDetail.tsx:89` prefers the
  decision to the status, so a resolved request goes on reading "Approval Required"
  there; no property is about wording.
- Logging, tracing, migration, seed data, the in-memory development database and
  deployment files: I/O, formatting or data.
- A statement that fails is taken not to have had an effect; one that committed and
  whose answer was lost is the same as a failure at the next statement, except after
  the last one of a handler. Clocks of replicas are taken to agree in `RateLimiter`.
- Paging, the agent and tool filters of the list: the dashboard never uses them.

## What could follow

The safety that liveness rests on, stated and proved: that a handler under way can always
take a step, as far as that can be said without `ENABLED`; the liveness of the limiter's
callers after a refusal; policies that are changed or removed, should the API get such
routes.

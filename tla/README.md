# OpsOne in TLA+

OpsOne watches the payment providers of card and top-up products. Three Go
programs share one MySQL database (`src/ai_gen_src`): `worker-mock` writes
metrics, `worker-agent` runs a monitoring cycle every few minutes, `api` serves
the dashboard, its poll and a chat. When a provider of a SKU breaches its
thresholds, the remedy is to move its traffic to the other providers
(*routing*) or to close it for a while (*maintenance*): proposed to an operator,
or done at once where the SKU is in automatic mode.

There is no transaction around any of this and no lock between the programs:
the database rows are the shared state, and each SQL statement commits alone.
That is what the specifications here are about.

Paths below are relative to `src/ai_gen_src/internal` unless they say otherwise.

## 1. Inventory

| Component | State | Operations | What makes it correct |
|---|---|---|---|
| Routing writer, `tools/update_routing.go`, `store/routing_update.go` | `routing_config.traffic_pct`, `agent_change_log` | `UpdateRouting` (one scope or a batch) | shares of a SKU add up to 100; the log tells what was changed; callers see a change whole or not at all |
| Decision and plan, `agent/breach.go`, `agent/plan.go` | none (pure) | `SKURoutingDecision`, `ShouldForceAuto*`, `BuildRoutingPlan`, `routingMatchesProposed` | a plan adds up to 100 in whole points, takes everything from breached providers, gives nothing to maintained ones, leaves a live receiver |
| Agent cycle, `agent/{runner,collector,reasoning,recovery}.go` | `agent_analysis_cycles`, the cycle's own snapshot | `RunOnce`: collect, decide per product, act, resolve, write history | one open incident per SKU, one pending plan, no double action after a failed cycle; automatic mode and recovery come to an end |
| History and recovery, `store/{history,cycles,recovery}.go` | `agent_analysis_history`, `recovery_apply_cycle_id` | count breach runs, mark, count cycles since, clear | runs are of consecutive cycles; marks get cleared |
| Thresholds, `threshold/evaluate.go`, `store/thresholds.go` | thresholds per product | `EvaluateThresholds`, `ScopeBreached*` | the comparisons agree where a decision needs them to |
| Incidents, plans, recommendations, `store/{output,dashboard,recommendations}.go` | three tables with ENUM status columns | insert, reuse, refresh, cancel, resolve | no duplicates, no orphans, values the columns accept |
| Maintenance windows, `tools/set_maintenance.go`, `store/maintenance.go`, `api/maintenance_helpers.go`, chat commands | `maintenance_windows` | open, replace, extend, cancel, reopen, roll back a batch | no two windows of a scope overlap; a batch is all or nothing; a reopening leaves none |
| Plan and scope actions, `api/handlers*.go`, `api/reopen_routing.go` | as above | approve, reject, apply, dismiss, reopen, by id, by scope or in the chat | a plan is executed once; what is rejected stays rejected; a rejection leaves its trace |
| Dashboard poll, `api/dashboard*.go`, `store/scope_auto.go` | a snapshot and caches per request | build snapshot, suggest, auto apply in two passes | acts once, on the remedy that is due, not in the grace; in automatic mode it acts at last |
| Notifications, `notify/service.go` | `notification_log` | `SendIfNeeded` | one mail per key |
| Rule engine, `rules/` | none | evaluates rules into evidence | only words texts and severities |
| Mock worker, `mock/` | metrics tables | one row per scope and tick | environment of the others |
| Chat, `api/chat_*.go`, `chatresolve/`, `llm/` | histories, voice cache, corrections, interaction log | correct, find retries, reply, record; call the operations above | what was learnt reaches later turns; histories of whole turns; only repeated turns are marked |
| Server, config, health, rollback stub, web | - | plumbing | - |

How they meet: the agent, the poll, the handlers and the chat all call
`UpdateRouting` and `SetMaintenance`; they learn of each other only through the
tables. An approved plan carries the cycle id it was made with into the
recovery mark, which the next cycles compare with their own. A window makes the
collector skip its provider. A pending recommendation or a recent plan keeps the
agent from acting. History rows of past cycles decide whether this cycle acts.

What is hard here: a change written row by row while somebody else writes the
same rows; a cycle that decides on what it read minutes ago; a cycle that fails
half way and is not undone; marks that refer to cycle ids and are compared
across cycles; several independent reasons to hold back that together might hold
for ever; `for range` over Go maps and `sort.Slice` ties, whose order is
arbitrary; rounding; and errors that callers drop. `PROJECT.json` lists each
hazard at its line.

### The strict schema

MySQL 8 rejects a value an ENUM column does not have (the default
`sql_mode` is strict and the DSN in `config/config.go` does not change it). Two
UPDATEs of the code always write such a value: `routing_plans.status =
'cancelled'` (`store/dashboard.go:62`, column at `db/schema.sql:379`) and the
texts `autoResolveHealthyScopes` puts in `incidents.resolution_action`
(`agent/reasoning.go:514`, column at `db/schema.sql:365`). They fail, the row
stays as it was, and every caller drops the error. The model has the two columns
as sets (`PlanStatuses`, `ResolutionActions`) and applies an update only if the
value is a member: change the schema there and the model follows.

## 2. Modules

| Module | What it is |
|---|---|
| `RoutingWriter` | `UpdateRouting` statement by statement, for any number of concurrent calls |
| `AtomicRouting` | what `UpdateRouting` promises: one step per update, or a torn scope |
| `RoutingWriterProofs` | theorems about `RoutingWriter`, the refinement of `AtomicRouting` among them |
| `RoutingMath` | the pure decision and plan operators, used by `RoutingPlan`, `AgentCycle` and `DashboardPoll` |
| `RoutingMathProofs` | lemmas: sums over providers, what rounding yields, what a plan is |
| `RoutingPlan` | a SKU over its life: observe, plan, execute, and again |
| `AgentCycle` | the agent's cycle among operators, time and failures |
| `AgentCycleProofs` | theorems about `AgentCycle`, from the same lemmas |
| `Maintenance` | maintenance windows with times: the callers of `SetMaintenance`, chat included, statement by statement |
| `MaintenanceProofs` | theorems about `Maintenance` |
| `ScopePlans` | the routing plans of a scope between poll, agent and operators, statement by statement |
| `AtomicPlans` | what plans promise to those who decide: proposed when none waits, changed only while waiting, decided once; or come loose |
| `ScopePlansProofs` | theorems about `ScopePlans`, the refinement of `AtomicPlans` among them |
| `Recommendations` | maintenance recommendations, their approval, rejection and dismissal, statement by statement |
| `RecommendationsProofs` | theorems about `Recommendations` |
| `DashboardPoll` | the dashboard poll as an actor: snapshot, caches, grace, two passes of automatic application |
| `PlanAndPollProofs` | theorems about `RoutingPlan` and `DashboardPoll`, from the lemmas of `RoutingMathProofs` |
| `ChatTurns` | turns of the chat and the goroutines they leave behind |
| `ChatTurnsProofs` | theorems about `ChatTurns` |
| `MC*` | the instances TLC checks |

**RoutingWriter.** One action per statement: `Enter` and `Begin` (checks,
`validateRoutingPct`, `routing_before`), `WriteRow` (one turn of the `for range`,
in any order; an UPDATE of a missing row changes nothing), `ReadAfter`
(`routing_after`), `InsertLog`, `MarkRecovery`, `ResolveIncident` (both drop
their errors, hence the second disjunct), `Reject` for a map that fails
validation, and `Abort` at every point for a failed statement, a cancelled
request or a dead process. `alone` and `torn` are history variables: which calls
nobody overlapped, and which scopes a failed or overlapped call wrote to.

**RoutingMath.** Percentages are hundredths, floats are exact fractions
(`Exact` is the numerator and denominator of the proposal before rounding).
`Rounded` is the set of results of `roundPctToInt100` over all orders
`sort.Slice` may leave ties in. Metrics are one of five classes, as far as the
threshold comparisons tell them apart: `edge` is exactly on a threshold
(`<=`/`>=` breach, `<`/`>` do not), `events` breaches only by its number of
error events (which `EvaluateThresholds` counts and the plan does not).

**AgentCycle.** `Start` .. `Finish` follow `Runner.RunOnce`: `Collect` is
`CollectAll` with `applyRecoveryOverlay`; for each product `Assess` (or
`NothingBreached`), `OpenIncident` or `Monitor`, then one of `HoldRouting`,
`ProposeRouting`, `ApplyRouting`+`RecordPlan`, `DecideMaintenance` with
`OpenWindow`, `Overlap`, `WindowsOpened`; then `AutoResolve`; finally
`WriteHistory` and `Finish`. `ctx` is the snapshot every decision of the cycle
reads; `scope` holds the locals of `emitOutputs`. `Fault` ends a cycle at any
point and leaves what was written, a prefix of the history rows included.
Cycle ids are relative: a mark keeps whether it is the id of the cycle in
progress (`fresh`) and how many successful cycles have a larger id (`since`, up
to 2, which is all `overlayRecoveryState` asks). Operators act between any two
steps: `ApprovePlan`, `RejectPlan`, `Reopen`, `Maintain`, `WindowEnds`.

Abstractions worth knowing: `UpdateRouting` is one step in `AgentCycle` (its
statements are in `RoutingWriter`), and so is each handler; `CollectAll` reads
everything at one instant; products have SKUs with the same providers; a window
is open or not (no times, no scheduled windows); the mode of a SKU does not
change during a behaviour; success rates are fixed per provider.

**Maintenance.** One action per statement that reads or writes
`maintenance_windows`. `CheckOverlap` and `Insert` are the two halves of
`SetMaintenance`; `ReplaceOverlap` is the first half for the trigger
`admin_manual`, which only the batch approval ends up with
(`normalizeMaintenanceTrigger` makes `opsone_auto` of the others). The requests
are `approve` (`applyMaintenanceTargets`: the approval of a scope, of a
recommendation, and the poll), `auto` (`applyMaintenanceAuto`), `batch`
(`applyMaintenanceWithSkipNotify`), `all`, `chat` and `named` (the chat's
`chatSetMaintenanceScopeAll` and `chatSetMaintenanceScope`, for the providers it
picks itself or the ones named), `cancel` and `batchCancel`, `extend` and
`extendChat`, and the three reopenings of handler and chat; `OnError` says what
each does when a window is refused, `Rollback` is the loop of
`CancelMaintenanceByID`. A row is open or not: all queries treat `scheduled` and
`active` alike and nothing writes another status than `cancelled`. A cancelled
request context (`HangUp`) makes every later statement of the call fail,
rollback included, as all use the same context; of a reopening any statement may
fail by itself as well. The dashboard sends the ids of the windows that were in
effect when its page was loaded (`LoadPage`, `OnPage`; `maintenance_display.go:42`),
so a page knows nothing of windows scheduled for later or opened since: those are
left to the sweeps. `handleScopeMaintenanceReopenService` drops the errors of the
sweep behind the ids, of the count and of the last two cancellations
(`handlers_scope_actions.go:384`, `401`-`407`), and goes on to the routing; `missed`
is history and counts the sweeps and counts of a call that failed. Ids carry the second, the
provider and a counter of the process that wraps. `contested` is history: scopes
where two callers stood between check and insert at once, an extension moved
several windows, or a replacement lost its error.

**ScopePlans.** The statements on `routing_plans` of one scope, for calls of the
kinds `approve`, `reject`, `chat_approve`, `chat_reject` (by id), `apply`,
`dismiss` (by scope, with a plan of their own), `poll`, `agent`, `auto` and
`list` (`routingPlanResponse`, `emitOutputs`, `autoApplyScopeFromSnapshot`,
`getPendingSuggestionsForSSE`, which propose, refresh or prune). `CancelPending`
is there and changes nothing, for the reason given above. `overtaken` and
`loose` are history: calls during whose life somebody else wrote, and plans
written by such a call or by one that was cut short. `UpdateRouting` is one step.

`AtomicPlans` is the same with every decision one transaction. Mapped to it, a
plan counts as executed from the step that puts its percentages in force, which
is before the code writes its status, and as loose (`ComesLoose`) from the step
that overtakes the call about to close it. Approving, rejecting and refreshing
any other plan are steps of `AtomicPlans` with its guards, which no single
statement of the code checks; of a loose plan nothing is promised.

**Recommendations.** The maintenance rows of `recommendations` for the SKUs of a
product. A row has no SKU column: `Matches` is the `LIKE 'SKU <code>%'` of the
queries and deletions, `PendingOf` the parsed code of the poll's list, and
`Begins` says which code begins which; `Covers` is the code itself or one that it
begins. A rejection by id inserts a dismissal
with the cycle completed last and then deletes the row; by scope it only
dismisses. `hushed` and `rejected` are history: SKUs dismissed in this cycle with
no row left, and SKUs of which a rejection that read the newest completed cycle
was recorded before the next one completed.

**DashboardPoll.** One `GET /dashboard/overview` for one scope: it reads routing
and metrics, fills its caches, reads windows, mode and grace, and makes up to
two passes. Each read and the act are a step of its own, for two polls at once
and an operator, the agent, the providers and time in between. It uses
`RoutingMath` for the decision and the plan. `UpdateRouting` and the opening of
windows are one step each (`RoutingWriter` and `Maintenance` have their
statements). What a snapshot shows, and what the poll decides on, are shares
rounded to a tenth of a percent (`Displayed`, and once more in `Effective` when
providers under maintenance are taken out; `Tenths` is `roundPct`): a provider
with less than 0.05 % counts as one without traffic. The plan itself is made for
the shares in the table, which the request caches unrounded (`productRouting`).
`Worst` is the set of the providers in breach with the highest score: which of
them comes first is up to the order of a Go map, anew in each pass, and each pass
takes any. Rates are rounded too before they are compared with the thresholds a
second time (`dashboard_snapshot.go:186`, `maintenanceSuggestionStillNeeded`); with
thresholds in whole tenths, as in `db/seed.sql`, that takes no breach away, and
the model assumes so.

**ChatTurns.** `Receive` to `persistChatTurn` are a turn. The voice corrections
are read from a cache (`UseCache`) or, under a lock, from the table (`Lock`,
`Query`, `Store`), while `Learn` is the goroutine of an earlier turn that writes the
table and drops the cache. The table has pairs, the cache is a map from the heard
text to one correction: where a text has several, the rows come in the order of
their hits and each overwrites the one before (`store/chat_voice.go:77`), so
`MapsOf` takes any of them. `detectAndMarkRetry` finds the newest row of the
session in the last minute, `Mark` is its goroutine. A text is a whole message;
`Similar` is what `DetectRetrySignal` makes of two of them. `Restart` loses what
the process holds and keeps what the database holds.

## 3. Runs

| Run | Instance | Shows |
|---|---|---|
| `routing_writer` | 2 calls, 2 SKUs, 2 providers and a name without a row; single and batch, valid and invalid maps | after overlaps and deaths, a SKU no such call touched (or that a later undisturbed full update repaired) carries 100% (`SettledSumsTo100`) and its newest log row is what an auditor takes it for (`AuditTrail`); every behaviour is one of `AtomicRouting` (`ImplementsAtomic`) |
| `routing_writer_sums` | same, two full updates | the README's Σ = 100 (`src/README.md:5348`) is violated: `SumsTo100` |
| `routing_plan` | 3 providers, all 5 metric classes, all windows, starts that do and do not add up, two success rates | `Apportioned` (whole points, sum exactly 100, less than a point from exact), `HardCut`, `HasLiveReceiver`, `MatchedPlanIsHarmless` |
| `agent_cycle` | 3 providers, 1 SKU, 2 consecutive cycles required, 2 moves (metric changes, operator actions, faults) | `OneOpenIncident`, `OnePendingPlan`, `GraceNeverHolds`, `AutomaticShift`; liveness `AutoSettles`, `RecoveryEnds` |
| `agent_cycle_incident` | 2 providers | `NormalProductHasNoIncident` (the comment at `agent/reasoning.go:506`) is violated |
| `maintenance` | 3 calls (one operator approving, one asking for any kind, the agent), 1 SKU, 2 providers, windows of 2 from now or a later one that touches or overlaps, pages loaded before, one call lost, statements of a reopening failing | `DisjointUnlessContested`, `AllOrNothing`, `ReopenEndsWindows` |
| `scope_plans` | a poll or agent, and two more calls of the other kinds, 2 proposals, 1 incident, one change around them, one call lost | `OnePendingPlan`, `AppliedOnce`, `KeepsWhatWasApproved`, `RejectedStaysHidden`, each but for calls that overlapped or were cut short; every behaviour is one of `AtomicPlans` (`ImplementsAtomicPlans`), which has `RejectedForGood` besides |
| `recommendations` | 2 operators of all kinds, 2 SKUs of which one code begins the other (10000 and 100000 of `db/seed.sql`), 2 cycles, 3 rows, one call lost | `SilenceEndsWithCycle`, `DismissalHolds`, `DecisionsReachOnlyAlike`, `RejectLeavesTrace` |
| `recommendations_prefix` | same | `DecisionsKeepToTheirScope` (the comment at `store/recommendations.go:219`) is violated |
| `dashboard_poll` | 2 polls that come again and again, 1 SKU, 2 providers, 4 routings an operator may set, 2 configurations of the mode, 1 change by others, 2 cycles | `NoNeedlessWindow`, `OneChangePerPoll`, `WaitsForNextCycle`; liveness `Settles` |
| `dashboard_poll_health` | same | `SkuWideOnlyIfAll` (`src/README.md:858`) is violated |
| `chat_turns` | 2 turns, 2 sessions, 3 messages of which 2 are similar, each of the two learned earlier to mean the third, a limit of 2 messages, 1 restart, 1 vote | `CorrectionsReachTurns`, `HistoryOfWholeTurns`, `MarkedIsRepeated` |

**Bounds, and why they are enough.** `RoutingWriter`: what can go wrong between
calls already goes wrong between two of them on one scope; the second scope is
there for the batch, the extra name for rows that do not exist, and the theorems
below cover every number. `RoutingPlan`: with three providers there can be one
to cut, one to receive and one to be left alone, and rounding has a tie to
break; the start percentages are thirds, 70/20/10, a half written 60/60/0 (a
total above 100), 97/2/1, which a plan may match, and 99.6/0.2/0.2, whose
receivers rounding may leave with nothing (`NoSplinters` is what
`HasLiveReceiver` asks for). `AgentCycle`: `MaxMoves` bounds what others do, not
the agent, which runs for ever; two moves are enough for "maintained, then
approved while the cycle runs" and "failed, then degraded". `OnePendingPlan` and
`OneOpenIncident` are about the agent as the only one who proposes; `ScopePlans`
has the poll as a second one. `Maintenance`: the overlap needs two callers, a
window to replace or extend besides needs a third; `Horizon` 1 lets a window of
the first instant meet one of the second, `Losses` 1 is one hang-up or one
restart, `Wrap` 4 stands for 10000 and is reached by four inserts. `ScopePlans`:
a proposal overtaken by a decision that is overtaken by another one takes three
calls; two proposals tell a refreshed plan from the one shown.
`Recommendations`: a late dismissal needs one cycle that ends between two of its
statements, a renewed recommendation a third row; the two SKUs have codes of which one begins the
other, so that every query may reach too far. `DashboardPoll`: two polls,
one that reads before and one that reads after the other's change, which `Turns`
may be followed by one of somebody else; two providers are one to cut and one to
receive, so hard cuts among several healthy ones are left to `routing_plan` and
`agent_cycle`; the routings an operator may set are halves, and all on one provider
with nothing, 0.03 % or 0.05 % left on the other: unseen, and just seen. Two
cycles let a mark be set in the first one and its grace end with the second. A
third provider adds the ties and the second passes described in section 5; that
instance is too large to keep as a run, and the theorems cover it. `ChatTurns`: one turn refreshes
the cache while the goroutine of the other drops it, and a new correction of a
text meets the one learned earlier; a limit of two is reached by the second turn
of a session. `CHECK_DEADLOCK FALSE` is set for
`RoutingWriter`, `Maintenance`, `ScopePlans`, `Recommendations` and `ChatTurns`,
whose calls all end. `chat_turns`, `scope_plans` and `recommendations` use the
symmetry of values that nothing tells apart; no liveness property is checked
with symmetry.

**Fairness.** `AgentCycle` has `WF_vars(Agent)` and nothing else:
`Runner.RunBlocking` (`agent/runner.go:271`) ticks for ever, logs a failing
cycle and goes on, and a started cycle is straight-line code. It assumes the
scheduler stays enabled. Operators, time and metrics have no fairness: nothing
here depends on somebody helping. `MaxMoves` makes disturbances stop at last,
which the two liveness properties need: they say what happens once the agent is
left to work. `DashboardPoll` has weak fairness for the polls in `Steady`, those of
dashboards that are kept open: such a one asks for the overview every minute
(`web/src/pages/Dashboard.tsx:151`), and a request is straight-line code. The run
has one such dashboard; the other may be closed at any statement of its request,
and nobody else there has fairness.

**What the liveness properties do not promise.** `AutoSettles` excepts a SKU
with an open window and two or more other live providers: the agent holds
routing back while any window of the SKU is open (`agent/reasoning.go:224`), so a
breached provider there keeps its traffic until the window ends. `RecoveryEnds`
excepts a SKU none of whose providers reports metrics within its thresholds.
`Settles` says nothing of a scope while a window is open or in the grace, where
the poll by design does not act, nor of a provider with less than 0.05 %, which
the poll never sees.

## 4. Proofs

Every invariant and action property of the passing runs is a theorem, and so are
both refinements, for every value of the constants. Each proof goes the same
way: an inductive invariant (`Inductive`; `PlanInductive` and `PollInductive`
where one module holds the proofs about two), checked by TLC on the module's run
before it was proved, one lemma per action, and a last temporal step.

| Module | Theorems, each with the property it states |
|---|---|
| `RoutingWriterProofs` | `TypeCorrect` (`TypeOK`), `SettledSum` (`SettledSumsTo100`), `AuditTrailHolds` (`AuditTrail`), `Implements` (`ImplementsAtomic`) |
| `PlanAndPollProofs` | of `RoutingPlan`: `PlanTypeCorrect` (`PlanTypeOK`), `WholePoints` (`Apportioned`), `BreachedAreCut` (`HardCut`), `SomebodyReceives` (`HasLiveReceiver`), `MatchedIsHarmless` (`MatchedPlanIsHarmless`); of `DashboardPoll`: `PollTypeCorrect` (`TypeOK`), `WindowsAreNeeded` (`NoNeedlessWindow`), `GraceIsWaitedFor` (`WaitsForNextCycle`), `OneChange` (`OneChangePerPoll`, for up to three providers) |
| `AgentCycleProofs` | `TypeCorrect`, `IncidentsAreReused` (`OneOpenIncident`), `ProposalsAreReused` (`OnePendingPlan`), `NoGrace` (`GraceNeverHolds`), `ShiftsAreSound` (`AutomaticShift`) |
| `MaintenanceProofs` | `TypeCorrect`, `WindowsDisjoint` (`DisjointUnlessContested`), `ErrorLeavesNothing` (`AllOrNothing`), `ReopeningEnds` (`ReopenEndsWindows`) |
| `ScopePlansProofs` | `TypeCorrect`, `OneWaiting` (`OnePendingPlan`), `AppliedAtMostOnce` (`AppliedOnce`), `ApprovedIsKept` (`KeepsWhatWasApproved`), `RejectionIsFinal` (`RejectedForGood`, which the run checks as part of the refinement), `RejectedIsHidden` (`RejectedStaysHidden`), `PlansAreAtomic` (`ImplementsAtomicPlans`) |
| `RecommendationsProofs` | `TypeCorrect`, `TraceIsLeft` (`RejectLeavesTrace`), `NoSilenceOutlivesItsCycle` (`SilenceEndsWithCycle`), `DismissalsHold` (`DismissalHolds`), `DecisionsStayAlike` (`DecisionsReachOnlyAlike`), for any codes |
| `ChatTurnsProofs` | `TypeCorrect`, `CorrectionsReach` (`CorrectionsReachTurns`), `WholeTurns` (`HistoryOfWholeTurns`), `MarksAreRepeated` (`MarkedIsRepeated`) |

**RoutingWriter.** Neither safety property is inductive. The invariant adds, for
a call that is writing its scope alone, that `routing_before` with the shares
already written laid over it is what the table holds (so when the loop is done
the table is `Overlay(target, before)`); that whoever writes a scope that is not
torn is alone on it; and that a scope nobody writes and nobody tore has the
newest log row's `after`. Each action preserves each part; the overlap of two
calls is where `alone` and `torn` change together. For the refinement the
invariant shows that the configuration the mapping reads off the calls in
progress is what the newest log row of an untorn scope says, so that only a step
that logs a change, or tears the scope, moves `AtomicRouting`. Assumed:
submitted maps are functions (`TargetsAssumption`), inputs are not empty
(`RequestsAssumption`), seeded percentages could have been submitted
(`BaselineAssumption`), `Torn` is no configuration (`TornAssumption`).

**RoutingMath.** That a plan adds up is about a sum over any number of
providers. The library's induction theorems have an operator for a parameter,
which the provers cannot instantiate, so `Induction` is stated for a *set* of
subsets instead, and follows from the well-foundedness of strict inclusion. From
it come the lemmas on `SumFunctionOnSet` (`SumRemove`, `SumPlus`, `SumScale`,
`SumRestrict`, `SumBound`, `SumOfOnes`), then `Floors` (the whole parts of
shares that make a whole leave a gap of fewer points than there are providers),
`Rounding` (each provider gets its whole part and perhaps one point more, and
all of them make 100) and `PlanShares`. `RoutingShifts` says when a plan has
something to move and somebody to receive it, `NoWindfall` and `Reaches` what
becomes of a maintained provider and of a receiver. For the poll, `KeptRounded`,
`StaysWithin` and `NothingForNone` say what a plan leaves a provider it does not
cut, and `OnlyPlan` that a plan within the 0.05 % of `routingMapsEqual` of the
shares it starts from is the only one they allow: so little is moved
(`LittleMoves`) that the remainders are too far apart for a tie (`FarAbove`,
`NoTies`). Assumed: at least one provider and at most a hundred
(`ProvidersAssumption`, `FewProviders`). With more than a hundred the whole
parts may all be zero and `roundPctToInt100` leaves fractions; a SKU has two or
three.

**RoutingPlan.** The invariant is that the plan under consideration is one
`BuildRoutingPlan` makes of what is seen now (`Justified`). Assumed: shares are
percentages, rates natural numbers (`InputsAssumption`).

**DashboardPoll.** `Fresh` says of a poll that nobody overtook that the routing,
windows and newest cycle it has read still hold, step by step, and of one
between its passes that either no provider in breach is shown with traffic
(`Quiet`, after it moved some) or that whatever the second pass decides, it finds
a window in its way (`Reopens`). `Past` is its grace: a poll that may ignore it
read a cycle after the mark. `ShownShares` is what the rounding does: it shows
exactly the providers with 0.05 % or more. `DecisionShifts` and `PollPlan` are
about a decision made on the rounded shares and a plan made for the real ones;
that such a plan leaves nothing to the providers in breach needs that the
snapshot shows every share there is (`NoCrumbs`). `OneWorst` is why
the ties of `Worst` do no harm among two or three providers (`Few`, the hypothesis
of `OneChange`): two providers in breach cannot both lose what is shown of them in
a plan that moves no more than 0.05 % each (`TwoAreTooMuch`). With four, two that
are equally bad and hold 0.05 % each might get a window each, one in either pass.
A SKU has two or three. A second pass after windows must not find a plan that
moves traffic either, which is `OnlyPlan`. Assumed (`PollAssumption`): shares an
operator may set add up to 100 within a hundredth, which `validateRoutingPct` asks;
`None` is no routing and no metrics.

**AgentCycle.** The invariant says what a cycle relies on. `Snapshot`: a
provider without traffic has no metrics in it. `OfProduct`: the scope in hand is
of the product in hand, and one to be routed was assessed so on the snapshot,
which nobody writes again; hence the plan is sound whatever operators did since.
`MarksBehind`: a recovery mark or a plan with the id of this cycle belongs to a
product the cycle has decided on, which makes the grace of `reasoning.go:142`
unreachable. `Tables` holds the bounds on incidents and plans. Assumed:
products, SKUs and scopes are listed once (`OrderAssumption`,
`InputsAssumption`), shares are percentages.

**Maintenance.** `Reserved` makes disjointness inductive: when a call is about
to insert on a scope that is not contested, nothing is in its way and nobody
else is about to insert there. `Undoing` follows a rollback window by window,
`Sweeping` the sweeps of a reopening: at each label, whether every window met at
entry is over, and how many statements may have failed for that. `Bounded`, that
some time is after every
window, is needed for the extension, which looks for the latest end. Assumed:
each call has a process (`ProcessesAssumption`), a set of requests it may make
(`MayAskAssumption`), requests have targets, windows have a length.

**ScopePlans.** `Local` is what a call that nobody has overtaken knows of the
plan in its hand: still pending, still what it showed, still not suppressed.
`Applications` ties percentages in force to the plan that is still to be closed,
`OneWaits` the pending plans that are nobody's fault to one. For the refinement
`Chosen` adds that percentages about to be put in force are those the approver
was shown or chose, and those about to be proposed are some. `AfterWrite` and
`NoWrite` say what the mapping makes of the rows after a statement that writes
and after one that does not: a call that writes overtakes the others, whose plans
come loose in that very step, so any step of `AtomicPlans` may have that effect.
One lemma per kind of statement follows, from `QuietRefines` to `CloseRefines`.

**Recommendations.** `General` holds what a call knows of its row: ids are below the
counter, a rejection about to delete its row has left its trace, and a trace of
this cycle has its rejection in `rejected` (`Remembered`), which is what silence
must have for a reason. The row in the hand of a call is one of its SKU or, in the
chat, one that the pattern reaches (`OfItsSKU`); what a hushed SKU has is a newest
dismissal of this cycle among all that its pattern reaches, and of its own pending
rows only such as are about to be deleted (`Hushed`). Nothing is assumed of the
codes; `recommendations_prefix` shows what a decision that reaches another SKU does.

**ChatTurns.** `CacheInv` adds to what TLC checks that a turn about to store its map
of corrections has every heard text that counts in it, with a correction that was
learned (`Refreshed`): no goroutine gets through between
its query and its store, as it waits for the lock that the turn holds.
`HistoryInv` adds that the length of a history is even, so that cutting to an
even limit keeps the phase. `MarkInv` adds that a turn in the log is done and
that a mark under way is of a row the turn repeats; `TurnsGoOn`, `RowsStay` and
`RowsAreNewer` are what every step keeps of turns and rows, so that a repetition,
once there, lasts. Assumed (`ChatAssumption`): the limit is an even number,
`Similar` is reflexive and symmetric, `None` is no session, message or turn.

**Only model-checked.** Liveness under fairness (`AutoSettles`, `RecoveryEnds`,
`Settles`) is out of the provers' reach. The runs that show a violation are
counterexamples and need no proof.

**What the proofs changed.** Three properties turned out to be true only of the
instances they were checked on. `HasLiveReceiver` failed for shares below a
hundredth, of which the run now has one; `AutomaticShift` promised a maintained
provider no windfall also from percentages that do not add up, where
`normalizePct` scales everybody; `NoNeedlessWindow` failed where a provider in
breach carries a crumb, which the poll takes for nothing to move, and the run of
the poll has such a routing now. `TypeOK` of the poll says what the shares in
force add up to, which the proofs about its plans need, and `PollAssumption` what
`validateRoutingPct` lets an operator set. With the shares rounded, the proofs asked
for `NoCrumbs`, and with the ties of `Worst` for `Few`; both turned out to be cases of
the code (section 5).

## 5. What the runs found

Four places where the code does something else than a doc or a comment says,
each with a run that shows it (`findings` in `PROJECT.json`):

- routing is not transactional, so percentages need not add up to 100;
- the automatic resolution of incidents never succeeds, because the column does
  not take its value;
- the deletion of a SKU's recommendations by the prefix of their text reaches
  those of a SKU whose code it begins;
- with one of two providers under maintenance the dashboard takes the whole SKU
  for maintained.

Seen while modelling, without a run of their own:

- agent: a forced cut is applied in the first cycle and without automatic mode
  (`src/README.md:897`, `899`; `agent/reasoning.go:152`); of a product only the worst
  SKU is attended to in a cycle, so another can wait for ever (`src/README.md:898`,
  `904`; `agent/reasoning.go:448`); the windows it opens may include a provider that
  already has one, and the overlap fails the cycle (`src/README.md:901`); the
  grace period of `emitOutputs` never applies (`GraceNeverHolds`,
  `src/README.md:3512`); the maintenance check after an automatic change reads
  the routing of before it and never fires (`agent/reasoning.go:250`, `278`);
  windows of all SKUs of a product are pooled (`agent/breach.go:29`);
- plans: rounding may leave nothing on live providers when they hold less than
  a hundredth of the traffic: of 99.6/0.2/0.2, the first under maintenance and
  the third in breach, it makes 100/0/0 (`agent/plan.go:178`);
- poll: where a plan moves no more than 0.05 % from any provider,
  `routingMapsEqual` takes it for one that moves nothing, and the poll opens
  maintenance windows although another provider could take the traffic
  (`src/README.md:2495`; `api/dashboard_suggest.go:699`, `797`);
- poll: shares are rounded to a tenth of a percent before anything is decided
  (`api/dashboard.go:68`, `212`, `346`): with 99.97/0.03, the first in breach and the
  second in order, it sees one routable provider and opens a window, and a
  provider in breach with less than 0.05 % keeps it for good. A plan is made
  for the unrounded shares and for the metrics of the providers that are shown, so
  it may give traffic to one in breach that is not: of 50.30/49.66/0.04, the second
  and third in breach, the first pass makes 99/0/1, and the second, which sees
  the third and plans from the cached shares of before, 50/50/0, half of it with the
  second provider again, which is in breach (`src/README.md:2111` has all of it cut;
  `agent/plan.go:22`, `api/dashboard_suggest.go:307`). This is what `NoNeedlessWindow`,
  `OneChangePerPoll` and `WaitsForNextCycle` except;
- recommendations: a rejected maintenance proposal stays hidden for the rest of
  the cycle (`api/maintenance_helpers.go:44`-`57`, and the comment at `:43`; `DismissalHolds`),
  where `src/README.md:865` and `:933` have the next poll make it again and say that
  it is not hidden, the `DISMISSED` row being for audit only (`:727` too). The
  property states what the code and its comment say;
- windows: two callers that both check before either inserts open overlapping
  windows (`src/README.md:2177`; `tools/set_maintenance.go:70`), which is what
  `DisjointUnlessContested` excepts; the rollback of a partly applied approval
  does nothing once the client has disconnected, which is what `AllOrNothing`
  excepts (`api/maintenance_helpers.go:165`); a reopening two of whose statements
  fail, or whose client hangs up in the middle, may leave a window open that its
  page did not list and try the routing all the same, which is what
  `ReopenEndsWindows` excepts (`api/handlers_scope_actions.go:384`, `401`-`407`); a cancellation whose windows are no
  longer open ends whatever is in effect for the SKU
  (`api/handlers_scope_actions.go:334`); a batch cancellation reports a reopening
  but leaves routing as it is; an extension by chat moves the start of the newer
  windows back to that of the oldest one not cancelled; a service whose windows
  the chat replaces is without maintenance if the process dies in between;
- plans: a scope approval inserts a plan of its own and leaves the pending one
  pending, because its cancellation fails, and the fallback of the poll may offer
  it again (`api/dashboard.go:268`); approving everything in the chat with no scope
  in focus applies the pending plans of all products;
- chat: a retry is not noticed while the turn it repeats has not been recorded
  (`src/README.md:2956`); of two corrections of one text the one with the fewer hits
  wins, as the rows come by falling `hit_count` and the later overwrites the earlier
  (`store/chat_voice.go:71`-`83`); mined patterns and examples have no unique key and double with every
  run, and the patterns an admin approves are read by nobody; a session is looked up and
  then inserted; reopening by a named provider without a row sets every share to
  zero;
- mails: the dedupe key is looked up before and recorded after sending.

## 6. Plan

1. An abstract specification of maintenance windows (a service is closed or open,
   one request at a time) for `Maintenance` to implement, as `ScopePlans`
   implements `AtomicPlans`.
2. An instance of `AgentCycle` with two SKUs of one product and nobody but the
   agent, small enough for TLC, for the windows that are pooled by provider
   (`agent/breach.go:29`); the theorems already cover any number of SKUs.
3. The disagreement of `DismissalHolds` with `src/README.md:865` as a run of its own.

## 7. Not modelled

- Rule engine, mails, texts, formatting, charts and lists: no decision reads
  what they write.
- The classification of chat messages, phonetic tables, pattern mining and the
  language model: what is modelled is the operations they choose from.
- Code nothing reaches: `ensureScopeSuggestion`, `resolveScopeAction`,
  `buildScopeAction`, `worstProviderInScope`, `suggestActionFromDB`,
  `buildProductContextForScope`, `scopeAnyProviderBreached`, `rollback/`,
  `checkPendingRecoveries` (nothing writes its table).
- HTTP plumbing, authentication, configuration, event stream, web front end.
- The numbers of metrics and thresholds: five classes stand for how the
  comparisons come out.
- One deployment of one agent and one api process is assumed, as the code does.

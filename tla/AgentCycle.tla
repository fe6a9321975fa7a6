----------------------------- MODULE AgentCycle -----------------------------
(***************************************************************************)
(* The worker agent (agent.Runner, Collector, Reasoner): one cycle collects *)
(* what it needs of every product, then for each product opens or reuses   *)
(* an incident and shifts traffic, opens maintenance windows or leaves a    *)
(* proposal, then writes the history the next cycles count breaches in.    *)
(* Between any two of its statements operators act through the API, time   *)
(* passes, and a statement may fail or the process die.                    *)
(*                                                                         *)
(* UpdateRouting is one step here; RoutingWriter has its statements.        *)
(* Cycle ids are kept relative: a mark remembers how many successful cycles *)
(* have an id above the one it was made with, and whether that is the id   *)
(* of the cycle in progress.                                               *)
(*                                                                         *)
(* The schema is strict: incidents.resolution_action and                   *)
(* routing_plans.status are ENUMs without the values that                  *)
(* autoResolveHealthyScopes and CancelPendingRoutingPlansForScope write, so *)
(* those UPDATEs fail, and their callers drop the error.                   *)
(***************************************************************************)
EXTENDS RoutingMath, Sequences, SequencesExt

CONSTANTS
    Products,      \* enabled products, in the order they are processed
    SKUs,          \* sku codes, unique over products
    ProductOf,     \* product of each sku
    ScopeOrder,    \* <<sku, provider>> pairs in the order of ListMetricScopes
    Required,      \* consecutive_cycles_required
    Rate,          \* success rate that weighs a provider in a plan
    Starts,        \* percentages a sku may start from
    AdminShares,   \* percentages an operator may submit
    FirstClasses,  \* metric classes a scope may start with
    SeenClasses,   \* metric classes that occur
    MaxMoves,      \* bound: metric changes, operator actions and faults
    None

VARIABLES
    traffic,       \* routing_config.traffic_pct
    windows,       \* <<sku, provider>> with an active maintenance window
    metrics,       \* newest metrics row of each scope
    streak,        \* newest history rows in breach, without a gap, up to Required
    auto,          \* skus for which ShouldAutoApplyScope holds
    incidents,     \* open incidents of each sku
    plans,         \* pending routing plans of each sku, oldest first
    recs,          \* <<sku, action_type>> of recommendations that still count
    cooldown,      \* skus with a plan executed in the last 30 minutes
    mark,          \* recovery_apply_cycle_id of each sku
    pc, todo, ctx, scope, left,    \* the cycle in progress
    moves

agentVars == <<pc, todo, ctx, scope, left>>
vars == <<traffic, windows, metrics, streak, auto, incidents, plans, recs,
          cooldown, mark, agentVars, moves>>

Scopes == SKUs \X Providers
Shares == [Providers -> 0..Full]
Mark   == [fresh : BOOLEAN, since : 0..2]
Plan   == [pct : Shares, mark : Mark]

ThisCycle  == [fresh |-> TRUE, since |-> 0]
LastCycle  == [fresh |-> FALSE, since |-> 0]

ASSUME OrderAssumption ==
    /\ ToSet(ScopeOrder) = Scopes /\ IsInjective(ScopeOrder)
    /\ Range(ProductOf) \subseteq ToSet(Products) /\ DOMAIN ProductOf = SKUs
    /\ Required \in Nat \ {0}

\* ListEnabledProducts and ListMetricScopes return every row once; shares are
\* DECIMAL(5,2), checked by UpdateRouting to be no more than 100%.
ASSUME InputsAssumption ==
    /\ Products \in Seq(ToSet(Products)) /\ IsInjective(Products)
    /\ ScopeOrder \in Seq(Scopes)
    /\ Starts \subseteq Shares /\ AdminShares \subseteq Shares
    /\ Rate \in [Providers -> Nat]
    /\ FirstClasses \subseteq SeenClasses

-----------------------------------------------------------------------------
(* What a cycle knows of a scope: the snapshot taken by CollectAll, never    *)
(* read again.                                                             *)

View(s) == ctx.seen[s]

IsSeen(s, p) == View(s)[p] # "none"
Breached(s, p) == Flagged(View(s)[p])

\* maintainedProvidersFromScopes pools the windows of all skus of the product.
Maintained(s) ==
    {p \in Providers : \E r \in SKUs : ProductOf[r] = ProductOf[s] /\ <<r, p>> \in ctx.windows}

Consecutive(s, p) == streak[<<s, p>>] + (IF ExtendsRun(View(s)[p]) THEN 1 ELSE 0)

\* scopeStateFromThreshold and, on top of it, overlayRecoveryState.
State(s, p) ==
    CASE ctx.since[s] = 1 -> "RECOVERING"
      [] ctx.since[s] = 2 -> IF Breached(s, p) THEN "INCIDENT" ELSE "NORMAL"
      [] OTHER -> IF ~Breached(s, p) THEN "NORMAL"
                  ELSE IF Consecutive(s, p) >= Required THEN "INCIDENT" ELSE "WARNING"

Rank(s, p) == CASE State(s, p) = "INCIDENT" -> 3 [] State(s, p) = "WARNING" -> 2 [] OTHER -> 1

Candidates(prod) == {x \in Scopes : ProductOf[x[1]] = prod /\ Breached(x[1], x[2])}

Place(x) == CHOOSE i \in DOMAIN ScopeOrder : ScopeOrder[i] = x

\* worstScope: the first scope of the highest rank; one per product and cycle.
WorstScopes(candidates) ==
    {x \in candidates : \A y \in candidates :
        \/ Rank(x[1], x[2]) > Rank(y[1], y[2])
        \/ Rank(x[1], x[2]) = Rank(y[1], y[2]) /\ Place(x) <= Place(y)}

\* countHealthyBackups reads the metrics table, also of maintained providers.
HealthyBackups(s, worst) ==
    {p \in Providers \ {worst} : /\ ctx.traffic[s][p] > 0
                                 /\ ctx.metrics[<<s, p>>] # "none"
                                 /\ ~MetricsBreach(ctx.metrics[<<s, p>>])}

\* SuggestedAction of the worst scope, overruled by the decision for the SKU.
EffectiveAction(s, worst) ==
    IF \/ SKURoutingDecision(ctx.traffic[s], Maintained(s), View(s)) = "maintenance"
       \/ Cardinality(Providers) <= 1 \/ HealthyBackups(s, worst) = {}
    THEN "maintenance" ELSE "routing"

ForceMaintenance(s) ==
    \/ ShouldForceAutoMaintenance(ctx.traffic[s], Maintained(s), View(s))
    \/ ShouldForceAutoMaintenanceAllProviders(ctx.traffic[s], Maintained(s), View(s))

\* thRes.ShouldAct || forceMaint || forceAllMaint || forceRouting.
Acts(s, worst) ==
    \/ Consecutive(s, worst) >= Required
    \/ ForceMaintenance(s)
    \/ ShouldForceAutoRouting(ctx.traffic[s], Maintained(s), View(s))

\* The scope in hand: locals of emitOutputs.
Assessed(x) ==
    [sku |-> x[1], worst |-> x[2], action |-> EffectiveAction(x[1], x[2]),
     force |-> ForceMaintenance(x[1]), acts |-> Acts(x[1], x[2])]

Product == Head(todo)
SKU     == scope.sku
Worst   == scope.worst

\* cycleID <= recovery_apply_cycle_id.
InGrace == mark[SKU] # None /\ mark[SKU].fresh

UnderMaintenance(s) == \E p \in Providers : <<s, p>> \in windows

\* maintenanceTargetsFromRouting: every provider with traffic, under
\* maintenance or not, when all routable ones breach; else the worst one.
MaintenanceTargets ==
    IF AllRoutableBreach(ctx.traffic[SKU], Maintained(SKU), View(SKU))
    THEN {p \in Providers : ctx.traffic[SKU][p] > 0} ELSE {Worst}

-----------------------------------------------------------------------------
(* Strict ENUM columns of db/schema.sql.                                    *)

PlanStatuses == {"draft", "pending_approve", "approved", "rejected", "executed"}
ResolutionActions == {"admin_approve", "admin_reject", "auto"}

\* CancelPendingRoutingPlansForScope: SET status = 'cancelled'.
CancelPending(pending) == IF "cancelled" \in PlanStatuses THEN <<>> ELSE pending

\* UpdateIncidentHandled on the newest open incident of a sku.
Resolved(open, action) == IF open > 0 /\ action \in ResolutionActions THEN open - 1 ELSE open

Init ==
    /\ traffic \in [SKUs -> Starts]
    /\ windows = {}
    /\ metrics \in [Scopes -> FirstClasses]
    /\ streak = [x \in Scopes |-> 0]
    /\ auto \in SUBSET SKUs
    /\ incidents = [s \in SKUs |-> 0]
    /\ plans = [s \in SKUs |-> <<>>]
    /\ recs = {}
    /\ cooldown = {}
    /\ mark = [s \in SKUs |-> None]
    /\ pc = "idle" /\ todo = <<>> /\ ctx = None /\ scope = None /\ left = {}
    /\ moves = 0

-----------------------------------------------------------------------------
(* The runner and the collector.                                           *)

\* Mutant of Aged: a cycle runs under the id of the one before it.
SameId(m) == m

Aged(m) == IF m = None THEN None ELSE [m EXCEPT !.fresh = FALSE]
AgedPlans(ps) == [i \in DOMAIN ps |-> [ps[i] EXCEPT !.mark = Aged(@)]]

\* RunOnce: StartAnalysisCycle gives the cycle an id above all others.
Start ==
    /\ pc = "idle"
    /\ pc' = "collect"
    /\ mark' = [s \in SKUs |-> Aged(mark[s])]
    /\ plans' = [s \in SKUs |-> AgedPlans(plans[s])]
    /\ UNCHANGED <<traffic, windows, metrics, streak, auto, incidents, recs,
                   cooldown, todo, ctx, scope, left, moves>>

\* Mutant of RecoveryOver: every provider of the sku has to be seen healthy.
RecoveryOverForAll(s) ==
    ctx'.since[s] = 2 /\ \A p \in Providers : (IsSeen(s, p))' /\ ~(Breached(s, p))'

\* overlayRecoveryState asks for the mark to be cleared: two successful cycles
\* since the change and a provider of the sku that is not breached.
RecoveryOver(s) ==
    /\ ctx'.since[s] = 2
    /\ \E p \in Providers : (IsSeen(s, p))' /\ ~(Breached(s, p))'

\* collectScope: a provider under maintenance, without traffic or without
\* metrics is skipped and has no metrics in the ProductContext.
Collected(s) ==
    [p \in Providers |-> IF <<s, p>> \in windows \/ traffic[s][p] = 0
                         THEN "none" ELSE metrics[<<s, p>>]]

\* CollectAll, with applyRecoveryOverlay and its ClearRecoveryStart.
Collect ==
    /\ pc = "collect"
    /\ ctx' = [traffic |-> traffic, windows |-> windows, metrics |-> metrics,
               seen |-> [s \in SKUs |-> Collected(s)],
               since |-> [s \in SKUs |-> IF mark[s] = None THEN 0 ELSE mark[s].since]]
    /\ mark' = [s \in SKUs |-> IF RecoveryOver(s) THEN None ELSE mark[s]]
    /\ todo' = Products
    /\ pc' = IF Products = <<>> THEN "history" ELSE "assess"
    /\ UNCHANGED <<traffic, windows, metrics, streak, auto, incidents, plans, recs,
                   cooldown, scope, left, moves>>

-----------------------------------------------------------------------------
(* emitOutputs.                                                             *)

NothingBreached ==
    /\ pc = "assess"
    /\ Candidates(Product) = {}
    /\ pc' = "resolve"
    /\ UNCHANGED <<traffic, windows, metrics, streak, auto, incidents, plans, recs,
                   cooldown, mark, todo, ctx, scope, left, moves>>

Assess ==
    /\ pc = "assess"
    /\ \E x \in WorstScopes(Candidates(Product)) : scope' = Assessed(x)
    /\ pc' = "gate"
    /\ UNCHANGED <<traffic, windows, metrics, streak, auto, incidents, plans, recs,
                   cooldown, mark, todo, ctx, left, moves>>

LeaveScope == pc' = "resolve" /\ scope' = None

\* Mutant of IncidentsAfterAct: the open incident is not looked up.
AlwaysNewIncident(open) == open + 1

\* FindOpenIncidentForScope, else InsertIncident.
IncidentsAfterAct(open) == IF open > 0 THEN open ELSE 1

OpenIncident ==
    /\ pc = "gate"
    /\ scope.acts
    /\ incidents' = [incidents EXCEPT ![SKU] = IncidentsAfterAct(@)]
    /\ pc' = "decide"
    /\ UNCHANGED <<traffic, windows, metrics, streak, auto, plans, recs,
                   cooldown, mark, todo, ctx, scope, left, moves>>

\* Not enough cycles yet: a monitor recommendation, unless there is one.
Monitor ==
    /\ pc = "gate"
    /\ ~scope.acts
    /\ recs' = recs \cup {<<SKU, "monitor">>}
    /\ LeaveScope
    /\ UNCHANGED <<traffic, windows, metrics, streak, auto, incidents, plans,
                   cooldown, mark, todo, ctx, left, moves>>

\* Mutant of RoutingHeld: any recommendation holds routing, not maintenance only.
RoutingHeldByAny == InGrace \/ (\E r \in recs : r[1] = SKU) \/ UnderMaintenance(SKU)

\* Reasons not to touch routing: grace, a pending maintenance recommendation,
\* or a window that is active now.
RoutingHeld == InGrace \/ <<SKU, "maintenance">> \in recs \/ UnderMaintenance(SKU)

HoldRouting ==
    /\ pc = "decide"
    /\ scope.action = "routing"
    /\ RoutingHeld
    /\ plans' = IF ~InGrace /\ <<SKU, "maintenance">> \notin recs
                THEN [plans EXCEPT ![SKU] = CancelPending(@)] ELSE plans
    /\ LeaveScope
    /\ UNCHANGED <<traffic, windows, metrics, streak, auto, incidents, recs,
                   cooldown, mark, todo, ctx, left, moves>>

Proposals == BuildRoutingPlan(ctx.traffic[SKU], Maintained(SKU), View(SKU), Rate, Worst)

\* Mutant of WithProposal: the pending plan is not looked for.
WithAnother(old, plan, needless) == IF needless THEN old ELSE Append(old, plan)

\* UpdatePendingRoutingPlanForScope on the newest pending plan, else
\* InsertRoutingPlan.
WithProposal(old, plan, needless) ==
    IF old # <<>> THEN Append(Front(old), plan) ELSE IF needless THEN old ELSE <<plan>>

\* Without auto mode: refresh the newest pending plan, or propose one unless
\* it is in place already or one was executed half an hour ago at most.
ProposeRouting ==
    /\ pc = "decide"
    /\ scope.action = "routing"
    /\ ~RoutingHeld
    /\ SKU \notin auto
    /\ \E r \in Proposals :
         plans' = [plans EXCEPT ![SKU] =
             WithProposal(@, [pct |-> r, mark |-> ThisCycle],
                          RoutingMatchesProposed(ctx.traffic[SKU], r) \/ SKU \in cooldown)]
    /\ LeaveScope
    /\ UNCHANGED <<traffic, windows, metrics, streak, auto, incidents, recs,
                   cooldown, mark, todo, ctx, left, moves>>

\* Auto mode, applyRoutingPlanAuto: UpdateRouting marks the recovery and
\* resolves the incident; pending plans are cancelled first.
ApplyRouting ==
    /\ pc = "decide"
    /\ scope.action = "routing"
    /\ ~RoutingHeld
    /\ SKU \in auto
    /\ plans' = [plans EXCEPT ![SKU] = CancelPending(@)]
    /\ \E r \in Proposals : traffic' = [traffic EXCEPT ![SKU] = r]
    /\ mark' = [mark EXCEPT ![SKU] = ThisCycle]
    /\ incidents' = [incidents EXCEPT ![SKU] = Resolved(@, "auto")]
    /\ pc' = "record"
    /\ UNCHANGED <<windows, metrics, streak, auto, recs, cooldown, todo, ctx, scope, left, moves>>

\* InsertRoutingPlan with status executed.  The check that follows, whether
\* the last provider must now be maintained, reads the routing of the snapshot,
\* which had two routable providers: it never holds.
RecordPlan ==
    /\ pc = "record"
    /\ cooldown' = cooldown \cup {SKU}
    /\ LeaveScope
    /\ UNCHANGED <<traffic, windows, metrics, streak, auto, incidents, plans, recs,
                   mark, todo, ctx, left, moves>>

\* Maintenance: grace does not stop a forced one; auto mode goes on to open
\* windows, otherwise a recommendation is inserted.
DecideMaintenance ==
    /\ pc = "decide"
    /\ scope.action = "maintenance"
    /\ IF InGrace /\ ~scope.force
       THEN LeaveScope /\ UNCHANGED <<plans, recs, left>>
       ELSE /\ plans' = [plans EXCEPT ![SKU] = CancelPending(@)]
            /\ IF SKU \in auto
               THEN left' = MaintenanceTargets /\ pc' = "windows" /\ UNCHANGED <<scope, recs>>
               ELSE /\ recs' = recs \cup {<<SKU, "maintenance">>}
                    /\ LeaveScope /\ UNCHANGED left
    /\ UNCHANGED <<traffic, windows, metrics, streak, auto, incidents,
                   cooldown, mark, todo, ctx, moves>>

\* applyMaintenanceAuto, one SetMaintenance: no overlap, insert.
OpenWindow ==
    /\ pc = "windows"
    /\ \E p \in left :
         /\ <<SKU, p>> \notin windows
         /\ windows' = windows \cup {<<SKU, p>>}
         /\ left' = left \ {p}
    /\ UNCHANGED <<traffic, metrics, streak, auto, incidents, plans, recs, cooldown,
                   mark, pc, todo, ctx, scope, moves>>

WindowsOpened ==
    /\ pc = "windows"
    /\ left = {}
    /\ LeaveScope
    /\ UNCHANGED <<traffic, windows, metrics, streak, auto, incidents, plans, recs,
                   cooldown, mark, todo, ctx, left, moves>>

Aborted ==
    /\ pc' = "idle" /\ todo' = <<>> /\ ctx' = None /\ scope' = None /\ left' = {}

\* SetMaintenance finds an overlapping window: the error ends the cycle.
Overlap ==
    /\ pc = "windows"
    /\ \E p \in left : <<SKU, p>> \in windows
    /\ Aborted
    /\ UNCHANGED <<traffic, windows, metrics, streak, auto, incidents, plans, recs,
                   cooldown, mark, moves>>

-----------------------------------------------------------------------------
(* autoResolveHealthyScopes.                                                *)

\* All skus of a product whose seen scopes are NORMAL; otherwise each sku with
\* some provider that is not breached.
Recovered(prod) ==
    LET mine == {s \in SKUs : ProductOf[s] = prod}
    IN  IF \A s \in mine, p \in Providers : IsSeen(s, p) => State(s, p) = "NORMAL"
        THEN mine
        ELSE {s \in mine : \E p \in Providers : IsSeen(s, p) /\ ~Breached(s, p)}

\* A recovered sku loses its recommendations if it has an open incident, and
\* would have the incident resolved and its plans cancelled.
AutoResolve ==
    LET done == Recovered(Product)
    IN  /\ pc = "resolve"
        /\ incidents' = [s \in SKUs |-> IF s \in done THEN Resolved(incidents[s], "healthy")
                                       ELSE incidents[s]]
        /\ recs' = {r \in recs : ~(r[1] \in done /\ incidents[r[1]] > 0)}
        /\ plans' = [s \in SKUs |-> IF s \in done THEN CancelPending(plans[s]) ELSE plans[s]]
        /\ todo' = Tail(todo)
        /\ pc' = IF Tail(todo) = <<>> THEN "history" ELSE "assess"
        /\ UNCHANGED <<traffic, windows, metrics, streak, auto, cooldown, mark,
                       ctx, scope, left, moves>>

-----------------------------------------------------------------------------
(* The end of a cycle.                                                      *)

\* Mutant of NextStreak: the rows that are read are not limited.
StreakUnlimited(n, c) == IF ~MetricsBreach(c) THEN 0 ELSE n + 1

\* CountConsecutiveBreaches over the rows up to and including this one.
NextStreak(n, c) ==
    IF ~MetricsBreach(c) THEN 0 ELSE IF n < Required THEN n + 1 ELSE n

\* InsertAnalysisHistory for the scopes that were not skipped, row by row.
StreakAfter(rows) ==
    [x \in Scopes |-> IF x \in rows /\ IsSeen(x[1], x[2])
                      THEN NextStreak(streak[x], View(x[1])[x[2]]) ELSE streak[x]]

WriteHistory ==
    /\ pc = "history"
    /\ streak' = StreakAfter(Scopes)
    /\ pc' = "finish"
    /\ UNCHANGED <<traffic, windows, metrics, auto, incidents, plans, recs,
                   cooldown, mark, todo, ctx, scope, left, moves>>

\* A successful cycle counts for the marks made before it.
OneMore(m) == IF m = None \/ m.fresh \/ m.since = 2 THEN m ELSE [m EXCEPT !.since = @ + 1]

\* FinishAnalysisCycleFull.
Finish ==
    /\ pc = "finish"
    /\ mark' = [s \in SKUs |-> OneMore(mark[s])]
    /\ plans' = [s \in SKUs |-> [i \in DOMAIN plans[s] |->
                                    [plans[s][i] EXCEPT !.mark = OneMore(@)]]]
    /\ pc' = "idle" /\ todo' = <<>> /\ ctx' = None /\ scope' = None /\ left' = {}
    /\ UNCHANGED <<traffic, windows, metrics, streak, auto, incidents, recs,
                   cooldown, moves>>

\* A statement fails or the worker dies: what was written stays, of the
\* history rows a prefix, and the cycle is failed (or running for ever).
Fault ==
    /\ pc # "idle" /\ moves < MaxMoves
    /\ moves' = moves + 1
    /\ \E n \in 0..Len(ScopeOrder) :
         /\ pc # "history" => n = 0
         /\ streak' = IF n = 0 THEN streak ELSE StreakAfter(Range(SubSeq(ScopeOrder, 1, n)))
    /\ Aborted
    /\ UNCHANGED <<traffic, windows, metrics, auto, incidents, plans, recs, cooldown, mark>>

-----------------------------------------------------------------------------
(* Everybody else, through the same tables.                                 *)

Moved == moves < MaxMoves /\ moves' = moves + 1 /\ UNCHANGED <<agentVars, auto>>

\* The mock worker or the provider gateway writes a new metrics row.
MetricsChange ==
    /\ Moved
    /\ \E x \in Scopes, c \in SeenClasses : metrics' = [metrics EXCEPT ![x] = c]
    /\ UNCHANGED <<traffic, windows, streak, incidents, plans, recs, cooldown, mark>>

\* handleRoutingPlanApprove: UpdateRouting with the cycle id of the plan.
ApprovePlan ==
    /\ Moved
    /\ \E s \in SKUs : \E i \in DOMAIN plans[s] :
         /\ traffic' = [traffic EXCEPT ![s] = plans[s][i].pct]
         /\ mark' = [mark EXCEPT ![s] = plans[s][i].mark]
         /\ incidents' = [incidents EXCEPT ![s] = Resolved(@, "admin_approve")]
         /\ plans' = [plans EXCEPT ![s] = RemoveAt(@, i)]
         /\ cooldown' = cooldown \cup {s}
    /\ UNCHANGED <<windows, metrics, streak, recs>>

\* handleRoutingPlanReject: the incident is acknowledged.
RejectPlan ==
    /\ Moved
    /\ \E s \in SKUs : \E i \in DOMAIN plans[s] :
         /\ incidents' = [incidents EXCEPT ![s] = Resolved(@, "admin_reject")]
         /\ plans' = [plans EXCEPT ![s] = RemoveAt(@, i)]
    /\ UNCHANGED <<traffic, windows, metrics, streak, recs, cooldown, mark>>

\* Reopening a scope: its windows are cancelled, traffic is set, recovery
\* starts with the latest successful cycle.
Reopen ==
    /\ Moved
    /\ \E s \in SKUs, t \in AdminShares :
         /\ windows' = {x \in windows : x[1] # s}
         /\ traffic' = [traffic EXCEPT ![s] = t]
         /\ mark' = [mark EXCEPT ![s] = LastCycle]
         /\ plans' = [plans EXCEPT ![s] = CancelPending(@)]
    /\ UNCHANGED <<metrics, streak, incidents, recs, cooldown>>

\* An operator opens a window; one that is open for the scope is replaced, or
\* the request refused.
Maintain ==
    /\ Moved
    /\ \E x \in Scopes : windows' = windows \cup {x}
    /\ UNCHANGED <<traffic, metrics, streak, incidents, plans, recs, cooldown, mark>>

\* A window ends, or an operator cancels it.
WindowEnds ==
    /\ Moved
    /\ \E x \in windows : windows' = windows \ {x}
    /\ UNCHANGED <<traffic, metrics, streak, incidents, plans, recs, cooldown, mark>>

\* A recommendation is dismissed or a day old, half an hour since the last
\* executed plan is over.
TimePasses ==
    /\ \/ \E r \in recs : recs' = recs \ {r} /\ UNCHANGED cooldown
       \/ \E s \in cooldown : cooldown' = cooldown \ {s} /\ UNCHANGED recs
    /\ UNCHANGED <<traffic, windows, metrics, streak, auto, incidents, plans, mark,
                   agentVars, moves>>

Agent ==
    \/ Start \/ Collect \/ NothingBreached \/ Assess \/ OpenIncident \/ Monitor
    \/ HoldRouting \/ ProposeRouting \/ ApplyRouting \/ RecordPlan
    \/ DecideMaintenance \/ OpenWindow \/ WindowsOpened \/ Overlap
    \/ AutoResolve \/ WriteHistory \/ Finish

Others ==
    \/ MetricsChange \/ ApprovePlan \/ RejectPlan \/ Reopen \/ Maintain
    \/ WindowEnds \/ TimePasses

Next == Agent \/ Fault \/ Others

\* RunBlocking keeps ticking and a started cycle runs on; nobody else must act.
Spec == Init /\ [][Next]_vars /\ WF_vars(Agent)

-----------------------------------------------------------------------------
TypeOK ==
    /\ traffic \in [SKUs -> Shares]
    /\ windows \subseteq Scopes
    /\ metrics \in [Scopes -> SeenClasses]
    /\ streak \in [Scopes -> 0..Required]
    /\ auto \subseteq SKUs
    /\ incidents \in [SKUs -> Nat]
    /\ plans \in [SKUs -> Seq(Plan)]
    /\ recs \subseteq SKUs \X {"monitor", "maintenance"}
    /\ cooldown \subseteq SKUs
    /\ mark \in [SKUs -> Mark \cup {None}]
    /\ pc \in {"idle", "collect", "assess", "gate", "decide", "record", "windows", "resolve",
              "history", "finish"}
    /\ todo \in {SubSeq(Products, i, Len(Products)) : i \in 1..(Len(Products) + 1)}
    /\ scope \in [sku : SKUs, worst : Providers, action : {"routing", "maintenance"},
                  force : BOOLEAN, acts : BOOLEAN] \cup {None}
    /\ left \subseteq Providers

\* At most one incident of a sku is open, whatever operators and faults do to
\* the cycles: the agent looks for an open one before it inserts.
OneOpenIncident == \A s \in SKUs : incidents[s] <= 1

\* At most one routing plan of a sku waits for approval, as long as nobody but
\* the agent proposes: it refreshes the one it finds.
OnePendingPlan == \A s \in SKUs : Len(plans[s]) <= 1

\* The grace emitOutputs looks for (reasoning.go:142) is never in force: the
\* marks it could find were all made with the id of an earlier cycle.
GraceNeverHolds == pc = "decide" => ~InGrace

\* An automatic change takes all traffic from every provider the cycle saw in
\* breach, moves none (beyond rounding) onto a provider it saw under maintenance
\* of a sku it saw whole, and leaves the sku with 100%, even when operators
\* moved traffic meanwhile.
AutomaticShift ==
    [][pc = "decide" /\ pc' = "record" =>
         /\ SumFunction(traffic'[SKU]) = Full
         /\ \A p \in Providers :
              /\ MetricsBreach(View(SKU)[p]) => traffic'[SKU][p] = 0
              /\ p \in Maintained(SKU) /\ SumFunction(ctx.traffic[SKU]) = Full
                    => traffic'[SKU][p] < ctx.traffic[SKU][p] + Point]_vars

Exposed(s) == \E p \in Providers : /\ traffic[s][p] > 0 /\ <<s, p>> \notin windows
                                    /\ MetricsBreach(metrics[<<s, p>>])

\* An open window keeps the agent from routing between the others.
HeldByWindow(s) ==
    /\ UnderMaintenance(s)
    /\ Cardinality({p \in Providers : traffic[s][p] > 0 /\ <<s, p>> \notin windows}) > 1

\* Auto mode: however often metrics change, operators interfere and cycles
\* fail, once they let the agent work no breached provider keeps live traffic,
\* except between the open windows of a sku.
AutoSettles == \A s \in SKUs : s \in auto => []<>(~Exposed(s) \/ HeldByWindow(s))

\* A recovery does not go on for ever: its mark is cleared unless no provider
\* of the sku reports metrics within its thresholds.
RecoveryEnds ==
    \A s \in SKUs :
        []<>(\/ mark[s] = None
             \/ \A p \in Providers : \/ traffic[s][p] = 0 \/ <<s, p>> \in windows
                                       \/ metrics[<<s, p>>] \in {"none", "bad", "edge", "events"})

AllNormal ==
    \A s \in SKUs, p \in Providers :
        ProductOf[s] = Product => IsSeen(s, p) /\ State(s, p) = "NORMAL"

\* reasoning.go:506: "If the entire product is Normal, resolve all open
\* incidents for its scopes".
NormalProductHasNoIncident ==
    [][pc = "resolve" /\ todo' # todo /\ ctx' = ctx /\ AllNormal
         => \A s \in SKUs : ProductOf[s] = Product => incidents'[s] = 0]_vars
=============================================================================

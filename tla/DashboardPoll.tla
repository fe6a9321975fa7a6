--------------------------- MODULE DashboardPoll ---------------------------
(***************************************************************************)
(* GET /dashboard/overview for one scope in automatic mode.  The poll of   *)
(* every open dashboard takes its own snapshot of routing, metrics and     *)
(* windows and, when the snapshot shows a breach, moves traffic or opens   *)
(* maintenance windows itself, in up to two passes.  Several polls, the    *)
(* agent and operators do so at the same time: what a poll writes is       *)
(* decided from what it has read, in part long before, and kept in caches  *)
(* for the length of the request.                                          *)
(*                                                                         *)
(* UpdateRouting and applyMaintenanceTargets are one step each             *)
(* (RoutingWriter and Maintenance have their statements).  A snapshot has  *)
(* shares to a tenth of a percent; a plan is made for those in the table.  *)
(* Thresholds are in whole tenths, as the seed has them, so that the       *)
(* rounding of the rates never takes a breach away.                        *)
(***************************************************************************)
EXTENDS RoutingMath

CONSTANTS
    Rate,       \* success rate of each provider while it is in order
    Severity,   \* score of each provider while it is in breach
    Baseline,   \* baseline_pct
    Metrics,    \* classes of metrics that occur
    Manual,     \* routings an operator may put in force
    Configured, \* rows of routing_scope_state to start with
    Polls,
    Steady,     \* the polls of dashboards that are kept open
    MaxCycles,  \* bound: completed cycles
    Turns,      \* bound: changes by others than polls
    None

Modes == {"recommend_only", "auto"}

ASSUME PollAssumption ==
    /\ Rate \in [Providers -> Nat] /\ Severity \in [Providers -> Nat]
    /\ Baseline \in Manual /\ Manual \subseteq [Providers -> 0..Full]
    /\ \A r \in Manual : SumFunction(r) \in (Full - 1)..(Full + 1)   \* validateRoutingPct
    /\ Metrics \subseteq Classes
    /\ None \notin [Providers -> 0..Full] /\ None \notin [Providers -> Metrics]
    /\ Configured \subseteq [service : Modes \cup {None}, sku : Modes \cup {None}]
    /\ Steady \subseteq Polls
    /\ {MaxCycles, Turns} \subseteq Nat

VARIABLES
    pct,        \* routing_config
    windows,    \* providers with a window in effect
    metrics,    \* class of the live metrics of each provider
    cycle,      \* newest completed cycle, 0 for none
    mark,       \* recovery_apply_cycle_id
    mode,       \* routing_scope_state: auto_action of the service and of the SKU
    turns,
    poll,       \* per poll: control, what it has read and what it has cached
    overtaken   \* history: polls during which somebody else wrote

scope == <<pct, windows, metrics, cycle, mark, mode>>
vars  == <<scope, turns, poll, overtaken>>

Idle  == [pc |-> "idle", pass |-> 0, pct |-> None, seen |-> None, windows |-> {}, cycle |-> 0,
          grace |-> FALSE, cached |-> None]

-----------------------------------------------------------------------------
(* What a poll makes of what it has read; v is its record.                 *)

\* ResolveEffectiveScopeAuto: a row of the service overrides those of its SKUs.
\* A time window is one of the modes at any moment.
ResolveEffectiveScopeAuto ==
    IF mode.service # None THEN mode.service
    ELSE IF mode.sku # None THEN mode.sku ELSE "recommend_only"

ShouldAutoApplyScope == ResolveEffectiveScopeAuto = "auto"

\* roundPct, of a / b hundredths of a percent.
Tenths(a, b) == 10 * ((2 * a + 10 * b) \div (20 * b))

Displayed(r) == [p \in Providers |-> Tenths(r[p], 1)]

\* maintainedActiveProviders.
MaintainedActive(v) == {p \in v.windows : v.pct[p] > 0}

\* maintenanceOverview is in the row, whatever the provider carries.
InActiveMaintenance(v) == v.windows # {}

\* normalizeRoutingDisplay: the providers not maintained share the whole.
Effective(v) ==
    LET maintained == MaintainedActive(v)
        total == SumFunctionOnSet(v.pct, Providers \ maintained)
    IN  IF maintained = {} THEN v.pct
        ELSE [p \in Providers |-> IF p \in maintained \/ total = 0 THEN 0
                                  ELSE Tenths(v.pct[p] * Full, total)]

ActiveRouting(v) == {p \in Providers : Effective(v)[p] > 0}

SkuWide(v) ==
    ActiveRouting(v) # {} /\ Cardinality(MaintainedActive(v)) >= Cardinality(ActiveRouting(v))

\* ScopeContexts of buildScopeSnapshot: "none" for a provider left out.
Context(v) ==
    LET counted == IF SkuWide(v) THEN {} ELSE ActiveRouting(v)
    IN  [p \in Providers |-> IF p \in counted THEN v.seen[p] ELSE "none"]

\* providersFromSnapshot.
Shown(v) == IF SkuWide(v) THEN [p \in Providers |-> 0] ELSE Effective(v)

Breached(v) == LET context == Context(v) IN {p \in Providers : MetricsBreach(context[p])}

\* The first with the highest score; of several the map order decides, anew in
\* every pass.
Worst(v) == {p \in Breached(v) : \A q \in Breached(v) : Severity[q] <= Severity[p]}

ForceMaintenance(v) ==
    \/ ShouldForceAutoMaintenance(Shown(v), MaintainedActive(v), Context(v))
    \/ ShouldForceAutoMaintenanceAllProviders(Shown(v), MaintainedActive(v), Context(v))

ForceRouting(v) == ShouldForceAutoRouting(Shown(v), MaintainedActive(v), Context(v))

\* Mutant of AutoApplyAllowed: the recovery grace is not looked at.
AllowedInGrace(v, acts) ==
    Breached(v) # {} /\ (ForceMaintenance(v) \/ ForceRouting(v) \/ acts)

\* Mutant of AutoApplyAllowed: only the breaches of earlier cycles count.
AllowedByHistory(v, acts) == Breached(v) # {} /\ ~v.grace /\ acts

\* scopeAutoApplyAllowed and the guards of autoApplyScopeFromSnapshot; acts is
\* what ScopeConsecutiveBreachFromHistory makes of the cycles before.
AutoApplyAllowed(v, acts) ==
    Breached(v) # {} /\ (ForceMaintenance(v) \/ (~v.grace /\ (ForceRouting(v) \/ acts)))

\* maintenanceSuggestionStillNeeded.
StillNeeded(v) == \E p \in Breached(v) : Shown(v)[p] > 0 /\ p \notin MaintainedActive(v)

\* maintenanceTargetsForScope, for the routing now in force: every provider
\* that carries traffic, or the worst.
Targets(v, worst) ==
    IF AllRoutableBreach(Shown(v), MaintainedActive(v), Context(v))
    THEN {p \in Providers : pct[p] > 0} ELSE {worst}

\* The plan is for the shares in the cache, which are not rounded.
Proposals(v, worst) == BuildRoutingPlan(v.cached, MaintainedActive(v), Context(v), Rate, worst)

\* Mutant of Decides: the share of healthy providers is not asked.
DecidesMaintenance(v) == "maintenance"

\* buildScopeActionReadonly.
Decides(v) == SKURoutingDecision(Shown(v), MaintainedActive(v), Context(v))

\* routingMapsEqual.
Same(a, b) == \A p \in Providers : a[p] - b[p] \in -5..5

-----------------------------------------------------------------------------
Init ==
    /\ pct = Baseline
    /\ windows = {}
    /\ metrics \in [Providers -> Metrics]
    /\ cycle = 0 /\ mark = 0
    /\ mode \in Configured
    /\ turns = 0
    /\ poll = [c \in Polls |-> Idle]
    /\ overtaken = {}

At(c, label) == poll[c].pc = label
Becomes(c, v) == poll' = [poll EXCEPT ![c] = v]
Reads(c, v) ==
    /\ Becomes(c, v)
    /\ overtaken' = IF v = Idle THEN overtaken \ {c} ELSE overtaken
    /\ UNCHANGED <<scope, turns>>
InFlight == {c \in Polls : poll[c].pc # "idle"}

\* ListAllRoutingConfig.
ListAllRoutingConfig(c) ==
    /\ At(c, "idle")
    /\ Reads(c, [Idle EXCEPT !.pc = "caches", !.pct = Displayed(pct)])

\* newOverviewCaches: metrics and the newest completed cycle.
NewOverviewCaches(c) ==
    /\ At(c, "caches")
    /\ Reads(c, [poll[c] EXCEPT !.pc = "windows", !.seen = metrics, !.cycle = cycle])

\* ListMaintenanceWindows.
ListWindows(c) ==
    /\ At(c, "windows")
    /\ Reads(c, [poll[c] EXCEPT !.pc = "mode", !.windows = windows])

\* ListScopeAutoConfig; in manual mode, without a breach or with a window the
\* poll only shows what it finds.
ListScopeAutoConfig(c) ==
    LET v == poll[c]
        automatic == ShouldAutoApplyScope /\ ~InActiveMaintenance(v) /\ Breached(v) # {}
    IN  /\ At(c, "mode")
        /\ Reads(c, IF automatic THEN [v EXCEPT !.pc = "grace"] ELSE Idle)

\* The routing of the product, cached for its other SKUs and for both passes.
productRouting(c) ==
    /\ poll[c].pc \in {"grace", "plan"} /\ poll[c].cached = None
    /\ Reads(c, [poll[c] EXCEPT !.cached = pct])

\* inReopenRecoveryGrace.
InGrace(n) == mark # 0 /\ n <= mark

ReadGrace(c) ==
    /\ At(c, "grace")
    /\ Reads(c, [poll[c] EXCEPT !.pc = "plan", !.pass = 1, !.cycle = 0,
                                 !.grace = InGrace(poll[c].cycle)])

\* Others that are in flight are overtaken by what c writes.
Writes(c, v) ==
    /\ Becomes(c, v)
    /\ overtaken' = overtaken \cup (InFlight \ {c})
    /\ UNCHANGED <<metrics, cycle, mode, turns>>

Again(v) == [v EXCEPT !.pc = "again", !.pct = None]

\* Mutant of Valid: only more than all the traffic is refused.
AtMostAll(r) == SumFunction(r) <= Full + 1

\* validateRoutingPct: with nobody left to receive it, a plan loses the share
\* it takes from the providers in breach, and is refused.
Valid(r) == SumFunction(r) \in (Full - 1)..(Full + 1)

GivesUp(c) ==
    LET v == poll[c]
    IN  /\ At(c, "plan") /\ v.cached # None
        /\ Reads(c, Idle)
        /\ \E acts \in BOOLEAN :
             \/ ~AutoApplyAllowed(v, acts)
             \/ /\ Decides(v) = "routing"
                /\ \E worst \in Worst(v) : \E r \in Proposals(v, worst) :
                     ~Same(v.cached, r) /\ ~Valid(r)

\* autoApplyScopeFromSnapshot: UpdateRouting marks the recovery.
Shift(c) ==
    LET v == poll[c]
    IN  /\ At(c, "plan") /\ v.cached # None
        /\ Writes(c, Again(v))
        /\ \E acts \in BOOLEAN : AutoApplyAllowed(v, acts)
        /\ Decides(v) = "routing"
        /\ \E worst \in Worst(v) : \E r \in Proposals(v, worst) :
             ~Same(v.cached, r) /\ Valid(r) /\ pct' = r
        /\ mark' = cycle
        /\ UNCHANGED windows

MaintenanceDue(v, worst) ==
    \/ Decides(v) = "maintenance"
    \/ \E r \in Proposals(v, worst) : Same(v.cached, r)

\* autoApplyMaintenanceForScope: also when the plan has nothing to move.
OpenWindows(c) ==
    LET v == poll[c]
    IN  /\ At(c, "plan") /\ v.cached # None
        /\ \E acts \in BOOLEAN : AutoApplyAllowed(v, acts)
        /\ \E worst \in Worst(v) :
             LET targets == Targets(v, worst)
             IN  /\ MaintenanceDue(v, worst)
                 /\ IF StillNeeded(v) /\ targets # {} /\ targets \cap windows = {}
                    THEN /\ windows' = windows \cup targets
                         /\ Writes(c, Again(v))
                         /\ UNCHANGED <<pct, mark>>
                    ELSE Reads(c, Idle)

\* Mutant of ReadAgain: the routing is taken from the cache as well.
ReadCached(c) ==
    LET v == [poll[c] EXCEPT !.pct = Displayed(poll[c].cached)]
    IN  /\ At(c, "again")
        /\ Reads(c, IF v.pass = 1 /\ Breached(v) # {}
                    THEN [v EXCEPT !.pc = "plan", !.pass = 2] ELSE Idle)

\* GetRoutingForScope, then a new snapshot from the metrics and the windows of
\* the first one.
ReadAgain(c) ==
    LET v == [poll[c] EXCEPT !.pct = Displayed(pct)]
    IN  /\ At(c, "again")
        /\ Reads(c, IF v.pass = 1 /\ Breached(v) # {}
                    THEN [v EXCEPT !.pc = "plan", !.pass = 2] ELSE Idle)

\* One pass of the loop for a scope in automatic mode.
autoApplyScopeFromSnapshot(c) == productRouting(c) \/ GivesUp(c) \/ Shift(c) \/ OpenWindows(c)

handleDashboardOverview(c) ==
    \/ ListAllRoutingConfig(c) \/ NewOverviewCaches(c) \/ ListWindows(c) \/ ListScopeAutoConfig(c)
    \/ ReadGrace(c) \/ autoApplyScopeFromSnapshot(c) \/ ReadAgain(c)

-----------------------------------------------------------------------------
(* Others.                                                                 *)

Moves == turns < Turns /\ turns' = turns + 1 /\ UNCHANGED poll
Overtakes == overtaken' = overtaken \cup InFlight

\* handleScopeRoutingApply leaves no mark.
Apply ==
    /\ Moves /\ Overtakes
    /\ \E r \in Manual \ {pct} : pct' = r
    /\ UNCHANGED <<windows, metrics, cycle, mark, mode>>

\* Reopening: windows end, the baseline is restored, the recovery is marked.
applyScopeReopenRouting ==
    /\ Moves /\ Overtakes
    /\ windows' = {}
    /\ pct' = Baseline
    /\ mark' = cycle
    /\ UNCHANGED <<metrics, cycle, mode>>

handleScopeAutoPut ==
    /\ Moves /\ Overtakes
    /\ \E level \in {"service", "sku"}, a \in Modes :
         mode[level] # a /\ mode' = [mode EXCEPT ![level] = a]
    /\ UNCHANGED <<pct, windows, metrics, cycle, mark>>

\* The agent applies its own plan, marked with the cycle in progress.  It does
\* not round.
AgentShifts ==
    LET now == [Idle EXCEPT !.pct = pct, !.seen = metrics, !.windows = windows, !.cached = pct]
    IN  /\ Moves /\ Overtakes
        /\ ShouldAutoApplyScope /\ windows = {} /\ ~InGrace(cycle + 1) /\ cycle < MaxCycles
        /\ Decides(now) = "routing"
        /\ \E worst \in Worst(now) : pct' \in Proposals(now, worst)
        /\ mark' = cycle + 1
        /\ UNCHANGED <<windows, metrics, cycle, mode>>

FinishCycle ==
    /\ cycle < MaxCycles
    /\ cycle' = cycle + 1
    /\ UNCHANGED <<pct, windows, metrics, mark, mode, turns, poll, overtaken>>

\* Metrics change; a window ends, or is opened by an operator.
World ==
    /\ Moves
    /\ \/ \E p \in Providers, k \in Metrics : metrics[p] # k /\ metrics' = [metrics EXCEPT ![p] = k]
          /\ UNCHANGED <<windows, overtaken>>
       \/ /\ \/ windows # {} /\ windows' = {}
             \/ \E p \in Providers \ windows : windows' = windows \cup {p}
          /\ Overtakes /\ UNCHANGED metrics
    /\ UNCHANGED <<pct, cycle, mark, mode>>

Next ==
    \/ \E c \in Polls : handleDashboardOverview(c)
    \/ Apply \/ applyScopeReopenRouting \/ handleScopeAutoPut \/ AgentShifts
    \/ FinishCycle \/ World

\* A request ends early, at any statement, when its dashboard is closed.
Spec == Init /\ [][Next]_vars /\ \A c \in Steady : WF_vars(handleDashboardOverview(c))

-----------------------------------------------------------------------------
Requests ==
    [pc : {"idle", "caches", "windows", "mode", "grace", "plan", "again"}, pass : 0..2,
     pct : [Providers -> 0..Full] \cup {None}, seen : [Providers -> Metrics] \cup {None},
     windows : SUBSET Providers, cycle : 0..MaxCycles, grace : BOOLEAN,
     cached : [Providers -> 0..Full] \cup {None}]

TypeOK ==
    /\ pct \in [Providers -> 0..Full] /\ SumFunction(pct) \in (Full - 1)..(Full + 1)
    /\ windows \subseteq Providers
    /\ metrics \in [Providers -> Metrics]
    /\ cycle \in 0..MaxCycles /\ mark \in 0..MaxCycles
    /\ mode \in [service : Modes \cup {None}, sku : Modes \cup {None}]
    /\ turns \in 0..Turns
    /\ overtaken \subseteq Polls
    /\ poll \in [Polls -> Requests]
    /\ \A c \in Polls :
         /\ poll[c].pc \in {"caches", "windows", "mode", "grace", "plan"} => poll[c].pct # None
         /\ poll[c].pc \in {"windows", "mode", "grace", "plan", "again"} => poll[c].seen # None
         /\ poll[c].pc \in {"grace", "plan", "again"} => poll[c].windows = {}
         /\ poll[c].pc \in {"plan", "again"} => poll[c].pass # 0

Acts(c) == poll'[c].pc = "again" /\ poll[c].pc = "plan"

\* Less than 0.05 % is displayed as nothing.
NoCrumbs(r) == \A p \in Providers : r[p] \notin 1..4

\* README.md:2495: where a provider in order is left to take the traffic the
\* poll moves traffic and opens no window in its first pass, unless somebody
\* else wrote meanwhile.  Except for crumbs: one in order with less than 0.05 %
\* is not seen, and a plan that takes no more than 0.05 % from each provider in
\* breach counts as one with nothing to move.
NoNeedlessWindow ==
    [][\A c \in Polls \ overtaken :
         Acts(c) /\ poll[c].pass = 1 /\ windows' # windows
           => LET suffers == {p \in Providers : MetricsBreach(poll[c].seen[p])}
                  inOrder == {p \in Providers \ suffers : poll[c].seen[p] # "none"}
              IN  (\A p \in inOrder : pct[p] < 5) \/ (\A p \in suffers : pct[p] <= 5)]_vars

\* A poll that nobody overtook changes the scope once: its second pass, which
\* has the windows and the routing of the first in its caches, finds no more
\* to do, or is refused.  Except for crumbs: the plan of the first pass may give
\* traffic to a provider in breach that it did not see, which the second sees.
OneChangePerPoll ==
    [][\A c \in Polls \ overtaken :
         Acts(c) /\ NoCrumbs(poll[c].cached) => poll[c].pass = 1]_vars

\* reopen_routing.go:15: after a routing was applied the polls move no traffic
\* before the next cycle is complete; but for crumbs, as above.
WaitsForNextCycle ==
    [][\A c \in Polls \ overtaken :
         Acts(c) /\ NoCrumbs(poll[c].cached) /\ pct' # pct => ~InGrace(cycle)]_vars

Exposed == \E p \in Providers : pct[p] >= 5 /\ MetricsBreach(metrics[p])

\* In automatic mode the polls of a dashboard that is kept open bring a scope to
\* rest: with no window open and the grace over, no provider in breach goes on
\* carrying 0.05 % or more.
Settles == <>[](ShouldAutoApplyScope /\ windows = {} /\ ~InGrace(cycle) => ~Exposed)

\* README.md:858: the whole SKU counts as under maintenance only if every
\* active provider is.
SkuWideOnlyIfAll ==
    \A c \in Polls :
        poll[c].pc = "mode" => \A p \in ActiveRouting(poll[c]) :
            p \notin poll[c].windows => Context(poll[c])[p] = poll[c].seen[p]
=============================================================================

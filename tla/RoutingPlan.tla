---------------------------- MODULE RoutingPlan ----------------------------
(***************************************************************************)
(* The plans of one SKU over its life: metrics and maintenance change, the *)
(* agent decides and builds a plan from what it sees, the plan is executed *)
(* and the next one starts from its percentages.  Exercises the operators  *)
(* of RoutingMath on every combination of inputs, including percentages    *)
(* that do not add up (a scope UpdateRouting left half written).           *)
(***************************************************************************)
EXTENDS RoutingMath

CONSTANTS
    Starts,        \* initial percentages, in hundredths
    Rates,         \* success rates of a provider
    NoPlan

ASSUME InputsAssumption == Starts \subseteq [Providers -> 0..Full] /\ Rates \subseteq Nat

VARIABLES
    traffic,       \* traffic_pct of the SKU
    maintained,    \* providers with an active maintenance window
    observed,      \* class of the newest metrics of each provider
    rate,          \* success rate of each provider
    plan           \* proposed_pct of the plan being considered, or NoPlan

planVars == <<traffic, maintained, observed, rate, plan>>

PlanInit ==
    /\ traffic \in Starts
    /\ maintained \in SUBSET Providers
    /\ observed \in [Providers -> Classes]
    /\ rate \in [Providers -> Rates]
    /\ plan = NoPlan

\* Mutant of Seen: providers without traffic are evaluated too.
SeenWithoutTraffic ==
    [p \in Providers |-> IF p \in maintained THEN "none" ELSE observed[p]]

\* collectScope skips a provider under maintenance or without traffic: the
\* ProductContext has no metrics for it.
Seen ==
    [p \in Providers |-> IF p \in maintained \/ traffic[p] = 0 THEN "none" ELSE observed[p]]

\* worstScope picks a flagged provider; with none, nothing is proposed.
Suspects == {p \in Providers : Flagged(Seen[p])}

\* emitOutputs builds a plan only when the decision for the SKU is routing.
Propose ==
    /\ plan = NoPlan
    /\ SKURoutingDecision(traffic, maintained, Seen) = "routing"
    /\ \E w \in Suspects : plan' \in BuildRoutingPlan(traffic, maintained, Seen, rate, w)
    /\ UNCHANGED <<traffic, maintained, observed, rate>>

\* UpdateRouting with the proposed percentages.
Execute ==
    /\ plan # NoPlan
    /\ traffic' = plan
    /\ plan' = NoPlan
    /\ UNCHANGED <<maintained, observed, rate>>

\* The next cycle sees something else: a provider reports other metrics, or
\* one of its maintenance windows begins or ends.
Observe ==
    /\ plan = NoPlan
    /\ \E p \in Providers :
        \/ \E c \in Classes : observed' = [observed EXCEPT ![p] = c] /\ UNCHANGED maintained
        \/ \E m \in {maintained \cup {p}, maintained \ {p}} : maintained' = m /\ UNCHANGED observed
    /\ UNCHANGED <<traffic, rate, plan>>

PlanNext == Propose \/ Execute \/ Observe

PlanSpec == PlanInit /\ [][PlanNext]_planVars

-----------------------------------------------------------------------------
Shares == [Providers -> 0..Full]

PlanTypeOK ==
    /\ traffic \in Shares
    /\ maintained \subseteq Providers
    /\ observed \in [Providers -> Classes]
    /\ rate \in [Providers -> Rates]
    /\ plan \in Shares \cup {NoPlan}

Planned == plan # NoPlan

\* plan.go:178: "rounds each provider to whole % with sum exactly 100", even
\* from percentages that did not add up, and no share is a whole point or more
\* away from the exact one.
Apportioned ==
    Planned =>
        /\ SumFunction(plan) = Full
        /\ \A p \in Providers : plan[p] % Point = 0
        /\ \E w \in Suspects :
             LET x == Exact(traffic, maintained, Seen, rate, w)
             IN  \A p \in Providers :
                   (plan[p] \div Point) * x.den - x.num[p] \in (1 - x.den)..(x.den - 1)

\* plan.go:22: a plan takes all traffic from every provider whose metrics
\* breach, and moves none (beyond rounding) onto one under maintenance.
HardCut ==
    Planned =>
        /\ \A p \in Providers : MetricsBreach(Seen[p]) => plan[p] = 0
        /\ SumFunction(traffic) = Full =>
             \A p \in maintained : plan[p] < traffic[p] + Point

\* No provider has a share that is less than a hundredth of all traffic.
NoSplinters == \A p \in Providers : traffic[p] = 0 \/ 100 * traffic[p] >= SumFunction(traffic)

\* Some provider that is not under maintenance and not breached carries what
\* the plan moved: a routing plan never leaves a SKU without a live receiver.
\* Except for splinters: of 99.6 / 0.2 / 0.2 rounding may give all to the first,
\* even when it is under maintenance.
HasLiveReceiver ==
    Planned /\ NoSplinters =>
        \E p \in Providers \ maintained : plan[p] > 0 /\ ~MetricsBreach(Seen[p])

\* A plan the agent would skip as already in place (routingMatchesProposed)
\* leaves a breached provider no more than two points of traffic.
MatchedPlanIsHarmless ==
    Planned /\ RoutingMatchesProposed(traffic, plan) =>
        \A p \in Providers : MetricsBreach(Seen[p]) => traffic[p] <= 2 * Point
=============================================================================

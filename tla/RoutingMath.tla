---------------------------- MODULE RoutingMath ----------------------------
(***************************************************************************)
(* The pure part of the agent: which remedy a SKU needs                    *)
(* (agent/breach.go) and which percentages a routing plan proposes         *)
(* (agent/plan.go).  Percentages are DECIMAL(5,2), here whole hundredths   *)
(* of a percent; the float arithmetic of the plan is exact arithmetic on   *)
(* fractions, and where sort.Slice leaves ties to the map order every      *)
(* order is a possible outcome.                                            *)
(***************************************************************************)
EXTENDS Integers, FiniteSets, Functions

CONSTANT Providers    \* providers with a routing_config row for the SKU

ASSUME ProvidersAssumption == IsFiniteSet(Providers) /\ Providers # {}

\* roundPctToInt100 leaves fractions of a percent when every share is below one
\* percent, which takes more than a hundred providers; a SKU has two or three.
ASSUME FewProviders == Cardinality(Providers) <= 100

Full == 10000         \* 100.00 %
Point == 100          \* 1.00 %

(* Metrics of a provider, as far as the threshold tests tell them apart:    *)
(*   "none"    no metrics, "ok" within all thresholds,                     *)
(*   "bad"     beyond a rate or count threshold,                           *)
(*   "edge"    exactly on one (<=, >= breach, <, > do not),                *)
(*   "events"  only the number of error events is beyond its threshold.    *)
Classes == {"none", "ok", "bad", "edge", "events"}

\* ScopeBreachedFromSnapshot, which every plan decision is based on.
MetricsBreach(c) == c \in {"bad", "edge"}
\* EvaluateThresholds sets Breached.
Flagged(c) == c \in {"bad", "edge", "events"}
\* store.ScopeBreached, which extends the run of breached cycles.
ExtendsRun(c) == c \in {"bad", "events"}

-----------------------------------------------------------------------------
(* agent/breach.go.  m : [Providers -> Classes] are the metrics in the      *)
(* ProductContext, "none" standing for a nil pointer.                      *)

\* Mutant: a provider under maintenance still counts as routable.
RoutableIgnoringMaintenance(pct, maintained) == {p \in Providers : pct[p] > 0}

Routable(pct, maintained) == {p \in Providers : pct[p] > 0} \ maintained

Healthy(pct, maintained, m) ==
    {p \in Routable(pct, maintained) : m[p] # "none" /\ ~MetricsBreach(m[p])}

\* Mutant of SKURoutingDecision: two routable providers are enough.
DecisionByCount(pct, maintained, m) ==
    IF Cardinality(Routable(pct, maintained)) > 1 THEN "routing" ELSE "maintenance"

SKURoutingDecision(pct, maintained, m) ==
    IF Cardinality(Routable(pct, maintained)) > 1 /\ Healthy(pct, maintained, m) # {}
    THEN "routing" ELSE "maintenance"

\* The reason given is "all routed providers breach", not "too few are left".
AllRoutableBreach(pct, maintained, m) ==
    /\ Cardinality(Routable(pct, maintained)) > 1
    /\ Healthy(pct, maintained, m) = {}

ShouldForceAutoRouting(pct, maintained, m) ==
    /\ Cardinality(Routable(pct, maintained)) >= 2
    /\ SKURoutingDecision(pct, maintained, m) = "routing"

ShouldForceAutoMaintenanceAllProviders(pct, maintained, m) ==
    /\ Cardinality(Routable(pct, maintained)) >= 2
    /\ SKURoutingDecision(pct, maintained, m) = "maintenance"

ShouldForceAutoMaintenance(pct, maintained, m) ==
    /\ Cardinality(Routable(pct, maintained)) = 1
    /\ \E p \in Routable(pct, maintained) : MetricsBreach(m[p])

-----------------------------------------------------------------------------
(* agent/plan.go.                                                          *)

\* Mutant of Cut: only the worst provider is taken out.
CutWorstOnly(m, worst) == {worst}

\* proposeShift: every breached provider, or the worst one if the live
\* metrics breach nowhere (it was flagged for its error events).
Cut(m, worst) ==
    LET breached == {p \in Providers : MetricsBreach(m[p])}
    IN  IF breached = {} THEN {worst} ELSE breached

Receivers(pct, maintained, cut) == Routable(pct, maintained) \ cut

\* Weight of a receiver: its success rate, 1 where that is missing or zero.
Weight(m, rate) == [p \in Providers |-> IF m[p] = "none" \/ rate[p] = 0 THEN 1 ELSE rate[p]]

\* Mutant of Normal: the total is taken for 100 hundredths.
NormalToPoint(total) == Point

\* normalizePct divides by the actual total of the scope.
Normal(total) == total

\* Exact proposal of proposeShift and redistributeToHealthy: provider p gets
\* num[p] / den percent.  Nothing is rescaled when there is nothing to move or
\* nobody to receive it.
Exact(pct, maintained, m, rate, worst) ==
    LET cut   == Cut(m, worst)
        kept  == [p \in Providers |-> IF p \in cut THEN 0 ELSE pct[p]]
        drop  == SumFunctionOnSet(pct, cut)
        good  == Receivers(pct, maintained, cut)
        w     == Weight(m, rate)
        total == SumFunctionOnSet(w, good)
    IN  IF drop = 0 \/ good = {}
        THEN [num |-> kept, den |-> Point]
        ELSE [num |-> [p \in Providers |->
                         100 * (kept[p] * total + (IF p \in good THEN drop * w[p] ELSE 0))],
              den |-> Normal(SumFunction(pct)) * total]

\* Orders in which roundPctToInt100 hands out the missing (or takes back the
\* excess) points: by remainder, ties in any order.
Orders(rem, largestFirst) ==
    {o \in Bijection(1..Cardinality(Providers), Providers) :
        \A i, j \in DOMAIN o :
            i < j => IF largestFirst THEN rem[o[i]] >= rem[o[j]] ELSE rem[o[i]] <= rem[o[j]]}

\* Points the i-th provider of the order is visited for, out of n.
Visits(i, n) == Cardinality({k \in 0..(n - 1) : k % Cardinality(Providers) = i - 1})

\* roundPctToInt100: whole percents, in hundredths.
Rounded(x) ==
    LET base == [p \in Providers |-> x.num[p] \div x.den]
        rem  == [p \in Providers |-> x.num[p] % x.den]
        sum  == SumFunction(base)
        up   == sum < 100
        gap  == IF up THEN 100 - sum ELSE sum - 100
        Share(o, p) ==
            LET i == CHOOSE i \in DOMAIN o : o[i] = p
                s == IF up THEN base[p] + Visits(i, gap) ELSE base[p] - Visits(i, gap)
            IN  Point * (IF s < 0 THEN 0 ELSE s)
    IN  IF sum = 0
        THEN {[p \in Providers |-> (Point * x.num[p]) \div x.den]}
        ELSE {[p \in Providers |-> Share(o, p)] : o \in Orders(rem, up)}

\* enforceSingleHealthyFullRouting.
SoleGetsAll(share) ==
    LET active == {p \in Providers : share[p] > 0}
    IN  IF Cardinality(active) = 1
        THEN [p \in Providers |-> IF p \in active THEN Full ELSE 0]
        ELSE share

\* BuildRoutingPlan: the proposals it may return.
BuildRoutingPlan(pct, maintained, m, rate, worst) ==
    UNION {{SoleGetsAll(r) : r \in Rounded(x)} : x \in {Exact(pct, maintained, m, rate, worst)}}

\* Mutant of RoutingMatchesProposed: the tolerance is 20 points.
MatchesLoosely(current, proposed) ==
    \A p \in Providers : current[p] - proposed[p] \in (-20 * Point)..(20 * Point)

\* routingMatchesProposed: within two points for every provider.
RoutingMatchesProposed(current, proposed) ==
    \A p \in Providers : current[p] - proposed[p] \in (-2 * Point)..(2 * Point)
=============================================================================

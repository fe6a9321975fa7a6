------------------------- MODULE PlanAndPollProofs -------------------------
(***************************************************************************)
(* Theorems about the plans of a SKU (RoutingPlan) and the dashboard polls *)
(* that put them in force (DashboardPoll), for any number of providers up  *)
(* to a hundred and any shares, success rates, metrics and windows.  What  *)
(* one plan does to the shares is shown in RoutingMathProofs.              *)
(*                                                                         *)
(* The invariant of RoutingPlan is that a plan under consideration is one  *)
(* BuildRoutingPlan makes of what is seen now.  That of DashboardPoll says *)
(* of a poll nobody overtook that what it has read still holds, and that   *)
(* after its first pass no provider in breach is left with traffic or the  *)
(* windows it opened are there for the second pass to find.                *)
(***************************************************************************)
EXTENDS RoutingPlan, DashboardPoll, RoutingMathProofs

\* A plan was made from the shares, metrics and windows as they are.
PlanFits(w) ==
    /\ w \in Suspects
    /\ SKURoutingDecision(traffic, maintained, Seen) = "routing"
    /\ plan \in BuildRoutingPlan(traffic, maintained, Seen, rate, w)

Justified == Planned => \E w \in Providers : PlanFits(w)

PlanInductive == PlanTypeOK /\ Justified

\* The shares, rates and metrics as the lemmas about plans want them.
LEMMA PlanInputs ==
    ASSUME PlanTypeOK
    PROVE  /\ traffic \in [Providers -> Nat] /\ rate \in [Providers -> Nat]
           /\ \A p \in Providers : traffic[p] = 0 => Seen[p] = "none"
<1>1. traffic \in [Providers -> Nat]
  <2>1. 0..Full \subseteq Nat
    BY DEF Full
  <2> QED BY <2>1 DEF PlanTypeOK, Shares
<1>2. rate \in [Providers -> Nat]
  BY InputsAssumption DEF PlanTypeOK
<1> QED
  BY <1>1, <1>2 DEF Seen

\* A plan that fits moves something, and somebody receives it.
LEMMA PlanShifts ==
    ASSUME PlanTypeOK, NEW w \in Suspects, SKURoutingDecision(traffic, maintained, Seen) = "routing"
    PROVE  Shifts(traffic, maintained, Cut(Seen, w))
<1>1. w \in Providers /\ Flagged(Seen[w])
  BY DEF Suspects
<1> HIDE DEF Seen
<1> QED
  BY <1>1, PlanInputs, RoutingShifts

\* What a plan that fits is.
LEMMA FittingPlan ==
    ASSUME PlanTypeOK, NEW w \in Suspects, SKURoutingDecision(traffic, maintained, Seen) = "routing",
           NEW r \in BuildRoutingPlan(traffic, maintained, Seen, rate, w)
    PROVE  LET x == Exact(traffic, maintained, Seen, rate, w)
           IN  /\ r \in [Providers -> 0..Full]
               /\ SumFunction(r) = Full
               /\ \A p \in Providers : /\ r[p] % Point = 0
                                       /\ Near(r[p], x.num[p], x.den)
                                       /\ p \in Cut(Seen, w) => r[p] = 0
<1>1. Shifts(traffic, maintained, Cut(Seen, w)) /\ rate \in [Providers -> Nat]
  BY PlanShifts, PlanInputs
<1> HIDE DEF Seen
<1> QED
  BY <1>1, PlanShares

LEMMA PlanInitInductive == PlanInit => PlanInductive
<1> SUFFICES ASSUME PlanInit PROVE PlanInductive
  OBVIOUS
<1>1. PlanTypeOK
  BY InputsAssumption DEF PlanInit, PlanTypeOK, Shares
<1>2. Justified
  BY DEF PlanInit, Justified, Planned
<1> QED
  BY <1>1, <1>2 DEF PlanInductive

LEMMA PlanStepInductive == PlanInductive /\ [PlanNext]_planVars => PlanInductive'
<1> SUFFICES ASSUME PlanInductive, [PlanNext]_planVars PROVE PlanInductive'
  OBVIOUS
<1> USE DEF PlanInductive
<1>1. CASE Propose
  <2>1. PICK w \in Suspects : plan' \in BuildRoutingPlan(traffic, maintained, Seen, rate, w)
    BY <1>1 DEF Propose
  <2>2. /\ SKURoutingDecision(traffic, maintained, Seen) = "routing"
        /\ UNCHANGED <<traffic, maintained, observed, rate>>
    BY <1>1 DEF Propose
  <2>3. plan' \in Shares
    BY <2>1, <2>2, FittingPlan DEF Shares
  <2>4. PlanTypeOK'
    BY <2>2, <2>3 DEF PlanTypeOK
  <2>5. Seen' = Seen /\ Suspects' = Suspects
    BY <2>2 DEF Seen, Suspects
  <2>6. PlanFits(w)'
    BY <2>1, <2>2, <2>5 DEF PlanFits
  <2>7. w \in Providers
    BY DEF Suspects
  <2> QED
    BY <2>4, <2>6, <2>7 DEF Justified
<1>2. CASE Execute
  <2>1. plan \in Shares /\ traffic' = plan /\ plan' = NoPlan /\ UNCHANGED <<maintained, observed, rate>>
    BY <1>2 DEF Execute, PlanTypeOK
  <2> QED
    BY <2>1 DEF PlanTypeOK, Justified, Planned
<1>3. CASE Observe
  <2>1. plan' = NoPlan /\ UNCHANGED <<traffic, rate>>
    BY <1>3 DEF Observe
  <2>2. /\ maintained' \subseteq Providers
        /\ observed' \in [Providers -> Classes]
    BY <1>3 DEF Observe, PlanTypeOK
  <2> QED
    BY <2>1, <2>2 DEF PlanTypeOK, Justified, Planned
<1>4. CASE UNCHANGED planVars
  <2>1. UNCHANGED <<traffic, maintained, observed, rate, plan>>
    BY <1>4 DEF planVars
  <2>2. Seen' = Seen /\ Suspects' = Suspects
    BY <2>1 DEF Seen, Suspects
  <2>3. \A w : PlanFits(w)' <=> PlanFits(w)
    BY <2>1, <2>2 DEF PlanFits
  <2> QED
    BY <2>1, <2>3 DEF PlanTypeOK, Justified, Planned
<1> QED
  BY <1>1, <1>2, <1>3, <1>4 DEF PlanNext

\* Every reachable state has the invariant.
THEOREM PlanInvariance == PlanSpec => []PlanInductive
<1> QED
  BY PlanInitInductive, PlanStepInductive, PTL DEF PlanSpec

\* Shares stay between 0 and 100% in hundredths: the rounding of a plan never
\* leaves that range (roundPctToInt100, enforceSingleHealthyFullRouting).
THEOREM PlanTypeCorrect == PlanSpec => []PlanTypeOK
<1>1. PlanInductive => PlanTypeOK
  BY DEF PlanInductive
<1> QED
  BY <1>1, PlanInvariance, PTL

\* A plan is whole points that add up to exactly 100%, each less than a point
\* from the exact share, also from shares that did not add up (plan.go:178).
THEOREM WholePoints == PlanSpec => []Apportioned
<1>1. PlanInductive => Apportioned
  <2> SUFFICES ASSUME PlanInductive, Planned PROVE Apportioned
    BY DEF Apportioned
  <2>1. PICK w \in Providers : PlanFits(w)
    BY DEF PlanInductive, Justified
  <2> DEFINE x == Exact(traffic, maintained, Seen, rate, w)
  <2>2. /\ SumFunction(plan) = Full /\ w \in Suspects
        /\ \A p \in Providers : plan[p] % Point = 0 /\ Near(plan[p], x.num[p], x.den)
    BY <2>1, FittingPlan DEF PlanInductive, PlanFits
  <2> HIDE DEF x
  <2>3. \A p \in Providers : (plan[p] \div Point) * x.den - x.num[p] \in (1 - x.den)..(x.den - 1)
    BY <2>2 DEF Near
  <2> QED
    BY <2>2, <2>3 DEF Apportioned, x
<1> QED
  BY <1>1, PlanInvariance, PTL

\* A plan cuts every provider whose metrics breach to nothing, and from 100%
\* moves at most rounding onto one under maintenance (plan.go:22).
THEOREM BreachedAreCut == PlanSpec => []HardCut
<1>1. PlanInductive => HardCut
  <2> SUFFICES ASSUME PlanInductive, Planned PROVE HardCut
    BY DEF HardCut
  <2>1. PICK w \in Providers : PlanFits(w)
    BY DEF PlanInductive, Justified
  <2>2. w \in Suspects /\ plan \in BuildRoutingPlan(traffic, maintained, Seen, rate, w)
    BY <2>1 DEF PlanFits
  <2>3. Shifts(traffic, maintained, Cut(Seen, w)) /\ rate \in [Providers -> Nat]
    BY <2>1, PlanShifts, PlanInputs DEF PlanFits, PlanInductive
  <2>4. ASSUME NEW p \in Providers, MetricsBreach(Seen[p]) PROVE plan[p] = 0
    <3>1. p \in Cut(Seen, w)
      BY <2>4 DEF Cut
    <3> QED
      BY <2>1, <2>2, <3>1, FittingPlan DEF PlanInductive, PlanFits
  <2>5. ASSUME SumFunction(traffic) = Full, NEW p \in maintained
        PROVE  plan[p] < traffic[p] + Point
    <3>1. p \in Providers
      BY DEF PlanInductive, PlanTypeOK
    <3> HIDE DEF Seen
    <3> QED
      BY <2>2, <2>3, <2>5, <3>1, NoWindfall
  <2> QED
    BY <2>4, <2>5 DEF HardCut
<1> QED
  BY <1>1, PlanInvariance, PTL

\* A plan leaves traffic on a provider that is neither under maintenance nor
\* breached, unless shares of less than a hundredth are about.
THEOREM SomebodyReceives == PlanSpec => []HasLiveReceiver
<1>1. PlanInductive => HasLiveReceiver
  <2> SUFFICES ASSUME PlanInductive, Planned, NoSplinters
               PROVE  \E p \in Providers \ maintained : plan[p] > 0 /\ ~MetricsBreach(Seen[p])
    BY DEF HasLiveReceiver
  <2>1. PICK w \in Providers : PlanFits(w)
    BY DEF PlanInductive, Justified
  <2>2. w \in Suspects /\ plan \in BuildRoutingPlan(traffic, maintained, Seen, rate, w)
    BY <2>1 DEF PlanFits
  <2>3. Shifts(traffic, maintained, Cut(Seen, w)) /\ rate \in [Providers -> Nat]
    BY <2>1, PlanShifts, PlanInputs DEF PlanFits, PlanInductive
  <2>4. PICK p \in Receivers(traffic, maintained, Cut(Seen, w)) : TRUE
    BY <2>3 DEF Shifts
  <2>5. p \in Providers \ maintained /\ traffic[p] > 0 /\ p \notin Cut(Seen, w)
    BY <2>4 DEF Receivers, Routable
  <2>6. 100 * traffic[p] >= SumFunction(traffic)
    BY <2>5 DEF NoSplinters
  <2>7. ~MetricsBreach(Seen[p])
    BY <2>5 DEF Cut
  <2> HIDE DEF Seen
  <2>8. plan[p] > 0
    BY <2>2, <2>3, <2>4, <2>6, Reaches
  <2> QED
    BY <2>5, <2>7, <2>8
<1> QED
  BY <1>1, PlanInvariance, PTL

\* A plan that is skipped as in place already (routingMatchesProposed) leaves a
\* breached provider at most two points: the plan would give it nothing.
THEOREM MatchedIsHarmless == PlanSpec => []MatchedPlanIsHarmless
<1>1. PlanInductive /\ HardCut => MatchedPlanIsHarmless
  <2> SUFFICES ASSUME PlanInductive, HardCut, Planned, RoutingMatchesProposed(traffic, plan),
                      NEW p \in Providers, MetricsBreach(Seen[p])
               PROVE  traffic[p] <= 2 * Point
    BY DEF MatchedPlanIsHarmless
  <2>1. plan[p] = 0
    BY DEF HardCut
  <2>2. traffic[p] \in Nat
    BY PlanInputs DEF PlanInductive
  <2>3. traffic[p] - plan[p] \in (-2 * Point)..(2 * Point)
    BY DEF RoutingMatchesProposed
  <2> QED
    BY <2>1, <2>2, <2>3 DEF Point
<1> QED
  BY <1>1, PlanInvariance, BreachedAreCut, PTL

-----------------------------------------------------------------------------
(* The dashboard polls.  What is made of the metrics seen when the shares q *)
(* are shown, no window is in effect and the table has the shares r.  A poll*)
(* shows r in tenths of a percent, the agent as it is.                      *)

SeenBy(q, seen) == [p \in Providers |-> IF q[p] > 0 THEN seen[p] ELSE "none"]
Suffering(q, seen) == {p \in Providers : MetricsBreach(SeenBy(q, seen)[p])}
WorstOf(q, seen) ==
    {p \in Suffering(q, seen) : \A x \in Suffering(q, seen) : Severity[x] <= Severity[p]}
DecisionOn(q, seen) == SKURoutingDecision(q, {}, SeenBy(q, seen))
PlansFor(q, r, seen, u) == BuildRoutingPlan(r, {}, SeenBy(q, seen), Rate, u)

\* The windows opened for the worst provider u, and that they are to be opened.
TargetsOf(q, r, seen, u) ==
    IF AllRoutableBreach(q, {}, SeenBy(q, seen)) THEN {p \in Providers : r[p] > 0} ELSE {u}
Due(q, r, seen, u) ==
    DecisionOn(q, seen) = "maintenance" \/ \E s \in PlansFor(q, r, seen, u) : Same(r, s)

\* What is shown with traffic has some.
Shows(q, r) == \A p \in Providers : q[p] > 0 => r[p] > 0

\* The number of providers the worst of which are never several in vain.
Few == Count <= 3

\* What a poll goes by is still so; r are the shares in force, w the providers
\* with a window, n the newest cycle and k the one routing was last marked with.
\* Past: the poll may go by its grace only when the grace is over.
Past(v, n, k) == v.grace \/ ~(k # 0 /\ n <= k)

\* After a first pass: no provider in breach is left with traffic, or windows
\* were opened, and are still there, that the second pass would open again.
Quiet(v, r) == Suffering(Displayed(r), v.seen) = {}
Reopens(v, r, w) ==
    \A u \in WorstOf(Displayed(r), v.seen) :
        /\ Due(Displayed(r), r, v.seen, u)
        /\ TargetsOf(Displayed(r), r, v.seen, u) \cap w # {}
Opened(v, r, w, n, k) == v.cached = r /\ Past(v, n, k) /\ (Few => Reopens(v, r, w))

Fresh(v, r, w, n, k) ==
    /\ v.pc \in {"caches", "windows", "mode"} => v.pct = Displayed(r) /\ v.cached = None
    /\ v.pc \in {"windows", "mode", "grace"} => v.cycle <= n
    /\ v.pc = "mode" => v.windows = w
    /\ v.pc = "grace" => v.pct = Displayed(r) /\ v.cached \in {None, r} /\ w = {}
    /\ v.pc = "plan" /\ v.pass = 1 =>
         v.pct = Displayed(r) /\ v.cached \in {None, r} /\ w = {} /\ Past(v, n, k)
    /\ v.pc = "again" => v.cached # None
    /\ v.pc = "again" /\ v.pass = 1 /\ NoCrumbs(v.cached) => Quiet(v, r) \/ Opened(v, r, w, n, k)
    /\ v.pc = "plan" /\ v.pass = 2 => v.cached # None
    /\ v.pc = "plan" /\ v.pass = 2 /\ NoCrumbs(v.cached) =>
         v.pct = Displayed(r) /\ Opened(v, r, w, n, k)

Holds(v) == Fresh(v, pct, windows, cycle, mark)

AllFresh == \A c \in Polls \ overtaken : Holds(poll[c])

PollInductive == TypeOK /\ AllFresh

\* Less than 0.05 % is shown as nothing, and no share as more than all.
LEMMA ShownShares ==
    ASSUME NEW r \in Shares
    PROVE  /\ Displayed(r) \in Shares /\ Shows(Displayed(r), r)
           /\ \A p \in Providers : Displayed(r)[p] > 0 <=> r[p] >= 5
           /\ NoCrumbs(r) => Shows(r, Displayed(r))
<1>1. ASSUME NEW n \in 0..Full
      PROVE  Tenths(n, 1) \in 0..Full /\ (Tenths(n, 1) > 0 <=> n >= 5)
  <2>1. n \in Nat /\ n <= 10000
    BY <1>1 DEF Full
  <2>2. Tenths(n, 1) = 10 * ((2 * n + 10) \div 20)
    BY <2>1 DEF Tenths
  <2>3. PICK k \in Nat : k = (2 * n + 10) \div 20
    BY <2>1
  <2>4. k <= 1000 /\ (k > 0 <=> n >= 5)
    BY <2>1, <2>3
  <2>5. Tenths(n, 1) = 10 * k
    BY <2>2, <2>3
  <2>6. 10 * k \in 0..Full /\ (10 * k > 0 <=> n >= 5)
    BY <2>3, <2>4 DEF Full
  <2>7. \A t : t = 10 * k => t \in 0..Full /\ (t > 0 <=> n >= 5)
    BY <2>6, Zenon
  <2> QED BY <2>5, <2>7, Zenon
<1>2. \A p \in Providers : r[p] \in 0..Full /\ Displayed(r)[p] = Tenths(r[p], 1)
  BY DEF Shares, Displayed
<1>3. \A p \in Providers : Displayed(r)[p] > 0 <=> r[p] >= 5
  BY <1>1, <1>2
<1>4. Displayed(r) \in Shares
  BY <1>1, <1>2 DEF Shares, Displayed
<1>5. \A p \in Providers : r[p] \in Int
  <2>1. \A i \in 0..Full : i \in Int
    BY DEF Full
  <2> QED BY <1>2, <2>1
<1>6. Shows(Displayed(r), r)
  BY <1>3, <1>5 DEF Shows
<1>7. ASSUME NoCrumbs(r) PROVE Shows(r, Displayed(r))
  BY <1>3, <1>5, <1>7 DEF Shows, NoCrumbs
<1> QED BY <1>3, <1>4, <1>6, <1>7

\* The worst provider is one of those in breach.
LEMMA WorstBreached ==
    ASSUME NEW v, NEW u \in Worst(v)
    PROVE  u \in Breached(v) /\ u \in Providers /\ Breached(v) # {}
BY DEF Worst, Breached

\* A snapshot without a window has the shares as they are shown.
LEMMA PlainSnapshot ==
    ASSUME NEW v, v.windows = {}, v.pct \in Shares
    PROVE  /\ MaintainedActive(v) = {} /\ Shown(v) = v.pct /\ Context(v) = SeenBy(v.pct, v.seen)
           /\ Breached(v) = Suffering(v.pct, v.seen) /\ Worst(v) = WorstOf(v.pct, v.seen)
           /\ Decides(v) = DecisionOn(v.pct, v.seen)
           /\ \A u : Proposals(v, u) = PlansFor(v.pct, v.cached, v.seen, u)
           /\ \A u : Targets(v, u) = TargetsOf(v.pct, pct, v.seen, u)
<1>1. MaintainedActive(v) = {}
  BY DEF MaintainedActive
<1>2. Effective(v) = v.pct
  BY <1>1 DEF Effective
<1>3. ActiveRouting(v) = {p \in Providers : v.pct[p] > 0}
  BY <1>2 DEF ActiveRouting
<1>4. ~SkuWide(v)
  <2>1. IsFiniteSet(ActiveRouting(v))
    BY <1>3, ProvidersAssumption, FS_Subset
  <2>2. ActiveRouting(v) # {} => Cardinality(ActiveRouting(v)) > 0
    BY <2>1, FS_EmptySet, FS_CardinalityType
  <2>3. Cardinality(MaintainedActive(v)) = 0
    BY <1>1, FS_EmptySet
  <2>4. Cardinality(ActiveRouting(v)) \in Nat
    BY <2>1, FS_CardinalityType
  <2> QED BY <2>2, <2>3, <2>4 DEF SkuWide
<1>5. Shown(v) = v.pct
  BY <1>2, <1>4 DEF Shown
<1>6. Context(v) = SeenBy(v.pct, v.seen)
  BY <1>3, <1>4 DEF Context, SeenBy
<1>7. Breached(v) = Suffering(v.pct, v.seen)
  BY <1>6, Zenon DEF Breached, Suffering
<1>8. Worst(v) = WorstOf(v.pct, v.seen)
  BY <1>7, Zenon DEF Worst, WorstOf
<1>9. Decides(v) = DecisionOn(v.pct, v.seen)
  BY <1>1, <1>5, <1>6, Zenon DEF Decides, DecisionOn
<1>10. ASSUME NEW u PROVE Proposals(v, u) = PlansFor(v.pct, v.cached, v.seen, u)
  BY <1>1, <1>6, Zenon DEF Proposals, PlansFor
<1>11. ASSUME NEW u PROVE Targets(v, u) = TargetsOf(v.pct, pct, v.seen, u)
  BY <1>1, <1>5, <1>6, Zenon DEF Targets, TargetsOf
<1> QED BY <1>1, <1>5, <1>6, <1>7, <1>8, <1>9, <1>10, <1>11

\* To decide for moving traffic is to have some to move and a receiver for it.
LEMMA DecisionShifts ==
    ASSUME NEW q \in Shares, NEW r \in Shares, Shows(q, r), NEW seen,
           NEW u \in Suffering(q, seen), DecisionOn(q, seen) = "routing"
    PROVE  /\ Shifts(r, {}, Cut(SeenBy(q, seen), u))
           /\ Cut(SeenBy(q, seen), u) = Suffering(q, seen)
<1> DEFINE m == SeenBy(q, seen)
<1>1. u \in Providers /\ Flagged(m[u])
  BY DEF Suffering, MetricsBreach, Flagged
<1>2. r \in [Providers -> Nat] /\ \A p \in Providers : q[p] \in Nat
  <2>1. \A i \in 0..Full : i \in Nat
    BY DEF Full
  <2> QED BY <2>1 DEF Shares
<1>3. \A p \in Providers : r[p] = 0 => m[p] = "none"
  BY <1>2 DEF SeenBy, Shows
<1>4. SKURoutingDecision(r, {}, m) = "routing"
  <2>1. Cardinality(Routable(q, {})) > 1 /\ Healthy(q, {}, m) # {}
    BY DEF DecisionOn, SKURoutingDecision
  <2>2. Routable(q, {}) \in SUBSET Routable(r, {}) /\ Routable(r, {}) \in SUBSET Providers
    BY DEF Routable, Shows
  <2>3. Healthy(r, {}, m) # {}
    BY <2>1, <2>2 DEF Healthy
  <2>4. IsFiniteSet(Routable(r, {})) /\ IsFiniteSet(Routable(q, {}))
    BY <2>2, ProvidersAssumption, FS_Subset
  <2>5. Cardinality(Routable(q, {})) <= Cardinality(Routable(r, {}))
    BY <2>2, <2>4, FS_Subset
  <2>6. Cardinality(Routable(q, {})) \in Nat /\ Cardinality(Routable(r, {})) \in Nat
    BY <2>4, FS_CardinalityType
  <2> QED BY <2>1, <2>3, <2>5, <2>6 DEF SKURoutingDecision
<1>5. Cut(m, u) = Suffering(q, seen)
  BY DEF Cut, Suffering
<1> HIDE DEF m
<1>6. Shifts(r, {}, Cut(m, u))
  BY <1>1, <1>2, <1>3, <1>4, RoutingShifts
<1> QED BY <1>5, <1>6 DEF m

\* What such a plan does: it adds up and leaves no traffic with a provider seen
\* in breach; where everything is shown, with no provider in breach.
LEMMA PollPlan ==
    ASSUME NEW q \in Shares, NEW r \in Shares, Shows(q, r), NEW seen,
           NEW u \in Suffering(q, seen), DecisionOn(q, seen) = "routing",
           NEW s \in PlansFor(q, r, seen, u)
    PROVE  /\ s \in Shares /\ SumFunction(s) = Full
           /\ \A p \in Suffering(q, seen) : s[p] = 0
           /\ Shows(r, q) => Suffering(s, seen) = {}
<1> DEFINE m == SeenBy(q, seen)
<1>1. Shifts(r, {}, Cut(m, u)) /\ Cut(m, u) = Suffering(q, seen)
  BY DecisionShifts
<1>2. Rate \in [Providers -> Nat] /\ s \in BuildRoutingPlan(r, {}, m, Rate, u)
  BY PollAssumption DEF PlansFor
<1> HIDE DEF m
<1>3. IsPlan(s, Exact(r, {}, m, Rate, u), Cut(m, u))
  BY <1>1, <1>2, PlanFacts
<1>4. s \in Shares /\ SumFunction(s) = Full /\ \A p \in Suffering(q, seen) : s[p] = 0
  <2>1. Suffering(q, seen) \subseteq Providers
    BY DEF Suffering
  <2> QED BY <1>1, <1>3, <2>1, Zenon DEF IsPlan, Shares
<1>5. ASSUME Shows(r, q), NEW p \in Providers, s[p] > 0 PROVE ~MetricsBreach(seen[p])
  <2>1. r[p] # 0
    <3>1. SUFFICES ASSUME r[p] = 0 PROVE FALSE
      OBVIOUS
    <3>2. s[p] = 0
      BY <1>1, <1>2, <3>1, NothingForNone
    <3> QED BY <1>5, <3>2
  <2>2. r[p] > 0
    <3>1. r[p] \in 0..Full
      BY DEF Shares
    <3>2. \A i \in 0..Full : i # 0 => i > 0
      BY DEF Full
    <3> QED BY <2>1, <3>1, <3>2
  <2>3. p \notin Suffering(q, seen)
    BY <1>4, <1>5
  <2> QED BY <1>5, <2>2, <2>3 DEF Suffering, SeenBy, Shows
<1>6. ASSUME Shows(r, q) PROVE Suffering(s, seen) = {}
  <2>1. ~MetricsBreach("none")
    BY DEF MetricsBreach
  <2>2. \A p \in Providers : ~MetricsBreach(SeenBy(s, seen)[p])
    BY <1>5, <1>6, <2>1 DEF SeenBy
  <2> QED BY <2>2 DEF Suffering
<1> QED BY <1>4, <1>6

\* Of two or three providers two in breach that are shown carry too much for a
\* plan to count as one with nothing to move.
LEMMA TwoAreTooMuch ==
    ASSUME Few, NEW r \in Shares, AboutFull(r), NEW s \in Shares, SumFunction(s) = Full,
           Same(r, s), NEW u \in Providers, NEW x \in Providers, u # x,
           r[u] >= 5, r[x] >= 5, s[u] = 0, s[x] = 0
    PROVE  FALSE
<1> DEFINE rest == (Providers \ {u}) \ {x}
<1>1. IsFiniteSet(rest) /\ Cardinality(rest) <= 1 /\ Cardinality(rest) \in Nat
  <2>1. IsFiniteSet(Providers \ {u}) /\ Cardinality(Providers \ {u}) = Count - 1
    BY ProvidersAssumption, FS_RemoveElement DEF Count
  <2>2. IsFiniteSet(rest) /\ Cardinality(rest) = Count - 2
    <3>1. x \in Providers \ {u}
      OBVIOUS
    <3>2. IsFiniteSet(rest) /\ Cardinality(rest) = Cardinality(Providers \ {u}) - 1
      BY <2>1, <3>1, FS_RemoveElement
    <3> HIDE DEF rest
    <3> QED BY <2>1, <3>2, CountType
  <2>3. Cardinality(rest) \in Nat
    BY <2>2, FS_CardinalityType
  <2> QED BY <2>2, <2>3, CountType DEF Few
<1>2. \A f \in Shares : \A p \in Providers : f[p] \in Nat /\ f[p] <= Full
  <2>1. \A i \in 0..Full : i \in Nat /\ i <= Full
    BY DEF Full
  <2> QED BY <2>1 DEF Shares
<1>3. \A f \in Shares : SumFunction(f) = f[u] + (f[x] + SumFunctionOnSet(f, rest))
  <2>1. TAKE f \in Shares
  <2>2. \A p \in Providers : f[p] \in Int
    BY <1>2
  <2>3. SumFunction(f) = SumFunctionOnSet(f, Providers)
    BY DEF SumFunction, Shares
  <2>4. SumFunctionOnSet(f, Providers) = f[u] + SumFunctionOnSet(f, Providers \ {u})
    BY <2>2, ProvidersAssumption, SumRemove
  <2>5. IsFiniteSet(Providers \ {u}) /\ x \in Providers \ {u}
    BY ProvidersAssumption, FS_RemoveElement
  <2>6. SumFunctionOnSet(f, Providers \ {u}) = f[x] + SumFunctionOnSet(f, rest)
    BY <2>2, <2>5, SumRemove
  <2> QED BY <2>3, <2>4, <2>6
<1>4. CASE rest = {}
  <2>1. SumFunction(s) = 0 + (0 + 0)
    BY <1>3, <1>4, SumEmpty
  <2> QED BY <2>1 DEF Full
<1>5. CASE rest # {}
  <2>1. PICK y : rest = {y}
    <3>1. Cardinality(rest) = 1
      BY <1>1, <1>5, FS_EmptySet
    <3> QED BY <1>1, <3>1, FS_Singleton
  <2>2. y \in Providers
    BY <2>1
  <2> HIDE DEF rest
  <2>3. \A f \in Shares : SumFunctionOnSet(f, rest) = f[y]
    <3>1. TAKE f \in Shares
    <3>2. \A p \in {y} : f[p] \in Int
      BY <1>2, <2>2
    <3>3. IsFiniteSet({y}) /\ {y} \ {y} = {}
      BY FS_Singleton
    <3>4. SumFunctionOnSet(f, {y}) = f[y] + SumFunctionOnSet(f, {y} \ {y})
      BY <3>2, <3>3, SumRemove
    <3>5. SumFunctionOnSet(f, {y}) = f[y] + 0
      BY <3>3, <3>4, SumEmpty
    <3> QED BY <2>1, <3>2, <3>5
  <2>4. SumFunction(s) = s[y] /\ SumFunction(r) = r[u] + (r[x] + r[y])
    BY <1>2, <1>3, <2>2, <2>3
  <2>5. r[y] - s[y] \in -5..5
    BY <2>2 DEF Same
  <2>6. r[u] \in Nat /\ r[x] \in Nat /\ r[y] \in Nat /\ s[y] \in Nat
    BY <1>2, <2>2
  <2> QED BY <2>4, <2>5, <2>6 DEF AboutFull, Full
<1> QED BY <1>4, <1>5

\* With as few there is one worst provider, or all are targets.
LEMMA OneWorst ==
    ASSUME Few, NEW r \in Shares, AboutFull(r), NEW seen,
           NEW u \in WorstOf(Displayed(r), seen), NEW x \in WorstOf(Displayed(r), seen),
           Due(Displayed(r), r, seen, u)
    PROVE  AllRoutableBreach(Displayed(r), {}, SeenBy(Displayed(r), seen)) \/ u = x
<1> DEFINE q == Displayed(r)
           m == SeenBy(q, seen)
<1>1. q \in Shares /\ Shows(q, r) /\ \A p \in Providers : q[p] > 0 <=> r[p] >= 5
  BY ShownShares
<1>2. u \in Suffering(q, seen) /\ x \in Suffering(q, seen)
  BY DEF WorstOf
<1>3. u \in Routable(q, {}) /\ x \in Routable(q, {})
  BY <1>2 DEF Suffering, SeenBy, Routable, MetricsBreach
<1>4. u \in Providers /\ x \in Providers
  BY <1>3 DEF Routable
<1> HIDE DEF q, m
<1>5. CASE DecisionOn(q, seen) = "routing"
  <2>1. PICK s \in PlansFor(q, r, seen, u) : Same(r, s)
    BY <1>5 DEF Due, q
  <2>2. s \in Shares /\ SumFunction(s) = Full /\ s[u] = 0 /\ s[x] = 0
    BY <1>1, <1>2, <1>5, PollPlan
  <2>3. r[u] >= 5 /\ r[x] >= 5
    BY <1>1, <1>3 DEF Routable
  <2> QED BY <1>4, <2>1, <2>2, <2>3, TwoAreTooMuch
<1>6. CASE DecisionOn(q, seen) # "routing"
  <2>1. Cardinality(Routable(q, {})) > 1 => AllRoutableBreach(q, {}, SeenBy(q, seen))
    BY <1>6 DEF DecisionOn, SKURoutingDecision, AllRoutableBreach
  <2>2. ASSUME u # x PROVE Cardinality(Routable(q, {})) > 1
    <3>1. Routable(q, {}) \in SUBSET Providers
      BY DEF Routable
    <3>2. IsFiniteSet(Routable(q, {}))
      BY <3>1, ProvidersAssumption, FS_Subset
    <3>3. Cardinality(Routable(q, {})) \in Nat
      BY <3>2, FS_CardinalityType
    <3>4. Cardinality(Routable(q, {})) # 0
      BY <1>3, <3>2, FS_EmptySet
    <3>5. Cardinality(Routable(q, {})) # 1
      BY <1>3, <2>2, <3>2, FS_Singleton
    <3> QED BY <3>3, <3>4, <3>5
  <2> QED BY <2>1, <2>2 DEF q
<1> QED BY <1>5, <1>6

\* The record of a poll, as TypeOK has it.
Sound(v) ==
    /\ v \in Requests
    /\ v.pc \in {"caches", "windows", "mode", "grace", "plan"} => v.pct # None
    /\ v.pc \in {"windows", "mode", "grace", "plan", "again"} => v.seen # None
    /\ v.pc \in {"grace", "plan", "again"} => v.windows = {}
    /\ v.pc \in {"plan", "again"} => v.pass # 0

LEMMA SoundPolls == ASSUME TypeOK, NEW c \in Polls PROVE Sound(poll[c])
BY DEF TypeOK, Sound

LEMMA SoundBecomes ==
    ASSUME TypeOK, NEW c \in Polls, NEW v, Sound(v), Becomes(c, v)
    PROVE  /\ poll' \in [Polls -> Requests]
           /\ \A d \in Polls : Sound(poll'[d])
<1>1. poll \in [Polls -> Requests] /\ v \in Requests
  BY DEF TypeOK, Sound
<1>2. poll' \in [Polls -> Requests]
  BY <1>1 DEF Becomes
<1>3. \A d \in Polls : poll'[d] = IF d = c THEN v ELSE poll[d]
  BY <1>1 DEF Becomes
<1> QED BY <1>2, <1>3, SoundPolls

LEMMA SoundIdle == Sound(Idle)
<1>1. Idle \in Requests
  BY PollAssumption DEF Idle, Requests
<1> QED BY <1>1 DEF Sound, Idle

\* A poll that only reads keeps the types.
LEMMA ReadsTypes ==
    ASSUME TypeOK, NEW c \in Polls, NEW v, Sound(v), Reads(c, v)
    PROVE  TypeOK'
<1>1. poll' \in [Polls -> Requests] /\ \A d \in Polls : Sound(poll'[d])
  BY SoundBecomes DEF Reads
<1>2. overtaken' \subseteq Polls
  BY DEF TypeOK, Reads
<1> QED BY <1>1, <1>2 DEF TypeOK, Reads, scope, Sound

\* So does one that writes a scope.
LEMMA WritesTypes ==
    ASSUME TypeOK, NEW c \in Polls, NEW v, Sound(v), Writes(c, v),
           pct' \in Shares, SumFunction(pct') \in (Full - 1)..(Full + 1),
           windows' \subseteq Providers, mark' \in 0..MaxCycles
    PROVE  TypeOK'
<1>1. poll' \in [Polls -> Requests] /\ \A d \in Polls : Sound(poll'[d])
  BY SoundBecomes DEF Writes
<1>2. overtaken' \subseteq Polls
  BY DEF TypeOK, Writes, InFlight
<1> QED BY <1>1, <1>2 DEF TypeOK, Writes, Sound, Shares

\* A poll that is not in flight goes by nothing.
LEMMA IdleFresh == ASSUME NEW v, v.pc = "idle", NEW r, NEW w, NEW n, NEW k PROVE Fresh(v, r, w, n, k)
BY DEF Fresh

\* Reading leaves every other poll as fresh as it was.
LEMMA ReadsFresh ==
    ASSUME TypeOK, AllFresh, NEW c \in Polls, NEW v, Reads(c, v),
           v = Idle \/ (c \notin overtaken => Holds(v))
    PROVE  AllFresh'
<1>1. poll \in [Polls -> Requests]
  BY DEF TypeOK
<1>2. pct' = pct /\ windows' = windows /\ cycle' = cycle /\ mark' = mark
  BY DEF Reads, scope
<1>3. ASSUME NEW d \in Polls, d \notin overtaken' PROVE Fresh(poll'[d], pct, windows, cycle, mark)
  <2>1. CASE d = c
    <3>1. poll'[d] = v
      BY <1>1, <2>1 DEF Reads, Becomes
    <3>2. CASE v = Idle
      <4>1. poll'[d].pc = "idle"
        BY <3>1, <3>2 DEF Idle
      <4> QED BY <4>1, IdleFresh
    <3>3. CASE v # Idle
      BY <1>3, <2>1, <3>1, <3>3 DEF Reads, Holds
    <3> QED BY <3>2, <3>3
  <2>2. CASE d # c
    <3>1. poll'[d] = poll[d] /\ d \notin overtaken
      BY <1>1, <1>3, <2>2 DEF Reads, Becomes
    <3> QED BY <3>1 DEF AllFresh, Holds
  <2> QED BY <2>1, <2>2
<1> QED BY <1>2, <1>3 DEF AllFresh, Holds

\* Writing leaves no other poll in flight that is not overtaken.
LEMMA WritesFresh ==
    ASSUME TypeOK, NEW c \in Polls, NEW v, Writes(c, v),
           c \notin overtaken => Fresh(v, pct', windows', cycle', mark')
    PROVE  AllFresh'
<1>1. poll \in [Polls -> Requests]
  BY DEF TypeOK
<1>2. ASSUME NEW d \in Polls, d \notin overtaken'
      PROVE  Fresh(poll'[d], pct', windows', cycle', mark')
  <2>1. CASE d = c
    <3>1. poll'[d] = v /\ c \notin overtaken
      BY <1>1, <1>2, <2>1 DEF Writes, Becomes
    <3> QED BY <3>1
  <2>2. CASE d # c
    <3>1. poll'[d] = poll[d] /\ poll[d].pc = "idle"
      BY <1>1, <1>2, <2>2 DEF Writes, Becomes, InFlight
    <3> QED BY <3>1, IdleFresh
  <2> QED BY <2>1, <2>2
<1> QED BY <1>2 DEF AllFresh, Holds

\* Nor does a write by somebody else.
LEMMA OvertakesFresh ==
    ASSUME Overtakes, UNCHANGED poll
    PROVE  AllFresh'
<1>1. ASSUME NEW d \in Polls, d \notin overtaken'
      PROVE  Fresh(poll'[d], pct', windows', cycle', mark')
  <2>1. poll'[d].pc = "idle"
    BY <1>1 DEF Overtakes, InFlight
  <2> QED BY <2>1, IdleFresh
<1> QED BY <1>1 DEF AllFresh, Holds

LEMMA PollInitInductive == Init => PollInductive
<1> SUFFICES ASSUME Init PROVE PollInductive
  OBVIOUS
<1>1. Sound(Idle) /\ Idle.pc = "idle"
  BY SoundIdle DEF Idle
<1>2. poll = [c \in Polls |-> Idle]
  BY DEF Init
<1>3. \A c \in Polls : poll[c] = Idle
  BY <1>2
<1>4. poll \in [Polls -> Requests] /\ \A c \in Polls : Sound(poll[c])
  BY <1>1, <1>2 DEF Sound
<1>5. TypeOK
  BY <1>4, PollAssumption DEF Init, TypeOK, Sound
<1>6. AllFresh
  BY <1>1, <1>3, IdleFresh DEF AllFresh, Holds
<1> QED BY <1>5, <1>6 DEF PollInductive

\* The readings before the decision.
LEMMA ReadingSteps ==
    ASSUME PollInductive, NEW c \in Polls,
           \/ ListAllRoutingConfig(c) \/ NewOverviewCaches(c) \/ ListWindows(c)
           \/ ListScopeAutoConfig(c) \/ ReadGrace(c) \/ productRouting(c)
    PROVE  PollInductive'
<1> DEFINE v == poll[c]
<1>1. TypeOK /\ AllFresh /\ Sound(v) /\ (c \notin overtaken => Holds(v))
  BY SoundPolls DEF PollInductive, AllFresh
<1>2. /\ pct \in Shares /\ pct # None /\ metrics # None /\ metrics \in [Providers -> Metrics]
      /\ Displayed(pct) \in Shares /\ Displayed(pct) # None
  <2>1. pct \in Shares
    BY <1>1 DEF TypeOK, Shares
  <2>2. Displayed(pct) \in Shares
    BY <2>1, ShownShares
  <2> QED BY <1>1, <2>1, <2>2, PollAssumption DEF TypeOK, Shares
<1>3. cycle \in 0..MaxCycles /\ windows \subseteq Providers /\ mark \in 0..MaxCycles
      /\ MaxCycles \in Nat
  BY <1>1, PollAssumption DEF TypeOK
<1>4. SUFFICES \E u : Reads(c, u) /\ Sound(u) /\ (u = Idle \/ (c \notin overtaken => Holds(u)))
  BY <1>1, ReadsTypes, ReadsFresh DEF PollInductive
<1>5. CASE ListAllRoutingConfig(c)
  <2> DEFINE q == Displayed(pct)
             u == [Idle EXCEPT !.pc = "caches", !.pct = q]
  <2>0. q # None /\ q \in [Providers -> 0..Full] \cup {None}
    BY <1>2 DEF Shares
  <2> HIDE DEF q
  <2>1. Sound(u)
    <3>1. Idle \in Requests
      BY SoundIdle DEF Sound
    <3>2. u \in Requests /\ u.pc = "caches" /\ u.pct = q
      BY <2>0, <3>1 DEF Requests
    <3> HIDE DEF u
    <3> QED BY <2>0, <3>2 DEF Sound
  <2>2. Holds(u)
    <3>1. u.pc = "caches" /\ u.pct = q /\ u.cached = None
      BY DEF Idle
    <3> HIDE DEF u
    <3> QED BY <3>1 DEF Holds, Fresh, q
  <2> USE DEF q
  <2> QED BY <1>5, <2>1, <2>2 DEF ListAllRoutingConfig
<1>6. CASE NewOverviewCaches(c)
  <2> DEFINE u == [v EXCEPT !.pc = "windows", !.seen = metrics, !.cycle = cycle]
  <2>1. v.pc = "caches" /\ Reads(c, u)
    BY <1>6 DEF NewOverviewCaches, At
  <2>2. Sound(u)
    BY <1>1, <1>2, <1>3, <2>1 DEF Sound, Requests
  <2>3. c \notin overtaken => Holds(u)
    BY <1>1, <1>3, <2>1 DEF Holds, Fresh, Sound, Requests
  <2> QED BY <2>1, <2>2, <2>3
<1>7. CASE ListWindows(c)
  <2> DEFINE u == [v EXCEPT !.pc = "mode", !.windows = windows]
  <2>1. v.pc = "windows" /\ Reads(c, u)
    BY <1>7 DEF ListWindows, At
  <2>2. Sound(u)
    BY <1>1, <1>3, <2>1 DEF Sound, Requests
  <2>3. c \notin overtaken => Holds(u)
    BY <1>1, <2>1 DEF Holds, Fresh, Sound, Requests
  <2> QED BY <2>1, <2>2, <2>3
<1>8. CASE ListScopeAutoConfig(c)
  <2> DEFINE u == [v EXCEPT !.pc = "grace"]
  <2>1. v.pc = "mode" /\ (Reads(c, Idle) \/ (Reads(c, u) /\ v.windows = {}))
    BY <1>8 DEF ListScopeAutoConfig, At, InActiveMaintenance
  <2>2. CASE Reads(c, Idle)
    BY <2>2, SoundIdle
  <2>3. CASE Reads(c, u) /\ v.windows = {}
    <3>1. Sound(u)
      BY <1>1, <2>1, <2>3 DEF Sound, Requests
    <3>2. c \notin overtaken => Holds(u)
      BY <1>1, <2>1, <2>3 DEF Holds, Fresh, Sound, Requests
    <3> QED BY <2>3, <3>1, <3>2
  <2> QED BY <2>1, <2>2, <2>3
<1>9. CASE ReadGrace(c)
  <2> DEFINE u == [v EXCEPT !.pc = "plan", !.pass = 1, !.cycle = 0, !.grace = InGrace(v.cycle)]
  <2>1. v.pc = "grace" /\ Reads(c, u) /\ InGrace(v.cycle) \in BOOLEAN
    BY <1>9 DEF ReadGrace, At, InGrace
  <2>2. Sound(u)
    <3>1. v \in Requests /\ 0 \in 0..MaxCycles /\ 1 \in 0..2
      BY <1>1, <1>3 DEF Sound
    <3>2. \A g \in BOOLEAN :
            [v EXCEPT !.pc = "plan", !.pass = 1, !.cycle = 0, !.grace = g] \in Requests
      BY <3>1 DEF Requests
    <3>3. u \in Requests
      BY <2>1, <3>2
    <3>4. u.pc = "plan" /\ u.pass = 1 /\ u.pct = v.pct /\ u.seen = v.seen /\ u.windows = v.windows
      BY <1>1 DEF Sound, Requests
    <3> HIDE DEF u, v
    <3> QED BY <1>1, <2>1, <3>3, <3>4 DEF Sound
  <2>3. ASSUME c \notin overtaken PROVE Holds(u)
    <3>1. v.cycle <= cycle /\ v.cycle \in Nat
      BY <1>1, <1>3, <2>1, <2>3 DEF Holds, Fresh, Sound, Requests
    <3>2. InGrace(v.cycle) \/ ~(mark # 0 /\ cycle <= mark)
      BY <1>3, <3>1 DEF InGrace
    <3>3. u.pc = "plan" /\ u.pass = 1 /\ u.pct = v.pct /\ u.cached = v.cached
          /\ u.grace = InGrace(v.cycle)
      BY <1>1 DEF Sound, Requests
    <3>4. v.pct = Displayed(pct) /\ v.cached \in {None, pct} /\ windows = {}
      BY <1>1, <2>1, <2>3 DEF Holds, Fresh
    <3> HIDE DEF u, v
    <3> QED BY <3>2, <3>3, <3>4 DEF Holds, Fresh, Past
  <2> QED BY <2>1, <2>2, <2>3
<1>10. CASE productRouting(c)
  <2> DEFINE u == [v EXCEPT !.cached = pct]
  <2>1. v.pc \in {"grace", "plan"} /\ v.cached = None /\ Reads(c, u)
    BY <1>10 DEF productRouting
  <2>2. Sound(u)
    BY <1>1, <1>2, <2>1 DEF Sound, Requests, Shares
  <2>3. ASSUME c \notin overtaken PROVE Holds(u)
    <3>1. u.pc = v.pc /\ u.pass = v.pass /\ u.pct = v.pct /\ u.cached = pct /\ u.grace = v.grace
          /\ u.seen = v.seen /\ u.cycle = v.cycle /\ u.windows = v.windows
      BY <1>1 DEF Sound, Requests
    <3>2. Holds(v)
      BY <1>1, <2>3
    <3> HIDE DEF u, v
    <3>3. ~(v.pc = "plan" /\ v.pass = 2)
      BY <2>1, <3>2 DEF Holds, Fresh
    <3> QED BY <2>1, <3>1, <3>2, <3>3 DEF Holds, Fresh, Past
  <2> QED BY <2>1, <2>2, <2>3
<1> QED BY <1>5, <1>6, <1>7, <1>8, <1>9, <1>10

LEMMA GivesUpStep ==
    ASSUME PollInductive, NEW c \in Polls, GivesUp(c)
    PROVE  PollInductive'
BY SoundIdle, ReadsTypes, ReadsFresh DEF PollInductive, GivesUp

\* A poll in its passes: its snapshot has no window, and when it is fresh it has
\* the shares in force.
LEMMA Passing ==
    ASSUME PollInductive, NEW c \in Polls, poll[c].pc = "plan"
    PROVE  LET v == poll[c]
           IN  /\ v.windows = {} /\ v.pct \in Shares /\ pct \in Shares
               /\ v.cached # None => v.cached \in Shares
               /\ v.pass \in {1, 2}
               /\ c \notin overtaken /\ v.pass = 1 =>
                    /\ v.pct = Displayed(pct) /\ v.cached \in {None, pct}
                    /\ windows = {} /\ Past(v, cycle, mark)
               /\ c \notin overtaken /\ v.pass = 2 /\ NoCrumbs(v.cached) =>
                    /\ v.pct = Displayed(pct) /\ v.cached = pct /\ Past(v, cycle, mark)
                    /\ Opened(v, pct, windows, cycle, mark)
<1>1. TypeOK /\ AllFresh /\ Sound(poll[c]) /\ (c \notin overtaken => Holds(poll[c]))
  BY SoundPolls DEF PollInductive, AllFresh
<1>2. poll[c].windows = {} /\ poll[c].pct \in Shares /\ poll[c].pass \in {1, 2}
      /\ (poll[c].cached # None => poll[c].cached \in Shares)
  BY <1>1 DEF Sound, Requests, Shares
<1>3. pct \in Shares
  BY <1>1 DEF TypeOK, Shares
<1> QED BY <1>1, <1>2, <1>3 DEF Holds, Fresh, Opened

\* What a poll keeps when it goes on to look again.
LEMMA LooksAgain ==
    ASSUME NEW v, Sound(v), v.pc = "plan"
    PROVE  /\ Sound(Again(v)) /\ Again(v).pc = "again" /\ Again(v).pass = v.pass
           /\ Again(v).seen = v.seen /\ Again(v).cached = v.cached /\ Again(v).grace = v.grace
BY DEF Sound, Requests, Again

\* What a fresh poll makes of its snapshot is what can be made of the scope now.
LEMMA FreshDecision ==
    ASSUME PollInductive, NEW c \in Polls, c \notin overtaken, poll[c].pc = "plan",
           poll[c].cached # None, poll[c].pass = 1 \/ NoCrumbs(poll[c].cached)
    PROVE  LET v == poll[c]
               q == Displayed(pct)
           IN  /\ v.pct = q /\ v.cached = pct /\ v.windows = {} /\ pct \in Shares
               /\ q \in Shares /\ Shows(q, pct)
               /\ Past(v, cycle, mark)
               /\ Breached(v) = Suffering(q, v.seen) /\ Worst(v) = WorstOf(q, v.seen)
               /\ Decides(v) = DecisionOn(q, v.seen)
               /\ \A u : Proposals(v, u) = PlansFor(q, pct, v.seen, u)
               /\ \A u : Targets(v, u) = TargetsOf(q, pct, v.seen, u)
               /\ \A u : MaintenanceDue(v, u) <=> Due(q, pct, v.seen, u)
               /\ v.pass \in {1, 2} /\ (v.pass = 1 => windows = {})
               /\ v.pass = 2 => Opened(v, pct, windows, cycle, mark)
<1> DEFINE v == poll[c]
           q == Displayed(pct)
<1>1. v.windows = {} /\ v.pct = q /\ v.cached = pct /\ pct \in Shares /\ Past(v, cycle, mark)
      /\ v.pass \in {1, 2} /\ (v.pass = 1 => windows = {})
      /\ (v.pass = 2 => Opened(v, pct, windows, cycle, mark))
  BY Passing
<1>2. q \in Shares /\ Shows(q, pct)
  BY <1>1, ShownShares
<1> HIDE DEF v, q
<1>3. /\ Breached(v) = Suffering(q, v.seen) /\ Worst(v) = WorstOf(q, v.seen)
      /\ Decides(v) = DecisionOn(q, v.seen)
      /\ \A u : Proposals(v, u) = PlansFor(q, pct, v.seen, u)
      /\ \A u : Targets(v, u) = TargetsOf(q, pct, v.seen, u)
  BY <1>1, <1>2, PlainSnapshot
<1>4. ASSUME NEW u PROVE MaintenanceDue(v, u) <=> Due(q, pct, v.seen, u)
  <2>1. Decides(v) = DecisionOn(q, v.seen) /\ Proposals(v, u) = PlansFor(q, pct, v.seen, u)
    BY <1>3
  <2> QED BY <1>1, <2>1, Zenon DEF MaintenanceDue, Due
<1> QED BY <1>1, <1>2, <1>3, <1>4 DEF v, q

\* A decision to move traffic is never a forced one to open windows.
LEMMA NotForced ==
    ASSUME NEW v, Decides(v) = "routing"
    PROVE  ~ForceMaintenance(v)
<1>1. Cardinality(Routable(Shown(v), MaintainedActive(v))) > 1
  BY DEF Decides, SKURoutingDecision
<1>2. Cardinality(Routable(Shown(v), MaintainedActive(v))) # 1
  BY <1>1
<1>3. "routing" # "maintenance"
  OBVIOUS
<1> QED BY <1>2, <1>3, Zenon DEF ForceMaintenance, ShouldForceAutoMaintenance,
             ShouldForceAutoMaintenanceAllProviders, Decides

LEMMA ShiftStep ==
    ASSUME PollInductive, NEW c \in Polls, Shift(c)
    PROVE  PollInductive'
<1> DEFINE v == poll[c]
<1>1. TypeOK /\ Sound(v) /\ v.pc = "plan" /\ v.cached # None
  BY SoundPolls DEF PollInductive, Shift, At
<1>2. PICK u \in Worst(v) : \E r \in Proposals(v, u) : Valid(r) /\ pct' = r
  BY DEF Shift
<1>0. PICK r \in Proposals(v, u) : Valid(r) /\ pct' = r
  BY <1>2
<1>3. Breached(v) # {} /\ Decides(v) = "routing"
  BY DEF Shift, AutoApplyAllowed
<1>4. mark' = cycle /\ windows' = windows /\ Writes(c, Again(v))
  BY DEF Shift
<1>5. v.cached \in Shares /\ v.windows = {} /\ v.pct \in Shares
  BY <1>1, Passing DEF PollInductive
<1>6. /\ Sound(Again(v)) /\ Again(v).pc = "again" /\ Again(v).pass = v.pass
      /\ Again(v).seen = v.seen /\ Again(v).cached = v.cached /\ Again(v).grace = v.grace
  BY <1>1, LooksAgain
<1> HIDE DEF v
<1>7. r \in Shares /\ SumFunction(r) \in (Full - 1)..(Full + 1)
  <2>1. u \in Providers
    BY WorstBreached
  <2>2. r \in BuildRoutingPlan(v.cached, MaintainedActive(v), Context(v), Rate, u)
    BY <1>0 DEF Proposals
  <2>3. AboutFull(r) /\ Rate \in [Providers -> Nat]
    BY <1>0, PollAssumption DEF Valid, AboutFull
  <2> QED BY <1>5, <2>1, <2>2, <2>3, StaysWithin DEF Shares, AboutFull
<1>8. TypeOK'
  <2>1. cycle \in 0..MaxCycles /\ windows \subseteq Providers
    BY <1>1 DEF TypeOK
  <2> QED BY <1>1, <1>0, <1>4, <1>6, <1>7, <2>1, WritesTypes
<1>9. AllFresh'
  <2>1. ASSUME c \notin overtaken, NoCrumbs(v.cached) PROVE Quiet(Again(v), pct')
    <3> DEFINE q == Displayed(pct)
    <3>1. /\ v.cached = pct /\ pct \in Shares /\ q \in Shares /\ Shows(q, pct)
          /\ Worst(v) = WorstOf(q, v.seen) /\ Decides(v) = DecisionOn(q, v.seen)
          /\ Proposals(v, u) = PlansFor(q, pct, v.seen, u)
      BY <1>1, <2>1, FreshDecision DEF v
    <3>2. Shows(pct, q)
      BY <2>1, <3>1, ShownShares
    <3> HIDE DEF q
    <3>3. u \in Suffering(q, v.seen)
      BY <3>1 DEF WorstOf
    <3>4. Suffering(r, v.seen) = {}
      BY <1>0, <1>3, <3>1, <3>2, <3>3, PollPlan
    <3>5. Shows(Displayed(r), r)
      BY <1>7, ShownShares
    <3>6. Suffering(Displayed(r), v.seen) = {}
      BY <3>4, <3>5 DEF Suffering, SeenBy, Shows, MetricsBreach
    <3> QED BY <1>0, <1>6, <3>6 DEF Quiet
  <2>2. ASSUME c \notin overtaken PROVE Fresh(Again(v), pct', windows', cycle', mark')
    BY <1>1, <1>6, <2>1, <2>2 DEF Fresh
  <2> QED BY <1>1, <1>4, <2>2, WritesFresh
<1> QED BY <1>8, <1>9 DEF PollInductive

\* After a first pass that opened windows the second would open them again.
LEMMA WouldReopen ==
    ASSUME Few, NEW r \in Shares, AboutFull(r), NEW v, NEW w,
           NEW u \in WorstOf(Displayed(r), v.seen), Due(Displayed(r), r, v.seen, u),
           TargetsOf(Displayed(r), r, v.seen, u) # {},
           TargetsOf(Displayed(r), r, v.seen, u) \subseteq w
    PROVE  Reopens(v, r, w)
<1> DEFINE q == Displayed(r)
<1>1. ASSUME NEW x \in WorstOf(q, v.seen)
      PROVE  Due(q, r, v.seen, x) /\ TargetsOf(q, r, v.seen, x) \cap w # {}
  <2>1. AllRoutableBreach(q, {}, SeenBy(q, v.seen)) \/ u = x
    BY <1>1, OneWorst
  <2> HIDE DEF q
  <2>2. CASE u = x
    BY <2>2 DEF q
  <2>3. CASE AllRoutableBreach(q, {}, SeenBy(q, v.seen))
    <3>1. DecisionOn(q, v.seen) = "maintenance"
      BY <2>3 DEF DecisionOn, AllRoutableBreach, SKURoutingDecision
    <3>2. TargetsOf(q, r, v.seen, x) = TargetsOf(q, r, v.seen, u)
      BY <2>3 DEF TargetsOf
    <3> QED BY <3>1, <3>2 DEF Due, q
  <2> QED BY <2>1, <2>2, <2>3
<1> QED BY <1>1 DEF Reopens

LEMMA OpenWindowsStep ==
    ASSUME PollInductive, NEW c \in Polls, OpenWindows(c)
    PROVE  PollInductive'
<1> DEFINE v == poll[c]
<1>1. TypeOK /\ AllFresh /\ Sound(v) /\ v.pc = "plan" /\ v.cached # None
  BY SoundPolls DEF PollInductive, OpenWindows, At
<1>2. PICK u \in Worst(v) :
        /\ MaintenanceDue(v, u)
        /\ \/ Reads(c, Idle)
           \/ /\ Targets(v, u) # {} /\ windows' = windows \cup Targets(v, u)
              /\ Writes(c, Again(v)) /\ UNCHANGED <<pct, mark>>
  BY DEF OpenWindows
<1>3. /\ Sound(Again(v)) /\ Again(v).pc = "again" /\ Again(v).pass = v.pass
      /\ Again(v).seen = v.seen /\ Again(v).cached = v.cached /\ Again(v).grace = v.grace
  BY <1>1, LooksAgain
<1>4. CASE Reads(c, Idle)
  BY <1>1, <1>4, SoundIdle, ReadsTypes, ReadsFresh DEF PollInductive
<1>5. CASE /\ Targets(v, u) # {} /\ windows' = windows \cup Targets(v, u)
           /\ Writes(c, Again(v)) /\ UNCHANGED <<pct, mark>>
  <2>1. Targets(v, u) \subseteq Providers
    BY <1>2, WorstBreached DEF Targets
  <2>2. TypeOK'
    <3>1. /\ mark' \in 0..MaxCycles /\ windows' \subseteq Providers
          /\ pct' \in Shares /\ SumFunction(pct') \in (Full - 1)..(Full + 1)
      <4> HIDE DEF v
      <4> QED BY <1>1, <1>5, <2>1 DEF TypeOK, Shares
    <3> HIDE DEF v
    <3> QED BY <1>1, <1>3, <1>5, <3>1, WritesTypes
  <2>3. ASSUME c \notin overtaken, v.pass = 1
        PROVE  Opened(Again(v), pct', windows', cycle', mark')
    <3> DEFINE q == Displayed(pct)
    <3>1. /\ v.cached = pct /\ Past(v, cycle, mark) /\ pct \in Shares
          /\ Worst(v) = WorstOf(q, v.seen)
          /\ Targets(v, u) = TargetsOf(q, pct, v.seen, u) /\ Due(q, pct, v.seen, u)
      BY <1>1, <1>2, <2>3, FreshDecision
    <3>2. cycle' = cycle
      BY <1>5 DEF Writes
    <3> HIDE DEF v
    <3>3. Past(Again(v), cycle, mark)
      BY <1>3, <3>1 DEF Past
    <3>4. AboutFull(pct)
      BY <1>1 DEF TypeOK, AboutFull
    <3>5. ASSUME Few PROVE Reopens(Again(v), pct, windows')
      <4>1. u \in WorstOf(q, Again(v).seen) /\ Due(q, pct, Again(v).seen, u)
            /\ TargetsOf(q, pct, Again(v).seen, u) # {}
            /\ TargetsOf(q, pct, Again(v).seen, u) \subseteq windows'
        BY <1>2, <1>3, <1>5, <3>1
      <4> QED BY <3>1, <3>4, <3>5, <4>1, WouldReopen
    <3> QED BY <1>3, <1>5, <3>1, <3>2, <3>3, <3>5 DEF Opened
  <2> HIDE DEF v
  <2>4. ASSUME c \notin overtaken PROVE Fresh(Again(v), pct', windows', cycle', mark')
    BY <1>1, <1>3, <2>3, <2>4 DEF Fresh
  <2>5. AllFresh'
    BY <1>1, <1>5, <2>4, WritesFresh
  <2> QED BY <2>2, <2>5 DEF PollInductive
<1> QED BY <1>2, <1>4, <1>5

LEMMA ReadAgainStep ==
    ASSUME PollInductive, NEW c \in Polls, ReadAgain(c)
    PROVE  PollInductive'
<1> DEFINE v == poll[c]
           q == Displayed(pct)
           u == [v EXCEPT !.pct = q]
           w == [u EXCEPT !.pc = "plan", !.pass = 2]
<1>1. TypeOK /\ AllFresh /\ Sound(v) /\ v.pc = "again" /\ (c \notin overtaken => Holds(v))
  BY SoundPolls DEF PollInductive, ReadAgain, At, AllFresh
<1>2. Reads(c, Idle) \/ (Reads(c, w) /\ u.pass = 1 /\ Breached(u) # {})
  BY DEF ReadAgain
<1>3. CASE Reads(c, Idle)
  BY <1>1, <1>3, SoundIdle, ReadsTypes, ReadsFresh DEF PollInductive
<1>4. CASE Reads(c, w) /\ u.pass = 1 /\ Breached(u) # {}
  <2>1. pct \in Shares /\ q \in Shares /\ q # None
    <3>1. pct \in Shares
      BY <1>1 DEF TypeOK, Shares
    <3>2. q \in Shares
      BY <3>1, ShownShares
    <3> QED BY <3>1, <3>2, PollAssumption DEF Shares
  <2> HIDE DEF q
  <2>2. u \in Requests /\ u.pct = q /\ u.windows = {} /\ u.seen = v.seen /\ u.cached = v.cached
        /\ u.grace = v.grace /\ v.pass = 1
    BY <1>1, <1>4, <2>1 DEF Sound, Requests, Shares
  <2>3. w \in Requests /\ w.pc = "plan" /\ w.pass = 2 /\ w.pct = q /\ w.windows = {}
        /\ w.seen = v.seen /\ w.cached = v.cached /\ w.grace = v.grace
    <3> HIDE DEF u, v
    <3>1. w \in Requests
      <4>1. \A h \in Requests, k \in 0..2, l \in {"plan"} :
              [h EXCEPT !.pc = l, !.pass = k] \in Requests
        BY ONLY DEF Requests
      <4>2. 2 \in 0..2
        OBVIOUS
      <4> QED BY ONLY <2>2, <4>1, <4>2 DEF w
    <3>2. w.pc = "plan" /\ w.pass = 2 /\ w.pct = u.pct /\ w.windows = u.windows
          /\ w.seen = u.seen /\ w.cached = u.cached /\ w.grace = u.grace
      BY <2>2 DEF Requests
    <3> QED BY <2>2, <3>1, <3>2
  <2>4. Sound(w)
    <3> HIDE DEF w, v
    <3> QED BY <1>1, <2>1, <2>3 DEF Sound
  <2>5. ASSUME c \notin overtaken PROVE Holds(w)
    <3>0. v.cached # None
      <4> HIDE DEF v
      <4> QED BY <1>1, <2>5 DEF Holds, Fresh
    <3>1. CASE NoCrumbs(v.cached)
      <4>1. Quiet(v, pct) \/ Opened(v, pct, windows, cycle, mark)
        <5> HIDE DEF v
        <5> QED BY <1>1, <2>2, <2>5, <3>1 DEF Holds, Fresh
      <4>2. Breached(u) = Suffering(q, v.seen)
        <5> HIDE DEF u
        <5> QED BY <2>1, <2>2, PlainSnapshot
      <4>3. Opened(v, pct, windows, cycle, mark)
        BY <1>4, <4>1, <4>2 DEF Quiet, q
      <4> HIDE DEF v, w
      <4> QED BY <2>3, <3>0, <4>3 DEF Holds, Fresh, Opened, Reopens, Past, q
    <3>2. CASE ~NoCrumbs(v.cached)
      <4> HIDE DEF v, w
      <4> QED BY <2>3, <3>0, <3>2 DEF Holds, Fresh
    <3> QED BY <3>1, <3>2
  <2> HIDE DEF v, u, w
  <2> QED BY <1>1, <1>4, <2>4, <2>5, ReadsTypes, ReadsFresh DEF PollInductive
<1> QED BY <1>2, <1>3, <1>4

\* What others than polls do.
LEMMA OtherSteps ==
    ASSUME PollInductive,
           Apply \/ applyScopeReopenRouting \/ handleScopeAutoPut \/ AgentShifts \/ FinishCycle \/ World
    PROVE  PollInductive'
<1>1. TypeOK /\ AllFresh
  BY DEF PollInductive
<1>2. MaxCycles \in Nat /\ Turns \in Nat /\ cycle \in 0..MaxCycles /\ turns \in 0..Turns
  BY <1>1, PollAssumption DEF TypeOK
<1>3. ASSUME Moves PROVE turns' \in 0..Turns /\ poll' = poll
  BY <1>2, <1>3 DEF Moves
<1>4. ASSUME Overtakes PROVE overtaken' \subseteq Polls
  BY <1>1, <1>4 DEF Overtakes, InFlight, TypeOK
<1>5. CASE Apply
  <2>1. \A r \in Manual : r \in [Providers -> 0..Full] /\ SumFunction(r) \in (Full - 1)..(Full + 1)
    BY PollAssumption
  <2>2. pct' \in [Providers -> 0..Full] /\ SumFunction(pct') \in (Full - 1)..(Full + 1)
    BY <1>5, <2>1 DEF Apply
  <2> QED BY <1>1, <1>3, <1>4, <1>5, <2>2, OvertakesFresh DEF Apply, TypeOK, PollInductive
<1>6. CASE applyScopeReopenRouting
  <2>1. Baseline \in [Providers -> 0..Full] /\ SumFunction(Baseline) \in (Full - 1)..(Full + 1)
    BY PollAssumption
  <2> QED BY <1>1, <1>2, <1>3, <1>4, <1>6, <2>1, OvertakesFresh
          DEF applyScopeReopenRouting, TypeOK, PollInductive
<1>7. CASE handleScopeAutoPut
  <2>1. mode' \in [service : Modes \cup {None}, sku : Modes \cup {None}]
    BY <1>1, <1>7 DEF handleScopeAutoPut, TypeOK
  <2> QED BY <1>1, <1>3, <1>4, <1>7, <2>1, OvertakesFresh
          DEF handleScopeAutoPut, TypeOK, PollInductive
<1>8. CASE AgentShifts
  <2> DEFINE now == [Idle EXCEPT !.pct = pct, !.seen = metrics, !.windows = windows, !.cached = pct]
  <2>1. Decides(now) = "routing" /\ windows = {}
    BY <1>8 DEF AgentShifts
  <2>0. PICK u \in Worst(now) : pct' \in Proposals(now, u)
    BY <1>8 DEF AgentShifts
  <2>2. now.pct = pct /\ now.seen = metrics /\ now.windows = windows /\ now.cached = pct
    BY DEF Idle
  <2>3. pct \in Shares
    BY <1>1 DEF TypeOK, Shares
  <2> HIDE DEF now
  <2>4. /\ Worst(now) = WorstOf(pct, metrics) /\ Decides(now) = DecisionOn(pct, metrics)
        /\ Proposals(now, u) = PlansFor(pct, pct, metrics, u)
    BY <2>1, <2>2, <2>3, PlainSnapshot
  <2>5. pct' \in Shares /\ SumFunction(pct') = Full
    <3>1. u \in Suffering(pct, metrics) /\ Shows(pct, pct)
      BY <2>4 DEF WorstOf, Shows
    <3> QED BY <2>0, <2>1, <2>3, <2>4, <3>1, PollPlan
  <2>6. pct' \in [Providers -> 0..Full] /\ SumFunction(pct') \in (Full - 1)..(Full + 1)
    BY <2>5 DEF Shares, Full
  <2>7. mark' \in 0..MaxCycles
    BY <1>2, <1>8 DEF AgentShifts
  <2> QED BY <1>1, <1>3, <1>4, <1>8, <2>6, <2>7, OvertakesFresh DEF AgentShifts, TypeOK, PollInductive
<1>9. CASE FinishCycle
  <2>1. cycle' = cycle + 1 /\ cycle' \in 0..MaxCycles
        /\ UNCHANGED <<pct, windows, metrics, mark, mode, turns, poll, overtaken>>
    BY <1>2, <1>9 DEF FinishCycle
  <2>2. mark \in 0..MaxCycles
    BY <1>1 DEF TypeOK
  <2>3. ASSUME NEW c \in Polls, c \notin overtaken
        PROVE  Fresh(poll[c], pct, windows, cycle', mark)
    <3>1. Holds(poll[c]) /\ Sound(poll[c])
      BY <1>1, <2>3, SoundPolls DEF AllFresh
    <3>2. poll[c].cycle \in Nat
      BY <3>1, PollAssumption DEF Sound, Requests
    <3>3. Past(poll[c], cycle, mark) => Past(poll[c], cycle', mark)
      BY <1>2, <2>1, <2>2 DEF Past
    <3>4. poll[c].cycle <= cycle => poll[c].cycle <= cycle'
      BY <1>2, <2>1, <3>2
    <3> QED BY <3>1, <3>3, <3>4, Zenon DEF Holds, Fresh, Opened
  <2>4. AllFresh'
    BY <2>1, <2>3 DEF AllFresh, Holds
  <2> QED BY <1>1, <2>1, <2>4 DEF TypeOK, PollInductive
<1>10. CASE World
  <2>1. ASSUME UNCHANGED <<windows, overtaken>>, NEW p \in Providers, NEW k \in Metrics,
               metrics' = [metrics EXCEPT ![p] = k]
        PROVE  PollInductive'
    <3>1. metrics' \in [Providers -> Metrics]
      BY <1>1, <2>1 DEF TypeOK
    <3> QED BY <1>1, <1>3, <1>10, <2>1, <3>1 DEF World, TypeOK, PollInductive, AllFresh, Holds
  <2>2. ASSUME Overtakes, UNCHANGED metrics,
               windows' = {} \/ \E p \in Providers \ windows : windows' = windows \cup {p}
        PROVE  PollInductive'
    <3>1. windows' \subseteq Providers
      BY <1>1, <2>2 DEF TypeOK
    <3> QED BY <1>1, <1>3, <1>4, <1>10, <2>2, <3>1, OvertakesFresh DEF World, TypeOK, PollInductive
  <2> QED BY <1>10, <2>1, <2>2 DEF World
<1> QED BY <1>5, <1>6, <1>7, <1>8, <1>9, <1>10

LEMMA PollStepInductive == PollInductive /\ [Next]_vars => PollInductive'
<1> SUFFICES ASSUME PollInductive, [Next]_vars PROVE PollInductive'
  OBVIOUS
<1>1. ASSUME NEW c \in Polls, handleDashboardOverview(c) PROVE PollInductive'
  BY <1>1, ReadingSteps, GivesUpStep, ShiftStep, OpenWindowsStep, ReadAgainStep
     DEF handleDashboardOverview, autoApplyScopeFromSnapshot
<1>2. CASE UNCHANGED vars
  BY <1>2 DEF PollInductive, vars, scope, TypeOK, AllFresh, Holds
<1> QED BY <1>1, <1>2, OtherSteps DEF Next

LEMMA PollInvariance == Spec => []PollInductive
BY PollInitInductive, PollStepInductive, PTL DEF Spec

\* The shares in force always add up and every poll's record is of its type.
THEOREM PollTypeCorrect == Spec => []TypeOK
<1>1. PollInductive => TypeOK
  BY DEF PollInductive
<1> QED BY <1>1, PollInvariance, PTL

\* A poll changes the scope only where a pass moves traffic or opens windows.
LEMMA ActingSteps ==
    ASSUME TypeOK, [Next]_vars, NEW c \in Polls, Acts(c)
    PROVE  \/ Shift(c)
           \/ /\ OpenWindows(c) /\ UNCHANGED pct
              /\ \E u \in Worst(poll[c]) : /\ MaintenanceDue(poll[c], u)
                                           /\ Targets(poll[c], u) \cap windows = {}
<1> DEFINE v == poll[c]
<1>1. poll \in [Polls -> Requests] /\ v.pc = "plan" /\ poll'[c].pc = "again"
  BY DEF TypeOK, Acts
<1>2. poll' # poll
  BY <1>1
<1>3. PICK d \in Polls : handleDashboardOverview(d)
  BY <1>2 DEF Next, vars, scope, Apply, applyScopeReopenRouting, handleScopeAutoPut, AgentShifts,
              World, Moves, FinishCycle
<1>4. \E u : poll' = [poll EXCEPT ![d] = u]
  BY <1>3 DEF handleDashboardOverview, autoApplyScopeFromSnapshot, ListAllRoutingConfig,
              NewOverviewCaches, ListWindows, ListScopeAutoConfig, ReadGrace, productRouting,
              GivesUp, Shift, OpenWindows, ReadAgain, Reads, Writes, Becomes
<1>5. d = c
  BY <1>1, <1>4
<1>6. \A u : Reads(c, u) => poll'[c] = u
  BY <1>1 DEF Reads, Becomes
<1>7. ~Reads(c, Idle)
  BY <1>1, <1>6 DEF Idle
<1>8. ~productRouting(c)
  <2>1. v \in Requests
    BY <1>1
  <2>2. [v EXCEPT !.cached = pct].pc = v.pc
    BY <2>1 DEF Requests
  <2> QED BY <1>1, <1>6, <2>2 DEF productRouting
<1>9. GivesUp(c) \/ Shift(c) \/ OpenWindows(c)
  BY <1>1, <1>3, <1>5, <1>8 DEF handleDashboardOverview, autoApplyScopeFromSnapshot, At,
     ListAllRoutingConfig, NewOverviewCaches, ListWindows, ListScopeAutoConfig, ReadGrace, ReadAgain
<1>10. ~GivesUp(c)
  BY <1>7 DEF GivesUp
<1> QED BY <1>7, <1>9, <1>10 DEF OpenWindows

\* Once a poll has opened windows its second pass opens no more.
LEMMA NoMoreWindows ==
    ASSUME PollInductive, Few, NEW c \in Polls, c \notin overtaken, NoCrumbs(poll[c].cached),
           poll[c].pc = "plan", poll[c].cached # None,
           NEW u \in Worst(poll[c]), Targets(poll[c], u) \cap windows = {}
    PROVE  poll[c].pass = 1
<1> DEFINE v == poll[c]
           q == Displayed(pct)
<1>1. /\ v.pass \in {1, 2} /\ Worst(v) = WorstOf(q, v.seen)
      /\ Targets(v, u) = TargetsOf(q, pct, v.seen, u)
      /\ (v.pass = 2 => Opened(v, pct, windows, cycle, mark))
  BY FreshDecision
<1> HIDE DEF v
<1> QED BY <1>1 DEF Opened, Reopens, v

\* README.md:2495: a poll that nobody overtook opens a window in its first pass
\* only where no provider in order is left that is seen to carry traffic, or
\* where no provider in breach carries more than a crumb.
THEOREM WindowsAreNeeded == Spec => NoNeedlessWindow
<1> DEFINE Suffers(c) == {p \in Providers : MetricsBreach(poll[c].seen[p])}
           InOrder(c) == {p \in Providers \ Suffers(c) : poll[c].seen[p] # "none"}
<1>1. ASSUME PollInductive, [Next]_vars,
             NEW c \in Polls \ overtaken, Acts(c), poll[c].pass = 1, windows' # windows
      PROVE  (\A p \in InOrder(c) : pct[p] < 5) \/ (\A p \in Suffers(c) : pct[p] <= 5)
  <2> DEFINE v == poll[c]
             q == Displayed(pct)
  <2>1. OpenWindows(c)
    BY <1>1, ActingSteps DEF PollInductive, Shift
  <2>2. PICK u \in Worst(v) : MaintenanceDue(v, u)
    BY <1>1, <2>1, ActingSteps DEF PollInductive, Shift
  <2>3. v.pc = "plan" /\ v.cached # None
    BY <2>1 DEF OpenWindows, At
  <2>4. /\ pct \in Shares /\ q \in Shares /\ Shows(q, pct) /\ Due(q, pct, v.seen, u)
        /\ Worst(v) = WorstOf(q, v.seen)
    BY <1>1, <2>2, <2>3, FreshDecision
  <2>5. \A p \in Providers : q[p] > 0 <=> pct[p] >= 5
    BY <2>4, ShownShares
  <2>6. u \in Suffering(q, v.seen)
    BY <2>4 DEF WorstOf
  <2>7. \A p \in Providers : pct[p] \in Nat /\ q[p] \in Nat
    <3>1. \A i \in 0..Full : i \in Nat
      BY DEF Full
    <3> QED BY <2>4, <3>1 DEF Shares
  <2> HIDE DEF v, q
  <2>8. CASE DecisionOn(q, v.seen) = "maintenance"
    <3>1. SUFFICES ASSUME NEW p \in InOrder(c), pct[p] >= 5 PROVE FALSE
      BY <2>7
    <3>2. p \in Providers /\ q[p] > 0 /\ ~MetricsBreach(v.seen[p]) /\ v.seen[p] # "none"
      BY <2>5, <3>1 DEF v
    <3>3. p \in Healthy(q, {}, SeenBy(q, v.seen)) /\ p \in Routable(q, {})
      BY <3>2 DEF Healthy, Routable, SeenBy
    <3>4. u \in Routable(q, {}) /\ u # p
      BY <2>6, <3>2 DEF Suffering, SeenBy, Routable, MetricsBreach
    <3>5. Routable(q, {}) \in SUBSET Providers
      BY DEF Routable
    <3>6. IsFiniteSet(Routable(q, {}))
      BY <3>5, ProvidersAssumption, FS_Subset
    <3>7. Cardinality(Routable(q, {})) \in Nat /\ Cardinality(Routable(q, {})) # 0
          /\ Cardinality(Routable(q, {})) # 1
      BY <3>3, <3>4, <3>6, FS_CardinalityType, FS_EmptySet, FS_Singleton
    <3>8. Cardinality(Routable(q, {})) > 1
      BY <3>7
    <3> QED BY <2>8, <3>3, <3>8 DEF DecisionOn, SKURoutingDecision
  <2>9. CASE DecisionOn(q, v.seen) # "maintenance"
    <3>1. DecisionOn(q, v.seen) = "routing"
      BY <2>9 DEF DecisionOn, SKURoutingDecision
    <3>2. PICK s \in PlansFor(q, pct, v.seen, u) : Same(pct, s)
      BY <2>4, <2>9 DEF Due
    <3>3. \A p \in Suffering(q, v.seen) : s[p] = 0
      BY <2>4, <2>6, <3>1, PollPlan
    <3>4. ASSUME NEW p \in Suffers(c) PROVE pct[p] <= 5
      <4>1. p \in Providers /\ MetricsBreach(v.seen[p])
        BY <3>4 DEF v
      <4>2. pct[p] - s[p] \in -5..5 /\ pct[p] \in Nat
        BY <2>7, <3>2, <4>1 DEF Same
      <4>3. CASE q[p] > 0
        <5>1. s[p] = 0
          BY <3>3, <4>1, <4>3 DEF Suffering, SeenBy
        <5> QED BY <4>2, <5>1
      <4>4. CASE ~(q[p] > 0)
        BY <2>5, <4>1, <4>2, <4>4
      <4> QED BY <4>3, <4>4
    <3> QED BY <3>4
  <2> QED BY <2>8, <2>9
<1>2. PollInductive /\ [Next]_vars =>
        [\A c \in Polls \ overtaken :
           Acts(c) /\ poll[c].pass = 1 /\ windows' # windows
             => LET suffers == {p \in Providers : MetricsBreach(poll[c].seen[p])}
                    inOrder == {p \in Providers \ suffers : poll[c].seen[p] # "none"}
                IN  (\A p \in inOrder : pct[p] < 5) \/ (\A p \in suffers : pct[p] <= 5)]_vars
  BY <1>1
<1> QED
  BY <1>2, PollInvariance, PTL DEF Spec, NoNeedlessWindow

\* reopen_routing.go:15: after a routing was applied a poll that nobody overtook,
\* and that planned for shares without crumbs, moves no traffic before the next
\* cycle is complete.
THEOREM GraceIsWaitedFor == Spec => WaitsForNextCycle
<1>1. ASSUME PollInductive, [Next]_vars, NEW c \in Polls \ overtaken,
             Acts(c), NoCrumbs(poll[c].cached), pct' # pct
      PROVE  ~InGrace(cycle)
  <2>1. Shift(c)
    BY <1>1, ActingSteps DEF PollInductive
  <2>2. Decides(poll[c]) = "routing" /\ poll[c].pc = "plan" /\ poll[c].cached # None
    BY <2>1 DEF Shift, At
  <2>3. ~poll[c].grace
    BY <2>1, <2>2, NotForced DEF Shift, AutoApplyAllowed
  <2>4. Past(poll[c], cycle, mark)
    BY <1>1, <2>2, FreshDecision
  <2> QED BY <2>3, <2>4 DEF Past, InGrace
<1>2. PollInductive /\ [Next]_vars =>
        [\A c \in Polls \ overtaken :
           Acts(c) /\ NoCrumbs(poll[c].cached) /\ pct' # pct => ~InGrace(cycle)]_vars
  BY <1>1
<1> QED
  BY <1>2, PollInvariance, PTL DEF Spec, WaitsForNextCycle

\* With the two or three providers a SKU has, a poll that nobody overtook, and
\* that planned for shares without crumbs, changes the scope once.  With four, two
\* equally bad ones of 0.05 % each could get a window each, one in either pass.
THEOREM OneChange == ASSUME Few PROVE Spec => OneChangePerPoll
<1>1. ASSUME PollInductive, [Next]_vars, NEW c \in Polls \ overtaken,
             Acts(c), NoCrumbs(poll[c].cached)
      PROVE  poll[c].pass = 1
  <2> DEFINE v == poll[c]
             q == Displayed(pct)
  <2>1. CASE OpenWindows(c) /\ \E u \in Worst(v) : Targets(v, u) \cap windows = {}
    <3>1. v.pc = "plan" /\ v.cached # None
      BY <2>1 DEF OpenWindows, At
    <3> QED BY <1>1, <2>1, <3>1, NoMoreWindows
  <2>2. CASE Shift(c)
    <3>1. SUFFICES ASSUME v.pass # 1 PROVE FALSE
      OBVIOUS
    <3>2. v.pc = "plan" /\ v.cached # None /\ Decides(v) = "routing"
      BY <2>2 DEF Shift, At
    <3>3. PICK u \in Worst(v) : \E s \in Proposals(v, u) : ~Same(v.cached, s)
      BY <2>2 DEF Shift
    <3>4. PICK s \in Proposals(v, u) : ~Same(v.cached, s)
      BY <3>3
    <3>5. /\ v.cached = pct /\ pct \in Shares /\ q \in Shares /\ Shows(q, pct)
          /\ Worst(v) = WorstOf(q, v.seen) /\ DecisionOn(q, v.seen) = "routing"
          /\ s \in PlansFor(q, pct, v.seen, u)
          /\ Opened(v, pct, windows, cycle, mark)
      BY <1>1, <3>1, <3>2, <3>4, FreshDecision
    <3> HIDE DEF v
    <3>6. Due(q, pct, v.seen, u)
      BY <3>3, <3>5 DEF Opened, Reopens
    <3> HIDE DEF q
    <3>7. PICK r \in PlansFor(q, pct, v.seen, u) : Same(pct, r)
      BY <3>5, <3>6 DEF Due
    <3> DEFINE m == SeenBy(q, v.seen)
    <3>8. Shifts(pct, {}, Cut(m, u))
      <4>1. u \in Suffering(q, v.seen)
        BY <3>3, <3>5 DEF WorstOf
      <4> QED BY <3>5, <4>1, DecisionShifts
    <3>9. AboutFull(pct) /\ Rate \in [Providers -> Nat] /\ pct \in [Providers -> 0..Full]
      BY <1>1, PollAssumption DEF PollInductive, TypeOK, AboutFull
    <3>10. r \in BuildRoutingPlan(pct, {}, m, Rate, u) /\ s \in BuildRoutingPlan(pct, {}, m, Rate, u)
      BY <3>5, <3>7 DEF PlansFor
    <3>11. Alike(pct, r)
      BY <3>7 DEF Same, Alike
    <3>12. Dozen
      BY CountType DEF Few, Dozen
    <3> HIDE DEF m
    <3>13. s = r
      BY <3>8, <3>9, <3>10, <3>11, <3>12, OnlyPlan
    <3> QED BY <3>4, <3>5, <3>7, <3>13
  <2> QED BY <1>1, <2>1, <2>2, ActingSteps DEF PollInductive
<1>2. PollInductive /\ [Next]_vars =>
        [\A c \in Polls \ overtaken :
           Acts(c) /\ NoCrumbs(poll[c].cached) => poll[c].pass = 1]_vars
  BY <1>1
<1> QED
  BY <1>2, PollInvariance, PTL DEF Spec, OneChangePerPoll

=============================================================================

-------------------------- MODULE AgentCycleProofs --------------------------
(***************************************************************************)
(* Theorems about AgentCycle, for any products, skus, providers (up to a    *)
(* hundred), shares and metrics, and however often operators interfere and *)
(* cycles fail.  The invariant says what the cycle in progress may rely on: *)
(* what its snapshot is, that the scope in hand belongs to the product in   *)
(* hand and was assessed on that snapshot, and which marks carry its id.    *)
(***************************************************************************)
EXTENDS AgentCycle, RoutingMathProofs, SequenceTheorems

HasSnapshot == pc \notin {"idle", "collect"}
InProduct  == pc \in {"assess", "gate", "decide", "record", "windows", "resolve"}
InScope    == pc \in {"gate", "decide", "record", "windows"}

ScopeInHand == [sku : SKUs, worst : Providers, action : {"routing", "maintenance"},
                force : BOOLEAN, acts : BOOLEAN]

\* The snapshot of a cycle: a provider without traffic has no metrics in it.
Snapshot ==
    HasSnapshot =>
        /\ ctx.traffic \in [SKUs -> Shares]
        /\ \A s \in SKUs, p \in Providers : ctx.traffic[s][p] = 0 => View(s)[p] = "none"

\* A scope to be routed: its worst provider is flagged, the decision for its
\* sku is routing.
ToRoute ==
    /\ Flagged(View(SKU)[Worst])
    /\ SKURoutingDecision(ctx.traffic[SKU], Maintained(SKU), View(SKU)) = "routing"

OfProduct ==
    /\ InProduct => todo # <<>>
    /\ InScope => /\ scope \in ScopeInHand
                  /\ ProductOf[SKU] = Product
                  /\ scope.action = "routing" => ToRoute

\* Made with the id of the cycle in progress, or of a failed one just before.
IsFresh(m) == m # None /\ m.fresh

Touched(s) == IsFresh(mark[s]) \/ \E i \in DOMAIN plans[s] : IsFresh(plans[s][i].mark)

\* Products the cycle has yet to decide on.
Undecided ==
    CASE pc \in {"assess", "gate", "decide"} -> ToSet(todo)
      [] pc \in {"record", "windows", "resolve"} -> ToSet(Tail(todo))
      [] pc = "collect" -> ToSet(Products)
      [] OTHER -> {}

\* Only a product the cycle has decided on has marks of this cycle.
MarksBehind == \A s \in SKUs : Touched(s) => ProductOf[s] \notin Undecided
-----------------------------------------------------------------------------
(* The helpers.                                                             *)

LEMMA MarkTypes ==
    ASSUME NEW m \in Mark \cup {None}
    PROVE  /\ Aged(m) \in Mark \cup {None} /\ OneMore(m) \in Mark \cup {None}
           /\ m \in Mark => Aged(m) \in Mark /\ OneMore(m) \in Mark
           /\ ~IsFresh(Aged(m))
<1>1. CASE m = None
  BY <1>1 DEF Aged, OneMore, IsFresh
<1>2. CASE m # None
  <2>1. m \in Mark /\ m.since \in 0..2
    BY <1>2 DEF Mark
  <2>2. Aged(m) = [m EXCEPT !.fresh = FALSE] /\ Aged(m).fresh = FALSE /\ Aged(m) \in Mark
    BY <1>2, <2>1 DEF Aged, Mark
  <2>3. OneMore(m) \in Mark
    <3>1. CASE m.fresh \/ m.since = 2
      BY <2>1, <3>1 DEF OneMore
    <3>2. CASE ~m.fresh /\ m.since # 2
      <4>1. OneMore(m) = [m EXCEPT !.since = m.since + 1] /\ m.since + 1 \in 0..2
        BY <1>2, <2>1, <3>2 DEF OneMore
      <4> QED BY <2>1, <4>1 DEF Mark
    <3> QED BY <3>1, <3>2
  <2> QED BY <2>1, <2>2, <2>3 DEF IsFresh
<1> QED BY <1>1, <1>2

\* Pending plans of a sku, at most one.
Waiting == {ps \in Seq(Plan) : Len(ps) <= 1}

\* They stay pending plans whatever is done to each.
LEMMA EachPlan ==
    ASSUME NEW ps \in Waiting, NEW qs, qs = [i \in DOMAIN ps |-> qs[i]],
           \A i \in DOMAIN ps : qs[i] \in Plan
    PROVE  qs \in Waiting /\ DOMAIN qs = DOMAIN ps
<1>1. ps \in Seq(Plan) /\ Len(ps) <= 1 /\ DOMAIN ps = 1..Len(ps) /\ Len(ps) \in Nat
  BY DEF Waiting
<1>2. qs \in [1..Len(ps) -> Plan]
  BY <1>1
<1>3. qs \in Seq(Plan) /\ Len(qs) = Len(ps) /\ DOMAIN qs = DOMAIN ps
  BY <1>1, <1>2
<1> QED BY <1>1, <1>3 DEF Waiting

\* What a new cycle and a finished one do to the marks of the plans.
LEMMA MarksOfPlans ==
    ASSUME NEW ps \in Waiting
    PROVE  /\ AgedPlans(ps) \in Waiting
           /\ \A i \in DOMAIN AgedPlans(ps) : ~IsFresh(AgedPlans(ps)[i].mark)
           /\ [i \in DOMAIN ps |-> [ps[i] EXCEPT !.mark = OneMore(@)]] \in Waiting
<1> DEFINE qs == [i \in DOMAIN ps |-> [ps[i] EXCEPT !.mark = OneMore(@)]]
<1>1. ASSUME NEW i \in DOMAIN ps
      PROVE  /\ AgedPlans(ps)[i] \in Plan /\ ~IsFresh(AgedPlans(ps)[i].mark)
             /\ qs[i] \in Plan
  <2>1. ps[i] \in Plan
    BY DEF Waiting
  <2>2. ps[i].mark \in Mark
    BY <2>1 DEF Plan
  <2>3. /\ Aged(ps[i].mark) \in Mark /\ OneMore(ps[i].mark) \in Mark
        /\ ~IsFresh(Aged(ps[i].mark))
    BY <2>2, MarkTypes
  <2>4. /\ AgedPlans(ps)[i] = [ps[i] EXCEPT !.mark = Aged(ps[i].mark)]
        /\ qs[i] = [ps[i] EXCEPT !.mark = OneMore(ps[i].mark)]
    BY DEF AgedPlans
  <2> HIDE DEF qs
  <2>5. AgedPlans(ps)[i].mark = Aged(ps[i].mark)
    BY <2>1, <2>4 DEF Plan
  <2> QED BY <2>1, <2>3, <2>4, <2>5 DEF Plan
<1>2. /\ AgedPlans(ps) = [i \in DOMAIN ps |-> AgedPlans(ps)[i]]
      /\ qs = [i \in DOMAIN ps |-> qs[i]]
  BY DEF AgedPlans
<1> HIDE DEF qs
<1>3. AgedPlans(ps) \in Waiting /\ DOMAIN AgedPlans(ps) = DOMAIN ps /\ qs \in Waiting
  BY <1>1, <1>2, EachPlan
<1> QED BY <1>1, <1>3 DEF qs

\* The refresh of the newest pending plan, or the insertion of one.
LEMMA Proposing ==
    ASSUME NEW ps \in Waiting, NEW plan \in Plan, NEW needless
    PROVE  LET qs == WithProposal(ps, plan, needless)
           IN  /\ qs \in Waiting
               /\ \A i \in DOMAIN qs : qs[i] = plan \/ (i \in DOMAIN ps /\ qs[i] = ps[i])
<1>1. ps \in Seq(Plan) /\ Len(ps) <= 1 /\ Len(ps) \in Nat
  BY DEF Waiting
<1>2. CASE ps # <<>>
  <2>1. Len(ps) = 1
    <3>1. \A seq \in Seq(Plan) : seq # <<>> => Len(seq) \in Nat \ {0}
      BY EmptySeq
    <3>2. Len(ps) \in Nat \ {0}
      BY <1>1, <1>2, <3>1, Zenon
    <3>3. \A n \in Nat \ {0} : n <= 1 => n = 1
      OBVIOUS
    <3> QED BY <1>1, <3>2, <3>3, Zenon
  <2>2. Front(ps) = <<>>
    BY <1>1, <2>1 DEF Front
  <2>3. WithProposal(ps, plan, needless) = <<plan>>
    BY <1>2, <2>2 DEF WithProposal
  <2> QED BY <2>3 DEF Waiting
<1>3. CASE ps = <<>> /\ needless
  BY <1>1, <1>3 DEF WithProposal, Waiting
<1>4. CASE ps = <<>> /\ ~needless
  <2>1. WithProposal(ps, plan, needless) = <<plan>>
    BY <1>4 DEF WithProposal
  <2> QED BY <2>1 DEF Waiting
<1> QED BY <1>2, <1>3, <1>4

\* The approval or rejection of the only one.
LEMMA Removing ==
    ASSUME NEW ps \in Waiting, NEW i \in DOMAIN ps
    PROVE  RemoveAt(ps, i) = <<>> /\ RemoveAt(ps, i) \in Waiting /\ ps[i] \in Plan
<1>0. ps \in Seq(Plan) /\ Len(ps) \in Nat /\ Len(ps) <= 1 /\ DOMAIN ps = 1..Len(ps)
  BY DEF Waiting
<1>1. ps \in Seq(Plan) /\ Len(ps) = 1 /\ i = 1 /\ ps[i] \in Plan
  BY <1>0
<1>2. SubSeq(ps, 1, 0) = <<>> /\ SubSeq(ps, 2, 1) = <<>>
  BY <1>1
<1>3. RemoveAt(ps, i) = <<>>
  BY <1>1, <1>2 DEF RemoveAt
<1>4. <<>> \in Waiting
  BY DEF Waiting
<1> QED BY <1>1, <1>3, <1>4

\* The schema has no status for it.
LEMMA NothingCancelled == \A ps : CancelPending(ps) = ps
BY DEF CancelPending, PlanStatuses

LEMMA OpenIncidents ==
    ASSUME NEW n \in 0..1, NEW action
    PROVE  Resolved(n, action) \in 0..1 /\ IncidentsAfterAct(n) \in 0..1
BY DEF Resolved, IncidentsAfterAct

\* What is left of the products of a cycle.
Rests == {SubSeq(Products, i, Len(Products)) : i \in 1..(Len(Products) + 1)}

LEMMA RestsOfProducts ==
    /\ Products \in Rests /\ <<>> \in Rests
    /\ \A r \in Rests : r # <<>> =>
         /\ Tail(r) \in Rests /\ ToSet(Tail(r)) \subseteq ToSet(r)
         /\ Head(r) \in ToSet(r) /\ Head(r) \notin ToSet(Tail(r))
<1> DEFINE n == Len(Products)
<1>1. Products \in Seq(ToSet(Products)) /\ n \in Nat
  BY InputsAssumption
<1>2. SubSeq(Products, 1, n) = Products /\ SubSeq(Products, n + 1, n) = <<>>
  BY <1>1
<1>3. ASSUME NEW r \in Rests, r # <<>>
      PROVE  /\ Tail(r) \in Rests /\ ToSet(Tail(r)) \subseteq ToSet(r)
             /\ Head(r) \in ToSet(r) /\ Head(r) \notin ToSet(Tail(r))
  <2>1. PICK i \in 1..(n + 1) : r = SubSeq(Products, i, n)
    BY DEF Rests
  <2>2. i \in 1..n
    BY <1>2, <1>3, <2>1
  <2>3. /\ r \in Seq(ToSet(Products)) /\ Len(r) = n - i + 1
        /\ \A j \in 1..(n - i + 1) : r[j] = Products[i + j - 1]
    BY <1>1, <2>1, <2>2
  <2>4. /\ Tail(r) = SubSeq(Products, i + 1, n) /\ Len(Tail(r)) = n - i
        /\ \A j \in 1..(n - i) : Tail(r)[j] = r[j + 1]
    <3>1. n \in i..n
      BY <1>1, <2>2
    <3>2. Tail(r) = SubSeq(Products, i + 1, n)
      BY <1>1, <2>1, <2>2, <3>1, HeadTailOfSubSeq
    <3>3. /\ Len(Tail(r)) = Len(r) - 1
          /\ \A j \in 1..Len(Tail(r)) : Tail(r)[j] = r[j + 1]
      BY <1>3, <2>3, HeadTailProperties
    <3> QED BY <1>1, <2>2, <2>3, <3>2, <3>3
  <2>5. Tail(r) \in Rests
    <3>1. i + 1 \in 1..(n + 1)
      BY <1>1, <2>2
    <3> QED BY <2>4, <3>1 DEF Rests
  <2>6. ToSet(Tail(r)) \subseteq ToSet(r)
    <3>1. \A j \in 1..(n - i) : j + 1 \in 1..(n - i + 1)
      BY <1>1, <2>2
    <3>2. Tail(r) \in Seq(ToSet(Products))
      BY <2>3, <1>3
    <3> QED BY <2>3, <2>4, <3>1, <3>2 DEF ToSet
  <2>7. Head(r) = r[1] /\ Head(r) \in ToSet(r)
    BY <1>1, <2>2, <2>3 DEF ToSet
  <2>8. ASSUME NEW j \in 1..(n - i), Tail(r)[j] = r[1] PROVE FALSE
    <3>1. Products[i + j] = Products[i] /\ i + j \in 1..n /\ i \in 1..n /\ i + j # i
      BY <1>1, <2>2, <2>3, <2>4, <2>8
    <3>2. DOMAIN Products = 1..n
      BY <1>1
    <3> QED BY <3>1, <3>2, InputsAssumption DEF IsInjective
  <2>9. Tail(r) \in Seq(ToSet(Products))
    BY <2>3, <1>3
  <2> QED BY <2>4, <2>5, <2>6, <2>7, <2>8, <2>9 DEF ToSet
<1> QED BY <1>1, <1>2, <1>3 DEF Rests
-----------------------------------------------------------------------------
(* The invariant.                                                           *)

\* The tables, with at most one open incident and one pending plan of a sku.
Tables ==
    /\ traffic \in [SKUs -> Shares]
    /\ windows \subseteq Scopes
    /\ metrics \in [Scopes -> SeenClasses]
    /\ streak \in [Scopes -> 0..Required]
    /\ auto \subseteq SKUs
    /\ incidents \in [SKUs -> 0..1]
    /\ plans \in [SKUs -> Waiting]
    /\ recs \subseteq SKUs \X {"monitor", "maintenance"}
    /\ cooldown \subseteq SKUs
    /\ mark \in [SKUs -> Mark \cup {None}]

Locals ==
    /\ pc \in {"idle", "collect", "assess", "gate", "decide", "record", "windows", "resolve",
              "history", "finish"}
    /\ todo \in Rests
    /\ scope \in ScopeInHand \cup {None}
    /\ left \subseteq Providers

Inductive == Tables /\ Locals /\ Snapshot /\ OfProduct /\ MarksBehind

LEMMA Consequences == Inductive => TypeOK /\ OneOpenIncident /\ OnePendingPlan
<1> SUFFICES ASSUME Tables, Locals PROVE TypeOK /\ OneOpenIncident /\ OnePendingPlan
  BY DEF Inductive
<1>1. incidents \in [SKUs -> Nat] /\ OneOpenIncident
  BY DEF Tables, OneOpenIncident
<1>2. plans \in [SKUs -> Seq(Plan)] /\ OnePendingPlan
  BY DEF Tables, OnePendingPlan, Waiting
<1> QED
  BY <1>1, <1>2 DEF TypeOK, Tables, Locals, Rests, ScopeInHand

\* Steps of the others leave what the cycle relies on.
LEMMA AgentKept ==
    ASSUME Inductive, UNCHANGED agentVars
    PROVE  Locals' /\ Snapshot' /\ OfProduct' /\ Undecided' = Undecided
<1>1. UNCHANGED <<pc, todo, ctx, scope, left>>
  BY DEF agentVars
<1>2. Locals'
  BY <1>1 DEF Inductive, Locals
<1>3. Snapshot'
  BY <1>1 DEF Inductive, Snapshot, HasSnapshot, View
<1>4. OfProduct'
  BY <1>1 DEF Inductive, OfProduct, InProduct, InScope, ToRoute, View, Maintained, SKU, Worst,
              Product
<1>5. Undecided' = Undecided
  BY <1>1 DEF Undecided
<1> QED BY <1>2, <1>3, <1>4, <1>5

\* Nothing is left of a cycle that ended.
LEMMA Rested ==
    ASSUME pc' = "idle", todo' = <<>>, scope' = None, left' = {}
    PROVE  Locals' /\ Snapshot' /\ OfProduct' /\ MarksBehind'
<1>1. Locals'
  BY RestsOfProducts DEF Locals
<1>2. Undecided' = {}
  BY DEF Undecided
<1> QED
  BY <1>1, <1>2 DEF Snapshot, HasSnapshot, OfProduct, InProduct, InScope, MarksBehind

\* The snapshot is never written again.
LEMMA SnapshotKept ==
    ASSUME Inductive, HasSnapshot, UNCHANGED ctx PROVE Snapshot'
<1> QED
  BY DEF Inductive, Snapshot, HasSnapshot, View

LEMMA MarksUntouched ==
    ASSUME NEW s, mark'[s] = mark[s], plans'[s] = plans[s]
    PROVE  Touched(s)' = Touched(s)
<1> QED
  BY DEF Touched

\* Marks stay behind the cycle when those that change are of products it has
\* decided on.
LEMMA MarksStayBehind ==
    ASSUME MarksBehind, Undecided' \subseteq Undecided,
           \A s \in SKUs : Touched(s)' => Touched(s) \/ ProductOf[s] \notin Undecided'
    PROVE  MarksBehind'
<1> QED
  BY DEF MarksBehind

\* The product in hand is none of those to come.
LEMMA OneAtATime ==
    ASSUME Inductive, InProduct
    PROVE  /\ todo \in Rests /\ todo # <<>>
           /\ Tail(todo) \in Rests /\ ToSet(Tail(todo)) \subseteq ToSet(todo)
           /\ Product \in ToSet(todo) /\ Product \notin ToSet(Tail(todo))
<1>1. todo \in Rests /\ todo # <<>>
  BY DEF Inductive, Locals, OfProduct
<1> QED
  BY <1>1, RestsOfProducts DEF Product

\* Leaving the scope in hand for the next product.
LEMMA Leaving ==
    ASSUME Inductive, InProduct, LeaveScope, UNCHANGED <<todo, ctx, left>>,
           \A s \in SKUs : Touched(s)' => Touched(s) \/ ProductOf[s] = Product
    PROVE  Locals' /\ Snapshot' /\ OfProduct' /\ MarksBehind'
<1>1. pc' = "resolve" /\ scope' = None
  BY DEF LeaveScope
<1>2. Locals'
  BY <1>1 DEF Inductive, Locals
<1>3. Snapshot'
  BY SnapshotKept DEF HasSnapshot, InProduct
<1>4. OfProduct'
  BY <1>1, OneAtATime DEF OfProduct, InProduct, InScope
<1>5. Undecided' \subseteq Undecided /\ Product \notin Undecided'
  <2>1. Undecided' = ToSet(Tail(todo))
    BY <1>1 DEF Undecided
  <2>2. Undecided = ToSet(todo) \/ Undecided = ToSet(Tail(todo))
    BY DEF Undecided, InProduct
  <2> QED BY <2>1, <2>2, OneAtATime
<1>6. MarksBehind'
  BY <1>5, MarksStayBehind DEF Inductive
<1> QED BY <1>2, <1>3, <1>4, <1>6

-----------------------------------------------------------------------------
(* Plans of the scope in hand.                                              *)

\* What a plan for the scope in hand is, and does to the providers the
\* snapshot saw breached or under maintenance.
LEMMA PlansMade ==
    ASSUME Inductive, pc = "decide", scope.action = "routing", NEW r \in Proposals
    PROVE  /\ r \in Shares /\ SumFunction(r) = Full
           /\ \A p \in Providers :
                /\ MetricsBreach(View(SKU)[p]) => r[p] = 0
                /\ p \in Maintained(SKU) /\ SumFunction(ctx.traffic[SKU]) = Full
                      => r[p] < ctx.traffic[SKU][p] + Point
<1> DEFINE pct == ctx.traffic[SKU]
           kept == Maintained(SKU)
           m == View(SKU)
           w == Worst
<1>1. SKU \in SKUs /\ w \in Providers /\ ToRoute
  BY DEF Inductive, OfProduct, InScope, ScopeInHand, SKU, Worst
<1>2. pct \in Shares /\ \A p \in Providers : pct[p] = 0 => m[p] = "none"
  BY <1>1 DEF Inductive, Snapshot, HasSnapshot
<1>3. pct \in [Providers -> Nat]
  <2>1. 0..Full \subseteq Nat
    BY DEF Full
  <2> QED BY <1>2, <2>1 DEF Shares
<1>4. Flagged(m[w]) /\ SKURoutingDecision(pct, kept, m) = "routing"
  BY <1>1 DEF ToRoute
<1>5. r \in BuildRoutingPlan(pct, kept, m, Rate, w) /\ Rate \in [Providers -> Nat]
  BY InputsAssumption DEF Proposals
<1> SUFFICES /\ r \in Shares /\ SumFunction(r) = Full
             /\ \A p \in Providers :
                  /\ MetricsBreach(m[p]) => r[p] = 0
                  /\ p \in kept /\ SumFunction(pct) = Full => r[p] < pct[p] + Point
  OBVIOUS
<1> HIDE DEF pct, kept, m, w
<1>6. Shifts(pct, kept, Cut(m, w))
  BY <1>1, <1>2, <1>3, <1>4, RoutingShifts
<1>7. /\ r \in [Providers -> 0..Full] /\ SumFunction(r) = Full
      /\ \A p \in Providers : p \in Cut(m, w) => r[p] = 0
  <2> DEFINE x == Exact(pct, kept, m, Rate, w)
  <2>1. /\ r \in [Providers -> 0..Full] /\ SumFunction(r) = Full
        /\ \A p \in Providers : /\ r[p] % Point = 0
                                /\ Near(r[p], x.num[p], x.den)
                                /\ p \in Cut(m, w) => r[p] = 0
    BY <1>5, <1>6, PlanShares
  <2> QED BY <2>1
<1>8. ASSUME NEW p \in Providers, MetricsBreach(m[p]) PROVE r[p] = 0
  <2>1. p \in Cut(m, w)
    BY <1>8 DEF Cut
  <2> QED BY <1>7, <2>1
<1>9. ASSUME NEW p \in Providers, p \in kept, SumFunction(pct) = Full
      PROVE  r[p] < pct[p] + Point
  BY <1>5, <1>6, <1>9, NoWindfall
<1> QED
  BY <1>7, <1>8, <1>9 DEF Shares

-----------------------------------------------------------------------------
(* The initial states and the steps, one lemma for each action.             *)

LEMMA InitInductive == Init => Inductive
<1> SUFFICES ASSUME Init PROVE Inductive
  OBVIOUS
<1>1. <<>> \in Waiting
  BY DEF Waiting
<1>2. Tables
  <2>1. traffic \in [SKUs -> Shares] /\ metrics \in [Scopes -> SeenClasses]
    BY InputsAssumption DEF Init
  <2>2. streak \in [Scopes -> 0..Required]
    BY OrderAssumption DEF Init
  <2>3. plans \in [SKUs -> Waiting]
    BY <1>1 DEF Init
  <2> QED BY <2>1, <2>2, <2>3 DEF Init, Tables
<1>3. Locals
  BY RestsOfProducts DEF Init, Locals
<1>4. Undecided = {} /\ Snapshot /\ OfProduct
  BY DEF Init, Undecided, Snapshot, HasSnapshot, OfProduct, InProduct, InScope
<1> QED
  BY <1>2, <1>3, <1>4 DEF Inductive, MarksBehind

LEMMA StartStep == Inductive /\ Start => Inductive'
<1> SUFFICES ASSUME Inductive, Start PROVE Inductive'
  OBVIOUS
<1>1. /\ pc' = "collect" /\ UNCHANGED <<todo, scope, left, ctx>>
      /\ UNCHANGED <<traffic, windows, metrics, streak, auto, incidents, recs, cooldown>>
      /\ mark' = [s \in SKUs |-> Aged(mark[s])] /\ plans' = [s \in SKUs |-> AgedPlans(plans[s])]
  BY DEF Start
<1>2. ASSUME NEW s \in SKUs
      PROVE  /\ mark'[s] \in Mark \cup {None} /\ plans'[s] \in Waiting /\ ~Touched(s)'
  <2>1. mark[s] \in Mark \cup {None} /\ plans[s] \in Waiting
    BY DEF Inductive, Tables
  <2>2. mark'[s] = Aged(mark[s]) /\ plans'[s] = AgedPlans(plans[s])
    BY <1>1
  <2> QED BY <2>1, <2>2, MarkTypes, MarksOfPlans DEF Touched
<1>3. mark' \in [SKUs -> Mark \cup {None}] /\ plans' \in [SKUs -> Waiting]
  BY <1>1, <1>2
<1>4. Tables'
  BY <1>1, <1>3 DEF Inductive, Tables
<1>5. Locals'
  BY <1>1 DEF Inductive, Locals
<1>6. Snapshot' /\ OfProduct'
  BY <1>1 DEF Snapshot, HasSnapshot, OfProduct, InProduct, InScope
<1> QED
  BY <1>2, <1>4, <1>5, <1>6 DEF Inductive, MarksBehind

LEMMA CollectStep == Inductive /\ Collect => Inductive'
<1> SUFFICES ASSUME Inductive, Collect PROVE Inductive'
  OBVIOUS
<1>1. /\ pc = "collect" /\ todo' = Products /\ UNCHANGED <<scope, left>>
      /\ pc' = IF Products = <<>> THEN "history" ELSE "assess"
      /\ ctx'.traffic = traffic /\ ctx'.seen = [s \in SKUs |-> Collected(s)]
  BY DEF Collect
<1>2. /\ UNCHANGED <<traffic, windows, metrics, streak, auto, incidents, plans, recs, cooldown>>
      /\ mark' = [s \in SKUs |-> IF RecoveryOver(s) THEN None ELSE mark[s]]
  BY DEF Collect
<1>3. Tables'
  <2>1. mark' \in [SKUs -> Mark \cup {None}]
    BY <1>2 DEF Inductive, Tables
  <2> QED BY <1>2, <2>1 DEF Inductive, Tables
<1>4. Locals'
  BY <1>1, RestsOfProducts DEF Inductive, Locals
<1>5. Snapshot'
  <2>1. \A s \in SKUs, p \in Providers : traffic[s][p] = 0 => ctx'.seen[s][p] = "none"
    BY <1>1 DEF Collected
  <2> QED BY <1>1, <2>1 DEF Inductive, Tables, Snapshot, View
<1>6. OfProduct'
  BY <1>1 DEF OfProduct, InProduct, InScope
<1>7. MarksBehind'
  <2>1. Undecided = ToSet(Products) /\ Undecided' \subseteq ToSet(Products)
    BY <1>1 DEF Undecided
  <2>2. ASSUME NEW s \in SKUs, Touched(s)' PROVE Touched(s)
    <3>1. mark'[s] = None \/ mark'[s] = mark[s]
      BY <1>2
    <3>2. plans'[s] = plans[s]
      BY <1>2
    <3> QED BY <2>2, <3>1, <3>2 DEF Touched, IsFresh
  <2> QED BY <2>1, <2>2, MarksStayBehind DEF Inductive
<1> QED
  BY <1>3, <1>4, <1>5, <1>6, <1>7 DEF Inductive

LEMMA NothingBreachedStep == Inductive /\ NothingBreached => Inductive'
<1> SUFFICES ASSUME Inductive, NothingBreached PROVE Inductive'
  OBVIOUS
<1>1. /\ pc = "assess" /\ pc' = "resolve" /\ UNCHANGED <<todo, ctx, scope, left>>
      /\ UNCHANGED <<traffic, windows, metrics, streak, auto, incidents, plans, recs,
                     cooldown, mark>>
  BY DEF NothingBreached
<1>2. Tables' /\ Locals'
  BY <1>1 DEF Inductive, Tables, Locals
<1>3. Snapshot'
  BY <1>1, SnapshotKept DEF HasSnapshot
<1>4. todo # <<>> /\ ToSet(Tail(todo)) \subseteq ToSet(todo)
  BY <1>1, OneAtATime DEF InProduct
<1>5. OfProduct'
  BY <1>1, <1>4 DEF OfProduct, InProduct, InScope
<1>6. MarksBehind'
  <2>1. Undecided' \subseteq Undecided
    BY <1>1, <1>4 DEF Undecided
  <2>2. \A s \in SKUs : Touched(s)' = Touched(s)
    BY <1>1, MarksUntouched
  <2> QED BY <2>1, <2>2, MarksStayBehind DEF Inductive
<1> QED
  BY <1>2, <1>3, <1>5, <1>6 DEF Inductive

\* The scope taken in hand: of the product in hand, flagged, and routed only
\* when the decision for its sku says so.
LEMMA AssessedScope ==
    ASSUME NEW x \in WorstScopes(Candidates(Product)), scope' = Assessed(x), UNCHANGED <<ctx, todo>>
    PROVE  /\ scope' \in ScopeInHand /\ ProductOf[SKU'] = Product'
           /\ scope'.action = "routing" => ToRoute'
<1>1. /\ x \in Scopes /\ x[1] \in SKUs /\ x[2] \in Providers
      /\ ProductOf[x[1]] = Product /\ Breached(x[1], x[2])
  BY DEF WorstScopes, Candidates, Scopes
<1>2. /\ scope'.sku = x[1] /\ scope'.worst = x[2] /\ scope'.action = EffectiveAction(x[1], x[2])
      /\ Product' = Product
  BY DEF Assessed, Product
<1>3. /\ EffectiveAction(x[1], x[2]) \in {"routing", "maintenance"}
      /\ EffectiveAction(x[1], x[2]) = "routing" =>
           SKURoutingDecision(ctx.traffic[x[1]], Maintained(x[1]), View(x[1])) = "routing"
  <2>1. EffectiveAction(x[1], x[2]) = "routing" =>
           SKURoutingDecision(ctx.traffic[x[1]], Maintained(x[1]), View(x[1])) # "maintenance"
    BY DEF EffectiveAction
  <2>2. SKURoutingDecision(ctx.traffic[x[1]], Maintained(x[1]), View(x[1]))
           \in {"routing", "maintenance"}
    BY DEF SKURoutingDecision
  <2> QED BY <2>1, <2>2 DEF EffectiveAction
<1>4. ForceMaintenance(x[1]) \in BOOLEAN /\ Acts(x[1], x[2]) \in BOOLEAN
  BY DEF ForceMaintenance, Acts
<1>5. scope' \in ScopeInHand
  BY <1>1, <1>3, <1>4 DEF Assessed, ScopeInHand
<1>6. scope'.action = "routing" => ToRoute'
  <2>1. SKU' = x[1] /\ Worst' = x[2]
    BY <1>2 DEF SKU, Worst
  <2>2. \A s : View(s)' = View(s) /\ Maintained(s)' = Maintained(s)
    BY DEF View, Maintained
  <2>3. Breached(x[1], x[2]) = Flagged(View(x[1])[x[2]])
    BY DEF Breached
  <2> QED BY <1>1, <1>2, <1>3, <2>1, <2>2, <2>3 DEF ToRoute
<1> QED
  BY <1>1, <1>2, <1>5, <1>6 DEF SKU

LEMMA AssessStep == Inductive /\ Assess => Inductive'
<1> SUFFICES ASSUME Inductive, Assess PROVE Inductive'
  OBVIOUS
<1>1. /\ pc = "assess" /\ pc' = "gate" /\ UNCHANGED <<todo, ctx, left>>
      /\ UNCHANGED <<traffic, windows, metrics, streak, auto, incidents, plans, recs,
                     cooldown, mark>>
  BY DEF Assess
<1>2. PICK x \in WorstScopes(Candidates(Product)) : scope' = Assessed(x)
  BY DEF Assess
<1>3. /\ scope' \in ScopeInHand /\ ProductOf[SKU'] = Product'
      /\ scope'.action = "routing" => ToRoute'
  BY <1>1, <1>2, AssessedScope
<1>4. Tables' /\ Locals'
  BY <1>1, <1>3 DEF Inductive, Tables, Locals
<1>5. Snapshot'
  BY <1>1, SnapshotKept DEF HasSnapshot
<1>6. OfProduct'
  <2>1. todo' # <<>>
    BY <1>1, OneAtATime DEF InProduct
  <2> QED BY <1>3, <2>1 DEF OfProduct
<1>7. MarksBehind'
  <2>1. Undecided' = Undecided
    BY <1>1 DEF Undecided
  <2>2. \A s \in SKUs : Touched(s)' = Touched(s)
    BY <1>1, MarksUntouched
  <2> QED BY <2>1, <2>2, MarksStayBehind DEF Inductive
<1> QED
  BY <1>4, <1>5, <1>6, <1>7 DEF Inductive

\* Going on with the scope in hand.
LEMMA ScopeKept ==
    ASSUME Inductive, InScope, InScope', UNCHANGED <<todo, ctx, scope>>
    PROVE  Snapshot' /\ OfProduct'
<1>1. Snapshot'
  BY SnapshotKept DEF InScope, HasSnapshot
<1>2. ToRoute' = ToRoute /\ Product' = Product /\ SKU' = SKU
  BY DEF ToRoute, View, Maintained, SKU, Worst, Product
<1>3. todo # <<>>
  BY OneAtATime DEF InProduct, InScope
<1> QED
  BY <1>1, <1>2, <1>3 DEF Inductive, OfProduct, InScope

LEMMA OpenIncidentStep == Inductive /\ OpenIncident => Inductive'
<1> SUFFICES ASSUME Inductive, OpenIncident PROVE Inductive'
  OBVIOUS
<1>1. /\ pc = "gate" /\ pc' = "decide" /\ UNCHANGED <<todo, ctx, scope, left>>
      /\ UNCHANGED <<traffic, windows, metrics, streak, auto, plans, recs, cooldown, mark>>
      /\ incidents' = [incidents EXCEPT ![SKU] = IncidentsAfterAct(@)]
  BY DEF OpenIncident
<1>2. incidents' \in [SKUs -> 0..1]
  <2>1. incidents \in [SKUs -> 0..1]
    BY DEF Inductive, Tables
  <2>2. \A s \in SKUs : IncidentsAfterAct(incidents[s]) \in 0..1
    BY <2>1, OpenIncidents
  <2> QED BY <1>1, <2>1, <2>2
<1>3. Tables' /\ Locals'
  BY <1>1, <1>2 DEF Inductive, Tables, Locals
<1>4. Snapshot' /\ OfProduct'
  BY <1>1, ScopeKept DEF InScope
<1>5. MarksBehind'
  <2>1. Undecided' = Undecided
    BY <1>1 DEF Undecided
  <2>2. \A s \in SKUs : Touched(s)' = Touched(s)
    BY <1>1, MarksUntouched
  <2> QED BY <2>1, <2>2, MarksStayBehind DEF Inductive
<1> QED
  BY <1>3, <1>4, <1>5 DEF Inductive

LEMMA MonitorStep == Inductive /\ Monitor => Inductive'
<1> SUFFICES ASSUME Inductive, Monitor PROVE Inductive'
  OBVIOUS
<1>1. /\ pc = "gate" /\ LeaveScope /\ UNCHANGED <<todo, ctx, left>>
      /\ UNCHANGED <<traffic, windows, metrics, streak, auto, incidents, plans, cooldown, mark>>
      /\ recs' = recs \cup {<<SKU, "monitor">>}
  BY DEF Monitor
<1>2. SKU \in SKUs
  BY <1>1 DEF Inductive, OfProduct, InScope, ScopeInHand, SKU
<1>3. Tables'
  BY <1>1, <1>2 DEF Inductive, Tables
<1>4. Locals' /\ Snapshot' /\ OfProduct' /\ MarksBehind'
  <2>1. \A s \in SKUs : Touched(s)' = Touched(s)
    BY <1>1, MarksUntouched
  <2> QED BY <1>1, <2>1, Leaving DEF InProduct
<1> QED
  BY <1>3, <1>4 DEF Inductive

LEMMA HoldRoutingStep == Inductive /\ HoldRouting => Inductive'
<1> SUFFICES ASSUME Inductive, HoldRouting PROVE Inductive'
  OBVIOUS
<1>1. /\ pc = "decide" /\ LeaveScope /\ UNCHANGED <<todo, ctx, left>>
      /\ UNCHANGED <<traffic, windows, metrics, streak, auto, incidents, recs, cooldown, mark>>
      /\ plans' = plans \/ plans' = [plans EXCEPT ![SKU] = CancelPending(@)]
  BY DEF HoldRouting
<1>2. plans' = plans
  BY <1>1, NothingCancelled DEF Inductive, Tables
<1>3. Tables'
  BY <1>1, <1>2 DEF Inductive, Tables
<1>4. Locals' /\ Snapshot' /\ OfProduct' /\ MarksBehind'
  <2>1. \A s \in SKUs : Touched(s)' = Touched(s)
    BY <1>1, <1>2, MarksUntouched
  <2> QED BY <1>1, <2>1, Leaving DEF InProduct
<1> QED
  BY <1>3, <1>4 DEF Inductive

LEMMA ProposeRoutingStep == Inductive /\ ProposeRouting => Inductive'
<1> SUFFICES ASSUME Inductive, ProposeRouting PROVE Inductive'
  OBVIOUS
<1>1. /\ pc = "decide" /\ scope.action = "routing" /\ LeaveScope /\ UNCHANGED <<todo, ctx, left>>
      /\ UNCHANGED <<traffic, windows, metrics, streak, auto, incidents, recs, cooldown, mark>>
  BY DEF ProposeRouting
<1>2. PICK r \in Proposals :
         plans' = [plans EXCEPT ![SKU] =
             WithProposal(@, [pct |-> r, mark |-> ThisCycle],
                          RoutingMatchesProposed(ctx.traffic[SKU], r) \/ SKU \in cooldown)]
  BY DEF ProposeRouting
<1> DEFINE plan == [pct |-> r, mark |-> ThisCycle]
           needless == RoutingMatchesProposed(ctx.traffic[SKU], r) \/ SKU \in cooldown
<1>3. SKU \in SKUs /\ ProductOf[SKU] = Product
  BY <1>1 DEF Inductive, OfProduct, InScope, ScopeInHand, SKU
<1>4. plan \in Plan
  <2>1. r \in Shares
    BY <1>1, PlansMade
  <2>2. ThisCycle \in Mark
    BY DEF ThisCycle, Mark
  <2> QED BY <2>1, <2>2 DEF Plan
<1> HIDE DEF plan, needless
<1>5. /\ plans' = [plans EXCEPT ![SKU] = WithProposal(plans[SKU], plan, needless)]
      /\ plans \in [SKUs -> Waiting]
  BY <1>2 DEF plan, needless, Inductive, Tables
<1>6. plans' \in [SKUs -> Waiting]
  <2>1. WithProposal(plans[SKU], plan, needless) \in Waiting
    BY <1>3, <1>4, <1>5, Proposing
  <2> QED BY <1>5, <2>1
<1>7. Tables'
  BY <1>1, <1>6 DEF Inductive, Tables
<1>8. Locals' /\ Snapshot' /\ OfProduct' /\ MarksBehind'
  <2>1. ASSUME NEW s \in SKUs, Touched(s)' PROVE Touched(s) \/ ProductOf[s] = Product
    <3>1. CASE s = SKU
      BY <1>3, <3>1
    <3>2. CASE s # SKU
      <4>1. plans'[s] = plans[s]
        BY <1>5, <3>2
      <4> QED BY <1>1, <2>1, <4>1, MarksUntouched
    <3> QED BY <3>1, <3>2
  <2> QED BY <1>1, <2>1, Leaving DEF InProduct
<1> QED
  BY <1>7, <1>8 DEF Inductive

LEMMA ApplyRoutingStep == Inductive /\ ApplyRouting => Inductive'
<1> SUFFICES ASSUME Inductive, ApplyRouting PROVE Inductive'
  OBVIOUS
<1>1. /\ pc = "decide" /\ pc' = "record" /\ scope.action = "routing"
      /\ UNCHANGED <<windows, metrics, streak, auto, recs, cooldown, todo, ctx, scope, left>>
      /\ plans' = [plans EXCEPT ![SKU] = CancelPending(@)]
      /\ mark' = [mark EXCEPT ![SKU] = ThisCycle]
      /\ incidents' = [incidents EXCEPT ![SKU] = Resolved(@, "auto")]
  BY DEF ApplyRouting
<1>2. PICK r \in Proposals : traffic' = [traffic EXCEPT ![SKU] = r]
  BY DEF ApplyRouting
<1>3. SKU \in SKUs /\ ProductOf[SKU] = Product
  BY <1>1 DEF Inductive, OfProduct, InScope, ScopeInHand, SKU
<1>4. plans' = plans
  BY <1>1, NothingCancelled DEF Inductive, Tables
<1>5. r \in Shares
  BY <1>1, PlansMade
<1>6. traffic' \in [SKUs -> Shares] /\ mark' \in [SKUs -> Mark \cup {None}]
  <2>1. ThisCycle \in Mark
    BY DEF ThisCycle, Mark
  <2> QED BY <1>1, <1>2, <1>5, <2>1 DEF Inductive, Tables
<1>7. incidents' \in [SKUs -> 0..1]
  <2>1. incidents \in [SKUs -> 0..1]
    BY DEF Inductive, Tables
  <2>2. \A s \in SKUs : Resolved(incidents[s], "auto") \in 0..1
    BY <2>1, OpenIncidents
  <2> QED BY <1>1, <2>1, <2>2
<1>8. Tables' /\ Locals'
  BY <1>1, <1>4, <1>6, <1>7 DEF Inductive, Tables, Locals
<1>9. Snapshot' /\ OfProduct'
  BY <1>1, ScopeKept DEF InScope
<1>10. MarksBehind'
  <2>1. Undecided = ToSet(todo) /\ Undecided' = ToSet(Tail(todo))
    BY <1>1 DEF Undecided
  <2>2. ToSet(Tail(todo)) \subseteq ToSet(todo) /\ Product \notin ToSet(Tail(todo))
    BY <1>1, OneAtATime DEF InProduct
  <2>3. ASSUME NEW s \in SKUs, Touched(s)' PROVE Touched(s) \/ ProductOf[s] \notin Undecided'
    <3>1. CASE s = SKU
      BY <1>3, <2>1, <2>2, <3>1
    <3>2. CASE s # SKU
      <4>1. mark'[s] = mark[s]
        BY <1>1, <3>2 DEF Inductive, Tables
      <4> QED BY <1>4, <2>3, <4>1, MarksUntouched
    <3> QED BY <3>1, <3>2
  <2> QED BY <2>1, <2>2, <2>3, MarksStayBehind DEF Inductive
<1> QED
  BY <1>8, <1>9, <1>10 DEF Inductive

LEMMA RecordPlanStep == Inductive /\ RecordPlan => Inductive'
<1> SUFFICES ASSUME Inductive, RecordPlan PROVE Inductive'
  OBVIOUS
<1>1. /\ pc = "record" /\ LeaveScope /\ UNCHANGED <<todo, ctx, left>>
      /\ UNCHANGED <<traffic, windows, metrics, streak, auto, incidents, plans, recs, mark>>
      /\ cooldown' = cooldown \cup {SKU}
  BY DEF RecordPlan
<1>2. SKU \in SKUs
  BY <1>1 DEF Inductive, OfProduct, InScope, ScopeInHand, SKU
<1>3. Tables'
  BY <1>1, <1>2 DEF Inductive, Tables
<1>4. Locals' /\ Snapshot' /\ OfProduct' /\ MarksBehind'
  <2>1. \A s \in SKUs : Touched(s)' = Touched(s)
    BY <1>1, MarksUntouched
  <2> QED BY <1>1, <2>1, Leaving DEF InProduct
<1> QED
  BY <1>3, <1>4 DEF Inductive

LEMMA DecideMaintenanceStep == Inductive /\ DecideMaintenance => Inductive'
<1> SUFFICES ASSUME Inductive, DecideMaintenance PROVE Inductive'
  OBVIOUS
<1>1. /\ pc = "decide" /\ UNCHANGED <<todo, ctx>>
      /\ UNCHANGED <<traffic, windows, metrics, streak, auto, incidents, cooldown, mark>>
      /\ plans' = plans \/ plans' = [plans EXCEPT ![SKU] = CancelPending(@)]
      /\ recs' = recs \/ recs' = recs \cup {<<SKU, "maintenance">>}
      /\ \/ LeaveScope /\ left' = left
         \/ left' = MaintenanceTargets /\ pc' = "windows" /\ scope' = scope
  BY DEF DecideMaintenance
<1>2. scope \in ScopeInHand /\ SKU \in SKUs /\ Worst \in Providers
  BY <1>1 DEF Inductive, OfProduct, InScope, ScopeInHand, SKU, Worst
<1>3. plans' = plans
  BY <1>1, NothingCancelled DEF Inductive, Tables
<1>4. Tables'
  BY <1>1, <1>2, <1>3 DEF Inductive, Tables
<1>5. \A s \in SKUs : Touched(s)' = Touched(s)
  BY <1>1, <1>3, MarksUntouched
<1>6. CASE LeaveScope /\ left' = left
  BY <1>1, <1>4, <1>5, <1>6, Leaving DEF InProduct, Inductive
<1>7. CASE left' = MaintenanceTargets /\ pc' = "windows" /\ scope' = scope
  <2>1. MaintenanceTargets \subseteq Providers
    BY <1>2 DEF MaintenanceTargets
  <2>2. Locals'
    BY <1>1, <1>7, <2>1 DEF Inductive, Locals
  <2>3. Snapshot' /\ OfProduct'
    BY <1>1, <1>7, ScopeKept DEF InScope
  <2>4. Undecided' \subseteq Undecided
    BY <1>1, <1>7, OneAtATime DEF Undecided, InProduct
  <2>5. MarksBehind'
    BY <1>5, <2>4, MarksStayBehind DEF Inductive
  <2> QED BY <1>4, <2>2, <2>3, <2>5 DEF Inductive
<1> QED
  BY <1>1, <1>6, <1>7

LEMMA OpenWindowStep == Inductive /\ OpenWindow => Inductive'
<1> SUFFICES ASSUME Inductive, OpenWindow PROVE Inductive'
  OBVIOUS
<1>1. /\ pc = "windows" /\ UNCHANGED <<pc, todo, ctx, scope>>
      /\ UNCHANGED <<traffic, metrics, streak, auto, incidents, plans, recs, cooldown, mark>>
  BY DEF OpenWindow
<1>2. PICK p \in left : windows' = windows \cup {<<SKU, p>>} /\ left' = left \ {p}
  BY DEF OpenWindow
<1>3. SKU \in SKUs /\ p \in Providers
  BY <1>1 DEF Inductive, Locals, OfProduct, InScope, ScopeInHand, SKU
<1>4. Tables' /\ Locals'
  BY <1>1, <1>2, <1>3 DEF Inductive, Tables, Locals, Scopes
<1>5. Snapshot' /\ OfProduct'
  BY <1>1, ScopeKept DEF InScope
<1>6. MarksBehind'
  <2>1. Undecided' = Undecided
    BY <1>1 DEF Undecided
  <2>2. \A s \in SKUs : Touched(s)' = Touched(s)
    BY <1>1, MarksUntouched
  <2> QED BY <2>1, <2>2, MarksStayBehind DEF Inductive
<1> QED
  BY <1>4, <1>5, <1>6 DEF Inductive

LEMMA WindowsOpenedStep == Inductive /\ WindowsOpened => Inductive'
<1> SUFFICES ASSUME Inductive, WindowsOpened PROVE Inductive'
  OBVIOUS
<1>1. /\ pc = "windows" /\ LeaveScope /\ UNCHANGED <<todo, ctx, left>>
      /\ UNCHANGED <<traffic, windows, metrics, streak, auto, incidents, plans, recs,
                     cooldown, mark>>
  BY DEF WindowsOpened
<1>2. Tables'
  BY <1>1 DEF Inductive, Tables
<1>3. Locals' /\ Snapshot' /\ OfProduct' /\ MarksBehind'
  <2>1. \A s \in SKUs : Touched(s)' = Touched(s)
    BY <1>1, MarksUntouched
  <2> QED BY <1>1, <2>1, Leaving DEF InProduct
<1> QED
  BY <1>2, <1>3 DEF Inductive

LEMMA OverlapStep == Inductive /\ Overlap => Inductive'
<1> SUFFICES ASSUME Inductive, Overlap PROVE Inductive'
  OBVIOUS
<1>1. /\ pc' = "idle" /\ todo' = <<>> /\ scope' = None /\ left' = {}
      /\ UNCHANGED <<traffic, windows, metrics, streak, auto, incidents, plans, recs,
                     cooldown, mark>>
  BY DEF Overlap, Aborted
<1>2. Tables'
  BY <1>1 DEF Inductive, Tables
<1> QED
  BY <1>1, <1>2, Rested DEF Inductive

LEMMA AutoResolveStep == Inductive /\ AutoResolve => Inductive'
<1> SUFFICES ASSUME Inductive, AutoResolve PROVE Inductive'
  OBVIOUS
<1> DEFINE done == Recovered(Product)
<1>1. /\ pc = "resolve" /\ todo' = Tail(todo)
      /\ pc' = IF Tail(todo) = <<>> THEN "history" ELSE "assess"
      /\ UNCHANGED <<traffic, windows, metrics, streak, auto, cooldown, mark, ctx, scope, left>>
      /\ incidents' = [s \in SKUs |-> IF s \in done THEN Resolved(incidents[s], "healthy")
                                     ELSE incidents[s]]
      /\ recs' \subseteq recs
      /\ plans' = [s \in SKUs |-> IF s \in done THEN CancelPending(plans[s]) ELSE plans[s]]
  BY DEF AutoResolve
<1> HIDE DEF done
<1>2. plans' = plans
  BY <1>1, NothingCancelled DEF Inductive, Tables
<1>3. incidents' \in [SKUs -> 0..1]
  <2>1. \A s \in SKUs : incidents[s] \in 0..1
    BY DEF Inductive, Tables
  <2>2. \A s \in SKUs : Resolved(incidents[s], "healthy") \in 0..1
    BY <2>1, OpenIncidents
  <2> QED BY <1>1, <2>1, <2>2
<1>4. Tables'
  BY <1>1, <1>2, <1>3 DEF Inductive, Tables
<1>5. Tail(todo) \in Rests
  BY <1>1, OneAtATime DEF InProduct
<1>6. Locals'
  BY <1>1, <1>5 DEF Inductive, Locals
<1>7. Snapshot'
  BY <1>1, SnapshotKept DEF HasSnapshot
<1>8. OfProduct'
  BY <1>1 DEF OfProduct, InProduct, InScope
<1>9. MarksBehind'
  <2>1. Undecided' \subseteq Undecided
    BY <1>1 DEF Undecided
  <2>2. \A s \in SKUs : Touched(s)' = Touched(s)
    BY <1>1, <1>2, MarksUntouched
  <2> QED BY <2>1, <2>2, MarksStayBehind DEF Inductive
<1> QED
  BY <1>4, <1>6, <1>7, <1>8, <1>9 DEF Inductive

\* Runs of breaches are counted up to what is required.
LEMMA StreakType ==
    ASSUME Inductive, NEW rows
    PROVE  StreakAfter(rows) \in [Scopes -> 0..Required]
<1>1. streak \in [Scopes -> 0..Required] /\ Required \in Nat
  BY OrderAssumption DEF Inductive, Tables
<1>2. \A c : \A n \in 0..Required : NextStreak(n, c) \in 0..Required
  BY <1>1 DEF NextStreak
<1> QED
  BY <1>1, <1>2 DEF StreakAfter

LEMMA WriteHistoryStep == Inductive /\ WriteHistory => Inductive'
<1> SUFFICES ASSUME Inductive, WriteHistory PROVE Inductive'
  OBVIOUS
<1>1. /\ pc = "history" /\ pc' = "finish" /\ UNCHANGED <<todo, ctx, scope, left>>
      /\ UNCHANGED <<traffic, windows, metrics, auto, incidents, plans, recs, cooldown, mark>>
      /\ streak' = StreakAfter(Scopes)
  BY DEF WriteHistory
<1>2. Tables' /\ Locals'
  BY <1>1, StreakType DEF Inductive, Tables, Locals
<1>3. Snapshot'
  BY <1>1, SnapshotKept DEF HasSnapshot
<1>4. OfProduct' /\ Undecided' = {}
  BY <1>1 DEF OfProduct, InProduct, InScope, Undecided
<1> QED
  BY <1>2, <1>3, <1>4 DEF Inductive, MarksBehind

LEMMA FinishStep == Inductive /\ Finish => Inductive'
<1> SUFFICES ASSUME Inductive, Finish PROVE Inductive'
  OBVIOUS
<1>1. /\ pc' = "idle" /\ todo' = <<>> /\ scope' = None /\ left' = {}
      /\ UNCHANGED <<traffic, windows, metrics, streak, auto, incidents, recs, cooldown>>
      /\ mark' = [s \in SKUs |-> OneMore(mark[s])]
      /\ plans' = [s \in SKUs |-> [i \in DOMAIN plans[s] |->
                                     [plans[s][i] EXCEPT !.mark = OneMore(@)]]]
  BY DEF Finish
<1>2. mark' \in [SKUs -> Mark \cup {None}]
  <2>1. \A s \in SKUs : OneMore(mark[s]) \in Mark \cup {None}
    BY MarkTypes DEF Inductive, Tables
  <2> QED BY <1>1, <2>1
<1>3. plans' \in [SKUs -> Waiting]
  <2>1. \A s \in SKUs : [i \in DOMAIN plans[s] |-> [plans[s][i] EXCEPT !.mark = OneMore(@)]]
                           \in Waiting
    BY MarksOfPlans DEF Inductive, Tables
  <2> QED BY <1>1, <2>1
<1>4. Tables'
  BY <1>1, <1>2, <1>3 DEF Inductive, Tables
<1> QED
  BY <1>1, <1>4, Rested DEF Inductive

LEMMA FaultStep == Inductive /\ Fault => Inductive'
<1> SUFFICES ASSUME Inductive, Fault PROVE Inductive'
  OBVIOUS
<1>1. /\ pc' = "idle" /\ todo' = <<>> /\ scope' = None /\ left' = {}
      /\ UNCHANGED <<traffic, windows, metrics, auto, incidents, plans, recs, cooldown, mark>>
      /\ streak' = streak \/ \E rows : streak' = StreakAfter(rows)
  BY DEF Fault, Aborted
<1>2. streak' \in [Scopes -> 0..Required]
  BY <1>1, StreakType DEF Inductive, Tables
<1>3. Tables'
  BY <1>1, <1>2 DEF Inductive, Tables
<1> QED
  BY <1>1, <1>3, Rested DEF Inductive

\* Steps of the others that neither propose nor change a mark.
LEMMA OthersKeep ==
    ASSUME Inductive, UNCHANGED agentVars, Tables',
           \A s \in SKUs : Touched(s)' => Touched(s)
    PROVE  Inductive'
<1>1. Locals' /\ Snapshot' /\ OfProduct' /\ Undecided' = Undecided
  BY AgentKept
<1>2. MarksBehind'
  BY <1>1, MarksStayBehind DEF Inductive
<1> QED
  BY <1>1, <1>2 DEF Inductive

LEMMA MetricsChangeStep == Inductive /\ MetricsChange => Inductive'
<1> SUFFICES ASSUME Inductive, MetricsChange PROVE Inductive'
  OBVIOUS
<1>1. /\ UNCHANGED agentVars
      /\ UNCHANGED <<traffic, windows, streak, auto, incidents, plans, recs, cooldown, mark>>
  BY DEF MetricsChange, Moved
<1>2. PICK x \in Scopes, c \in SeenClasses : metrics' = [metrics EXCEPT ![x] = c]
  BY DEF MetricsChange
<1>3. Tables'
  BY <1>1, <1>2 DEF Inductive, Tables
<1>4. \A s \in SKUs : Touched(s)' = Touched(s)
  BY <1>1, MarksUntouched
<1> QED
  BY <1>1, <1>3, <1>4, OthersKeep

\* Taking the pending plan off the table.
LEMMA PlanTaken ==
    ASSUME Tables, NEW s \in SKUs, NEW i \in DOMAIN plans[s],
           plans' = [plans EXCEPT ![s] = RemoveAt(@, i)]
    PROVE  /\ plans' \in [SKUs -> Waiting] /\ plans'[s] = <<>> /\ plans[s][i] \in Plan
           /\ \A t \in SKUs : t # s => plans'[t] = plans[t]
<1>1. plans \in [SKUs -> Waiting] /\ plans[s] \in Waiting
  BY DEF Tables
<1>2. /\ RemoveAt(plans[s], i) = <<>> /\ RemoveAt(plans[s], i) \in Waiting
      /\ plans[s][i] \in Plan
  BY <1>1, Removing
<1>3. plans' = [plans EXCEPT ![s] = RemoveAt(plans[s], i)]
  OBVIOUS
<1> QED
  BY <1>1, <1>2, <1>3

LEMMA ApprovePlanStep == Inductive /\ ApprovePlan => Inductive'
<1> SUFFICES ASSUME Inductive, ApprovePlan PROVE Inductive'
  OBVIOUS
<1>1. UNCHANGED agentVars /\ UNCHANGED <<windows, metrics, streak, auto, recs>>
  BY DEF ApprovePlan, Moved
<1>0. PICK s \in SKUs : \E i \in DOMAIN plans[s] :
         /\ traffic' = [traffic EXCEPT ![s] = plans[s][i].pct]
         /\ mark' = [mark EXCEPT ![s] = plans[s][i].mark]
         /\ incidents' = [incidents EXCEPT ![s] = Resolved(@, "admin_approve")]
         /\ plans' = [plans EXCEPT ![s] = RemoveAt(@, i)]
         /\ cooldown' = cooldown \cup {s}
  BY DEF ApprovePlan
<1>2. PICK i \in DOMAIN plans[s] :
         /\ traffic' = [traffic EXCEPT ![s] = plans[s][i].pct]
         /\ mark' = [mark EXCEPT ![s] = plans[s][i].mark]
         /\ incidents' = [incidents EXCEPT ![s] = Resolved(@, "admin_approve")]
         /\ plans' = [plans EXCEPT ![s] = RemoveAt(@, i)]
         /\ cooldown' = cooldown \cup {s}
  BY <1>0
<1>3. /\ plans' \in [SKUs -> Waiting] /\ plans'[s] = <<>> /\ plans[s][i] \in Plan
      /\ \A t \in SKUs : t # s => plans'[t] = plans[t]
  BY <1>2, PlanTaken DEF Inductive
<1>4. plans[s][i].pct \in Shares /\ plans[s][i].mark \in Mark
  BY <1>3 DEF Plan
<1>5. traffic' \in [SKUs -> Shares] /\ mark' \in [SKUs -> Mark \cup {None}]
  BY <1>2, <1>4 DEF Inductive, Tables
<1>6. incidents' \in [SKUs -> 0..1]
  <2>1. incidents \in [SKUs -> 0..1]
    BY DEF Inductive, Tables
  <2>2. \A t \in SKUs : Resolved(incidents[t], "admin_approve") \in 0..1
    BY <2>1, OpenIncidents
  <2> QED BY <1>2, <2>1, <2>2
<1>7. Tables'
  BY <1>1, <1>2, <1>3, <1>5, <1>6 DEF Inductive, Tables
<1>8. ASSUME NEW t \in SKUs, Touched(t)' PROVE Touched(t)
  <2>1. CASE t = s
    <3>1. mark'[t] = plans[t][i].mark /\ i \in DOMAIN plans[t] /\ DOMAIN plans'[t] = {}
      <4>1. DOMAIN <<>> = {}
        OBVIOUS
      <4> QED BY <1>2, <1>3, <2>1, <4>1 DEF Inductive, Tables
    <3> QED BY <1>8, <3>1 DEF Touched
  <2>2. CASE t # s
    <3>1. mark'[t] = mark[t] /\ plans'[t] = plans[t]
      BY <1>2, <1>3, <2>2 DEF Inductive, Tables
    <3> QED BY <1>8, <3>1, MarksUntouched
  <2> QED BY <2>1, <2>2
<1> QED
  BY <1>1, <1>7, <1>8, OthersKeep

LEMMA RejectPlanStep == Inductive /\ RejectPlan => Inductive'
<1> SUFFICES ASSUME Inductive, RejectPlan PROVE Inductive'
  OBVIOUS
<1>1. /\ UNCHANGED agentVars
      /\ UNCHANGED <<traffic, windows, metrics, streak, auto, recs, cooldown, mark>>
  BY DEF RejectPlan, Moved
<1>0. PICK s \in SKUs : \E i \in DOMAIN plans[s] :
         /\ incidents' = [incidents EXCEPT ![s] = Resolved(@, "admin_reject")]
         /\ plans' = [plans EXCEPT ![s] = RemoveAt(@, i)]
  BY DEF RejectPlan
<1>2. PICK i \in DOMAIN plans[s] :
         /\ incidents' = [incidents EXCEPT ![s] = Resolved(@, "admin_reject")]
         /\ plans' = [plans EXCEPT ![s] = RemoveAt(@, i)]
  BY <1>0
<1>3. /\ plans' \in [SKUs -> Waiting] /\ plans'[s] = <<>>
      /\ \A t \in SKUs : t # s => plans'[t] = plans[t]
  BY <1>2, PlanTaken DEF Inductive
<1>4. incidents' \in [SKUs -> 0..1]
  <2>1. incidents \in [SKUs -> 0..1]
    BY DEF Inductive, Tables
  <2>2. \A t \in SKUs : Resolved(incidents[t], "admin_reject") \in 0..1
    BY <2>1, OpenIncidents
  <2> QED BY <1>2, <2>1, <2>2
<1>5. Tables'
  BY <1>1, <1>3, <1>4 DEF Inductive, Tables
<1>6. ASSUME NEW t \in SKUs, Touched(t)' PROVE Touched(t)
  <2>1. CASE t = s
    <3>1. DOMAIN <<>> = {}
      OBVIOUS
    <3> QED BY <1>1, <1>3, <1>6, <2>1, <3>1 DEF Touched
  <2>2. CASE t # s
    BY <1>1, <1>3, <1>6, <2>2, MarksUntouched
  <2> QED BY <2>1, <2>2
<1> QED
  BY <1>1, <1>5, <1>6, OthersKeep

LEMMA ReopenStep == Inductive /\ Reopen => Inductive'
<1> SUFFICES ASSUME Inductive, Reopen PROVE Inductive'
  OBVIOUS
<1>1. UNCHANGED agentVars /\ UNCHANGED <<metrics, streak, auto, incidents, recs, cooldown>>
  BY DEF Reopen, Moved
<1>2. PICK s \in SKUs, t \in AdminShares :
         /\ windows' = {x \in windows : x[1] # s}
         /\ traffic' = [traffic EXCEPT ![s] = t]
         /\ mark' = [mark EXCEPT ![s] = LastCycle]
         /\ plans' = [plans EXCEPT ![s] = CancelPending(@)]
  BY DEF Reopen
<1>3. plans' = plans
  BY <1>2, NothingCancelled DEF Inductive, Tables
<1>4. t \in Shares /\ LastCycle \in Mark /\ ~IsFresh(LastCycle)
  BY InputsAssumption DEF LastCycle, Mark, IsFresh
<1>5. Tables'
  BY <1>1, <1>2, <1>3, <1>4 DEF Inductive, Tables
<1>6. ASSUME NEW u \in SKUs, Touched(u)' PROVE Touched(u)
  <2>1. mark'[u] = LastCycle \/ mark'[u] = mark[u]
    BY <1>2 DEF Inductive, Tables
  <2> QED BY <1>3, <1>4, <1>6, <2>1 DEF Touched
<1> QED
  BY <1>1, <1>5, <1>6, OthersKeep

\* Windows come and go, recommendations and cooldowns end.
LEMMA MaintainStep == Inductive /\ (Maintain \/ WindowEnds) => Inductive'
<1> SUFFICES ASSUME Inductive, Maintain \/ WindowEnds PROVE Inductive'
  OBVIOUS
<1>1. /\ UNCHANGED agentVars
      /\ UNCHANGED <<traffic, metrics, streak, auto, incidents, plans, recs, cooldown, mark>>
      /\ windows' \subseteq windows \cup Scopes
  BY DEF Maintain, WindowEnds, Moved
<1>2. Tables'
  BY <1>1 DEF Inductive, Tables
<1>3. \A s \in SKUs : Touched(s)' = Touched(s)
  BY <1>1, MarksUntouched
<1> QED
  BY <1>1, <1>2, <1>3, OthersKeep

LEMMA TimePassesStep == Inductive /\ TimePasses => Inductive'
<1> SUFFICES ASSUME Inductive, TimePasses PROVE Inductive'
  OBVIOUS
<1>1. /\ UNCHANGED agentVars
      /\ UNCHANGED <<traffic, windows, metrics, streak, auto, incidents, plans, mark>>
      /\ recs' \subseteq recs /\ cooldown' \subseteq cooldown
  BY DEF TimePasses
<1>2. Tables'
  BY <1>1 DEF Inductive, Tables
<1>3. \A s \in SKUs : Touched(s)' = Touched(s)
  BY <1>1, MarksUntouched
<1> QED
  BY <1>1, <1>2, <1>3, OthersKeep

LEMMA StepInductive == Inductive /\ [Next]_vars => Inductive'
<1> SUFFICES ASSUME Inductive, [Next]_vars PROVE Inductive'
  OBVIOUS
<1>1. CASE Agent
  BY <1>1, StartStep, CollectStep, NothingBreachedStep, AssessStep, OpenIncidentStep,
     MonitorStep, HoldRoutingStep, ProposeRoutingStep, ApplyRoutingStep, RecordPlanStep,
     DecideMaintenanceStep, OpenWindowStep, WindowsOpenedStep, OverlapStep, AutoResolveStep,
     WriteHistoryStep, FinishStep DEF Agent
<1>2. CASE Fault
  BY <1>2, FaultStep
<1>3. CASE Others
  BY <1>3, MetricsChangeStep, ApprovePlanStep, RejectPlanStep, ReopenStep, MaintainStep,
     TimePassesStep DEF Others
<1>4. CASE UNCHANGED vars
  <2>1. /\ UNCHANGED agentVars
        /\ UNCHANGED <<traffic, windows, metrics, streak, auto, incidents, plans, recs,
                       cooldown, mark>>
    BY <1>4 DEF vars
  <2>2. Tables'
    BY <2>1 DEF Inductive, Tables
  <2>3. \A s \in SKUs : Touched(s)' = Touched(s)
    BY <2>1, MarksUntouched
  <2> QED BY <2>1, <2>2, <2>3, OthersKeep
<1> QED
  BY <1>1, <1>2, <1>3, <1>4 DEF Next

-----------------------------------------------------------------------------
\* Every reachable state has the invariant.
THEOREM Invariance == Spec => []Inductive
<1> QED
  BY InitInductive, StepInductive, PTL DEF Spec

\* Tables and locals of the agent stay well typed, whatever operators and
\* faults do: percentages in range, breach runs up to what is required
\* (emitOutputs, CountConsecutiveBreaches).
THEOREM TypeCorrect == Spec => []TypeOK
<1> QED
  BY Invariance, Consequences, PTL

\* No sku ever has two open incidents: a cycle looks for an open one before it
\* inserts (FindOpenIncidentForScope).
THEOREM IncidentsAreReused == Spec => []OneOpenIncident
<1> QED
  BY Invariance, Consequences, PTL

\* No sku ever has two plans waiting: a cycle refreshes the one it finds
\* (UpdatePendingRoutingPlanForScope).
THEOREM ProposalsAreReused == Spec => []OnePendingPlan
<1> QED
  BY Invariance, Consequences, PTL

\* The grace of reasoning.go:142 is never in force when a cycle decides: a mark
\* with the id of this cycle belongs to a product it is through with.
THEOREM NoGrace == Spec => []GraceNeverHolds
<1>1. Inductive => GraceNeverHolds
  <2> SUFFICES ASSUME Inductive, pc = "decide", InGrace PROVE FALSE
    BY DEF GraceNeverHolds
  <2>1. SKU \in SKUs /\ ProductOf[SKU] = Product
    BY DEF Inductive, OfProduct, InScope, ScopeInHand, SKU
  <2>2. Touched(SKU)
    BY DEF InGrace, Touched, IsFresh
  <2>3. Product \in ToSet(todo) /\ Undecided = ToSet(todo)
    BY OneAtATime DEF InProduct, Undecided
  <2> QED BY <2>1, <2>2, <2>3 DEF Inductive, MarksBehind
<1> QED
  BY <1>1, Invariance, PTL

\* An automatic change (applyRoutingPlanAuto) cuts every provider the cycle saw
\* breached, moves at most rounding onto one it saw under maintenance, and
\* leaves 100%, though operators may have changed the sku since it was seen.
THEOREM ShiftsAreSound == Spec => AutomaticShift
<1> DEFINE Sound ==
      pc = "decide" /\ pc' = "record" =>
         /\ SumFunction(traffic'[SKU]) = Full
         /\ \A p \in Providers :
              /\ MetricsBreach(View(SKU)[p]) => traffic'[SKU][p] = 0
              /\ p \in Maintained(SKU) /\ SumFunction(ctx.traffic[SKU]) = Full
                    => traffic'[SKU][p] < ctx.traffic[SKU][p] + Point
<1>1. Inductive /\ [Next]_vars => [Sound]_vars
  <2> SUFFICES ASSUME Inductive, [Next]_vars, pc = "decide", pc' = "record"
               PROVE  /\ SumFunction(traffic'[SKU]) = Full
                      /\ \A p \in Providers :
                           /\ MetricsBreach(View(SKU)[p]) => traffic'[SKU][p] = 0
                           /\ p \in Maintained(SKU) /\ SumFunction(ctx.traffic[SKU]) = Full
                                 => traffic'[SKU][p] < ctx.traffic[SKU][p] + Point
    OBVIOUS
  <2>1. ApplyRouting
    <3>1. ~UNCHANGED pc
      OBVIOUS
    <3>2. ~UNCHANGED vars /\ ~Others
      BY <3>1 DEF vars, agentVars, Others, MetricsChange, ApprovePlan, RejectPlan, Reopen,
                  Maintain, WindowEnds, TimePasses, Moved
    <3>3. ~Fault
      BY DEF Fault, Aborted
    <3>4. CASE Agent
      BY <3>4 DEF Agent, Start, Collect, NothingBreached, Assess, OpenIncident, Monitor,
                  HoldRouting, ProposeRouting, RecordPlan, DecideMaintenance, OpenWindow,
                  WindowsOpened, Overlap, AutoResolve, WriteHistory, Finish, LeaveScope, Aborted
    <3> QED BY <3>2, <3>3, <3>4 DEF Next
  <2>2. PICK r \in Proposals : traffic' = [traffic EXCEPT ![SKU] = r]
    BY <2>1 DEF ApplyRouting
  <2>3. scope.action = "routing"
    BY <2>1 DEF ApplyRouting
  <2>4. traffic'[SKU] = r
    <3>1. SKU \in SKUs
      BY DEF Inductive, OfProduct, InScope, ScopeInHand, SKU
    <3> QED BY <2>2, <3>1 DEF Inductive, Tables
  <2> QED BY <2>3, <2>4, PlansMade
<1>2. Spec => [][Sound]_vars
  BY <1>1, Invariance, PTL DEF Spec
<1> QED
  BY <1>2 DEF AutomaticShift
=============================================================================

--------------------------- MODULE MCDashboardPoll ---------------------------
(***************************************************************************)
(* Instances of DashboardPoll: one scope with two providers.               *)
(***************************************************************************)
EXTENDS DashboardPoll, TLC

CONSTANTS p1, p2

Two    == (p1 :> 5000) @@ (p2 :> 5000)
Rates2 == (p1 :> 90) @@ (p2 :> 90)

\* Halves, and all on one but for nothing, a crumb, or as little as is seen.
Routings2 == {Two} \cup {(p1 :> n) @@ (p2 :> Full - n) : n \in {0, 3, 5}}

\* The SKU alone, or held back by its service.
Rows == {[service |-> None, sku |-> "auto"], [service |-> "recommend_only", sku |-> "auto"]}
============================================================================

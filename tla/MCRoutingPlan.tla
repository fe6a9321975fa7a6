--------------------------- MODULE MCRoutingPlan ---------------------------
(***************************************************************************)
(* Three providers; even thirds, the seeded 70/20/10, a half written        *)
(* 60/60/0, 97/2/1, which a plan may match without moving anything, and     *)
(* 99.6/0.2/0.2, as an operator may submit it.                             *)
(***************************************************************************)
EXTENDS RoutingPlan, TLC

CONSTANTS esale, imedia, shoppay

MCStarts == {(esale :> 3334) @@ (imedia :> 3333) @@ (shoppay :> 3333),
             (esale :> 7000) @@ (imedia :> 2000) @@ (shoppay :> 1000),
             (esale :> 6000) @@ (imedia :> 6000) @@ (shoppay :> 0),
             (esale :> 9700) @@ (imedia :> 200) @@ (shoppay :> 100),
             (esale :> 9960) @@ (imedia :> 20) @@ (shoppay :> 20)}
=============================================================================

-------------------------- MODULE MCRoutingWriter --------------------------
(***************************************************************************)
(* Instances of RoutingWriter: two concurrent calls, two scopes, two       *)
(* providers.  The requests are an approved shift, the opposite automatic  *)
(* shift, a batch whose second map is invalid, a map that submits one row  *)
(* only, and a map naming a provider that has no row.                      *)
(***************************************************************************)
EXTENDS RoutingWriter, TLC

CONSTANTS c1, c2, sku1, sku2, esale, imedia, ghost

Even    == (esale :> 50) @@ (imedia :> 50)
ToImedia == (esale :> 0) @@ (imedia :> 100)
ToEsale == (esale :> 100) @@ (imedia :> 0)
Over    == (esale :> 60) @@ (imedia :> 60)
OnlyOne == (esale :> 100)
Unknown == (imedia :> 40) @@ (ghost :> 60)

MCBaseline == [s \in {sku1, sku2} |-> Even]

One(s, trigger, t) ==
    [sku |-> s, trigger |-> trigger, updates |-> <<[scope |-> s, target |-> t]>>]

Shifts == {One(sku1, "admin_approve", ToImedia), One(sku1, "auto", ToEsale)}

Batch == [sku |-> NoSKU, trigger |-> "admin_approve",
          updates |-> <<[scope |-> sku1, target |-> ToImedia],
                        [scope |-> sku2, target |-> Over]>>]

AllRequests == Shifts \cup {Batch, One(sku1, "manual_temp", OnlyOne),
                            One(sku2, "manual_baseline", Unknown)}
AllTargets == {Even, ToImedia, ToEsale, Over, OnlyOne, Unknown}
FullTargets == {Even, ToImedia, ToEsale}
=============================================================================

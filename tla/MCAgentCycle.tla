---------------------------- MODULE MCAgentCycle ----------------------------
(***************************************************************************)
(* Instances of AgentCycle with two or three providers per sku.            *)
(***************************************************************************)
EXTENDS AgentCycle

CONSTANTS esale, imedia, shoppay, sku1, card

Even     == (esale :> 5000) @@ (imedia :> 5000)
OnEsale  == (esale :> 10000) @@ (imedia :> 0)
EvenRate == (esale :> 97) @@ (imedia :> 97)

OneProduct == <<card>>
OneSKUOfCard == (sku1 :> card)
OneOrder == <<<<sku1, esale>>, <<sku1, imedia>>>>

OnlyEven == {Even}
Thirds == (esale :> 3400) @@ (imedia :> 3300) @@ (shoppay :> 3300)
TwoOfThree == (esale :> 6000) @@ (imedia :> 4000) @@ (shoppay :> 0)
ThreeRate == EvenRate @@ (shoppay :> 97)
ThreeOrder == OneOrder \o <<<<sku1, shoppay>>>>
OnlyThirds == {Thirds}
OnlyTwo == {TwoOfThree}
OnlyEsale == {OnEsale}
=============================================================================

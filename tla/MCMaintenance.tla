--------------------------- MODULE MCMaintenance ---------------------------
(***************************************************************************)
(* Instances of Maintenance: one sku with two providers.                   *)
(***************************************************************************)
EXTENDS Maintenance, TLC

CONSTANTS c1, c2, c3, api, agent, sku1, esale, imedia

Served == (c1 :> api) @@ (c2 :> api) @@ (c3 :> agent)

Ask(kind, targets) == [kind |-> kind, sku |-> sku1, targets |-> targets]

Approve == Ask("approve", {esale, imedia})
Auto    == Ask("auto", {esale})
Batch   == Ask("batch", {esale})
All     == Ask("all", {esale})
Dismiss == Ask("cancel", {esale})
Dismiss2 == Ask("batchCancel", {esale})
Longer  == Ask("extend", {esale})
Reopen  == Ask("reopen", {esale})

Chat    == Ask("chat", {esale})
Named   == Ask("named", {esale})
Longer2 == Ask("extendChat", {esale})
Reopen2 == Ask("reopenChat", {esale})
Reopen3 == Ask("reopenAll", {esale})

AllRequests == {Approve, Auto, Batch, All, Dismiss, Longer, Reopen,
                Chat, Named, Dismiss2, Longer2, Reopen2, Reopen3}

\* One operator approves, a second one may ask for anything an operator may, and
\* the agent opens a window of its own.
Asked ==
    (c1 :> {Approve}) @@ (c2 :> AllRequests \ {Auto}) @@ (c3 :> {Auto})

Later == {<<0, 1>>, <<1, 3>>}
=============================================================================

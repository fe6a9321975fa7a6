--------------------------- MODULE MCScopePlans ---------------------------
(***************************************************************************)
(* Instances of ScopePlans: one scope, two proposals, three calls.         *)
(***************************************************************************)
EXTENDS ScopePlans, TLC

CONSTANTS c1, c2, c3, p1, p2

\* A proposer and two operators, or two proposers and an operator.
Mixed ==
    (c1 :> {"poll", "agent"}) @@ (c2 :> {"approve", "chat_reject", "dismiss", "auto"})
        @@ (c3 :> {"chat_approve", "reject", "apply", "list", "poll"})

Symmetric == Permutations({p1, p2})
=============================================================================

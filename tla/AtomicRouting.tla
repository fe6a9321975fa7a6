--------------------------- MODULE AtomicRouting ---------------------------
(***************************************************************************)
(* What one routing update promises to its callers: the percentages of a   *)
(* scope move in one step from one configuration to the next one, or the   *)
(* scope is torn and its configuration is not the result of any single     *)
(* update.  A torn scope is repaired by the next update that runs alone.   *)
(***************************************************************************)
EXTENDS Integers

CONSTANTS
    Scopes, Providers, Targets, Baseline, Torn,
    ValidTarget(_),    \* the submitted map is acceptable
    Overlay(_, _)      \* rows of a scope after a submitted map replaced theirs

VARIABLE config        \* config[s] : percentages of scope s, or Torn

Pct == 0..100

Init == config = Baseline

\* From a torn scope any leftover is possible in the rows t does not mention.
Apply(s, t) ==
    /\ ValidTarget(t)
    /\ config'[s] \in [Providers -> Pct]
    /\ config'[s] = Overlay(t, IF config[s] = Torn THEN config'[s] ELSE config[s])
    /\ config' = [config EXCEPT ![s] = config'[s]]

Tear(s) == config' = [config EXCEPT ![s] = Torn]

Next == \E s \in Scopes : Tear(s) \/ \E t \in Targets : Apply(s, t)

Spec == Init /\ [][Next]_config

=============================================================================

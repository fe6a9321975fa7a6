---------------------------- MODULE AtomicPlans ----------------------------
(***************************************************************************)
(* What the routing plans of a scope promise to those who decide on them,  *)
(* were every decision one transaction: a proposal is made only when none  *)
(* waits, changes only while it waits, and leaves that state once.  Its    *)
(* approval puts percentages in force in the same step, its own or those   *)
(* of the approver.  A rejection may come late, and stays.                 *)
(*                                                                         *)
(* Where decisions overlap, or one is cut short, a plan comes loose: any   *)
(* step may have that effect on plans, and of them nothing is promised.    *)
(***************************************************************************)
EXTENDS Naturals, Sequences

CONSTANTS Pcts, Edits, None

VARIABLES
    plans,     \* per plan: status and proposal
    traffic    \* percentages in force

Loose == [status |-> "loose", pct |-> None]

Waiting == {i \in DOMAIN plans : plans[i].status = "pending"}

\* The plans become those of the sequence next, but for some that come loose.
Become(next) ==
    LET after == plans'
    IN  /\ DOMAIN after = DOMAIN next
        /\ after = [i \in DOMAIN next |-> IF after[i] = Loose THEN Loose ELSE next[i]]

Init == plans = <<>> /\ traffic = None

Propose ==
    /\ Waiting = {}
    /\ \E p \in Pcts : Become(Append(plans, [status |-> "pending", pct |-> p]))
    /\ UNCHANGED traffic

Refresh(i) ==
    /\ i \in Waiting
    /\ \E p \in Pcts : Become([plans EXCEPT ![i].pct = p])
    /\ UNCHANGED traffic

Approve(i) ==
    /\ i \in Waiting
    /\ Become([plans EXCEPT ![i].status = "executed"])
    /\ traffic' \in ({plans[i].pct} \cup Edits) \ {None}

Reject(i) ==
    /\ plans[i].status \in {"pending", "executed"}
    /\ Become([plans EXCEPT ![i].status = "rejected"])
    /\ UNCHANGED traffic

\* A plan is recorded that was never to wait: decided before, or loose.
Record ==
    /\ \E row \in [status : {"executed", "rejected"}, pct : Pcts \cup {None}] \cup {Loose} :
         Become(Append(plans, row))
    /\ UNCHANGED traffic

\* Percentages are put in force for no plan, or for a loose one.
PutInForce == Become(plans) /\ traffic' \in Pcts

Overlap == Become(plans) /\ UNCHANGED traffic

Next ==
    \/ Propose \/ Record \/ PutInForce \/ Overlap
    \/ \E i \in DOMAIN plans : Refresh(i) \/ Approve(i) \/ Reject(i)

Spec == Init /\ [][Next]_<<plans, traffic>>
=============================================================================

----------------------------- MODULE ScopePlans -----------------------------
(***************************************************************************)
(* The routing plans of one scope between the poll and the agent, who      *)
(* propose them, and the operators, who decide on them by id, by scope or  *)
(* in the chat.  Each of them reads and writes routing_plans in statements *)
(* of its own, without a transaction: a plan can be refreshed, decided by  *)
(* somebody else or applied twice between what a call reads and writes.    *)
(*                                                                         *)
(* UpdateRouting is one step (RoutingWriter has its statements).  The ENUM *)
(* of the column has no value cancelled, so every UPDATE that cancels a    *)
(* plan fails, and its callers drop the error.                             *)
(***************************************************************************)
EXTENDS Naturals, Sequences, FiniteSets

CONSTANTS
    Calls,         \* requests and cycles, one each
    MayBe,         \* kinds each call may be
    Pcts,          \* percentages a plan may propose
    Edits,         \* percentages an approver may put in place of a plan's
    MaxIncidents,  \* bound: incidents of the scope
    Turns,         \* bound: changes of what surrounds the plans
    Losses,        \* bound: calls that fail or die half way
    None

Deciding  == {"approve", "chat_approve", "reject", "chat_reject", "apply", "dismiss"}
Proposing == {"poll", "agent", "auto", "list"}

ASSUME KindsAssumption == MayBe \in [Calls -> SUBSET (Deciding \cup Proposing)]

ASSUME ValuesAssumption ==
    None \notin Pcts /\ Edits \subseteq Pcts /\ {MaxIncidents, Turns, Losses} \subseteq Nat

VARIABLES
    plans,         \* routing_plans of the scope: status and proposal, by id
    traffic,       \* percentages in force
    incident,      \* newest incident of the scope
    fresh,         \* plans decided in the last 30 minutes
    want,          \* what live metrics propose, None while nothing breaches
    advised,       \* a maintenance recommendation is pending
    turns,         \* bound on want, advised, fresh and new incidents
    shown,         \* plan in the answer of the last poll
    pc, kind,      \* per call: control and what it does
    id, pct,       \* per call: plan in hand and percentages
    before,        \* per call: what it read when it came in
    inc,           \* per call: incident it found
    applied,       \* history: times the percentages of a plan were put in force
    overtaken,     \* history: calls during which somebody else wrote
    loose          \* history: plans whose writer was overtaken or cut short

callVars == <<pc, kind, id, pct, before, inc>>
history  == <<applied, overtaken, loose>>
vars == <<plans, traffic, incident, fresh, want, advised, turns, shown, callVars, history>>

Statuses == {"pending", "executed", "rejected"}
Plan  == [status : Statuses, pct : Pcts \cup {None}]
Ids   == DOMAIN plans
Ended == {"idle", "done", "failed"}
InFlight(c) == pc[c] \notin Ended

-----------------------------------------------------------------------------
(* Queries of store/output.go, store/dashboard.go and store/api_queries.go. *)

\* Mutant of Pending: the status is not looked at.
OfAnyStatus == Ids

\* Mutant of Pending: rejected plans can still be decided.
PendingOrRejected == {i \in Ids : plans[i].status # "executed"}

\* status IN ('pending_approve', 'draft'); nothing inserts a draft.
Pending == {i \in Ids : plans[i].status = "pending"}

\* ORDER BY id DESC LIMIT 1, or 0.
Newest(S) == IF S = {} THEN 0 ELSE CHOOSE i \in S : \A j \in S : j <= i

\* CancelPendingRoutingPlansForScope.
CancelPending(rows) == rows

Recent == \E i \in fresh : plans[i].status = "executed"

\* Mutant of SuppressedByReject: any status will do but a pending one.
SuppressedByExecuted(p) ==
    plans # <<>> /\ plans[Len(plans)].status = "executed" /\ plans[Len(plans)].pct = p

\* GetLatestRoutingPlanForScope, routingProposalSuppressedByReject.
SuppressedByReject(p) ==
    plans # <<>> /\ plans[Len(plans)].status = "rejected" /\ plans[Len(plans)].pct = p

\* Mutant of OpenIncident: the id NextIncidentID would give.
NextIncident == incident.id + 1

\* FindOpenIncidentForScope, 0 when there is none.
OpenIncident == IF incident.open THEN incident.id ELSE 0

\* UpdateIncidentHandled for an incident that was found, or the open one.
Handled(n) == [incident EXCEPT !.open = @ /\ n \notin {0, incident.id}]

Init ==
    /\ plans = <<>>
    /\ traffic = None
    /\ incident = [id |-> 0, open |-> FALSE]
    /\ fresh = {}
    /\ want \in Pcts \cup {None}
    /\ advised \in BOOLEAN
    /\ turns = 0
    /\ shown = None
    /\ pc = [c \in Calls |-> "idle"]
    /\ kind \in {f \in [Calls -> Deciding \cup Proposing] : \A c \in Calls : f[c] \in MayBe[c]}
    /\ id = [c \in Calls |-> 0]
    /\ pct = [c \in Calls |-> None]
    /\ before = [c \in Calls |-> None]
    /\ inc = [c \in Calls |-> 0]
    /\ applied = <<>>
    /\ overtaken = {}
    /\ loose = {}

Goto(c, label) == pc' = [pc EXCEPT ![c] = label]

\* What c writes falls into every other call that is in flight.
Writes(c) == overtaken' = overtaken \cup {d \in Calls \ {c} : InFlight(d)}

\* The plan c wrote last is loose if somebody else wrote since c came in.
Settle(c, i) == loose' = IF c \in overtaken THEN loose \cup {i} ELSE loose

\* InsertRoutingPlan.
Add(rows, status, p) ==
    /\ plans' = Append(rows, [status |-> status, pct |-> p])
    /\ applied' = Append(applied, 0)

-----------------------------------------------------------------------------
(* Operators decide.                                                       *)

\* By id from a list, which may be out of date; handleRoutingPlanReject reads
\* the plan but not its status.
ByAnyId(c) ==
    /\ kind[c] \in {"approve", "reject"}
    /\ \E i \in Ids : id' = [id EXCEPT ![c] = i]
    /\ Goto(c, IF kind[c] = "approve" THEN "load" ELSE "close")
    /\ UNCHANGED pct

\* GetPendingRoutingPlanForScope.
\* Approving or rejecting all that is pending comes to this for every scope:
\* the ids of the list are uint64 and looked for as float64.
ByScope(c) ==
    /\ kind[c] \in {"chat_approve", "chat_reject"}
    /\ id' = [id EXCEPT ![c] = Newest(Pending)]
    /\ Goto(c, IF Pending = {} THEN "failed" ELSE "load")
    /\ UNCHANGED pct

\* The percentages come with the request; the chat looks for no incident.
ByPct(c) ==
    /\ kind[c] \in {"apply", "dismiss"}
    /\ \E p \in Pcts : pct' = [pct EXCEPT ![c] = p]
    /\ \E label \in {"insert"} \cup (IF kind[c] = "apply" THEN {"find"} ELSE {}) : Goto(c, label)
    /\ UNCHANGED id

Decide(c) ==
    /\ pc[c] = "idle"
    /\ ByAnyId(c) \/ ByScope(c) \/ ByPct(c)
    /\ UNCHANGED <<plans, traffic, incident, fresh, want, advised, turns, shown, kind, before,
                   inc, history>>

\* GetRoutingPlan and the check of its status; the approver may send other
\* percentages, which without those of the plan only the chat accepts.
Load(c) ==
    LET plan == plans[id[c]]
        refused(p) == \/ id[c] \notin Pending
                      \/ kind[c] # "chat_reject" /\ p = None
                      \/ kind[c] = "approve" /\ plan.pct = None
    IN  /\ pc[c] = "load"
        /\ \E p \in {plan.pct} \cup (IF kind[c] = "chat_reject" THEN {} ELSE Edits) :
             /\ Goto(c, IF refused(p) THEN "failed"
                        ELSE IF kind[c] = "chat_reject" THEN "close" ELSE "find")
             /\ pct' = [pct EXCEPT ![c] = p]
        /\ before' = [before EXCEPT ![c] = plan.pct]
        /\ UNCHANGED <<plans, traffic, incident, fresh, want, advised, turns, shown, kind, id,
                       inc, history>>

\* FindOpenIncidentForScope, ahead of UpdateRouting.
FindIncident(c) ==
    /\ pc[c] = "find"
    /\ inc' = [inc EXCEPT ![c] = OpenIncident]
    /\ Goto(c, IF kind[c] = "apply" THEN "insert" ELSE "route")
    /\ UNCHANGED <<plans, traffic, incident, fresh, want, advised, turns, shown, kind, id, pct,
                   before, history>>

\* InsertRoutingPlan of a decision: pending until the routing is in force, or
\* rejected at once.  The body may lack the plan.
InsertOwn(c) ==
    /\ pc[c] = "insert" /\ kind[c] \in {"apply", "dismiss"}
    /\ \E p \in {pct[c], None} :
         IF kind[c] = "apply" THEN Add(plans, "pending", p)
                              ELSE Add(CancelPending(plans), "rejected", p)
    /\ id' = [id EXCEPT ![c] = Len(plans) + 1]
    /\ loose' = IF kind[c] = "apply" THEN loose \cup {Len(plans) + 1} ELSE loose
    /\ Writes(c)
    /\ Goto(c, IF kind[c] = "apply" THEN "route" ELSE "ack")
    /\ UNCHANGED <<traffic, incident, fresh, want, advised, turns, shown, kind, pct, before, inc>>

\* UpdateRouting, which also resolves the incident.
Route(c) ==
    /\ pc[c] = "route"
    /\ traffic' = pct[c]
    /\ incident' = Handled(inc[c])
    /\ applied' = IF id[c] = 0 THEN applied ELSE [applied EXCEPT ![id[c]] = @ + 1]
    /\ IF id[c] = 0 THEN UNCHANGED loose ELSE Settle(c, id[c])
    /\ Writes(c)
    /\ Goto(c, IF kind[c] = "auto" THEN "record" ELSE "close")
    /\ UNCHANGED <<plans, fresh, want, advised, turns, shown, kind, id, pct, before, inc>>

\* UpdateRoutingPlanStatus, whatever the status is by now.
Close(c) ==
    LET rejects == kind[c] \in {"reject", "chat_reject"}
    IN  /\ pc[c] = "close"
        /\ plans' = [plans EXCEPT ![id[c]].status = IF rejects THEN "rejected" ELSE "executed"]
        /\ fresh' = fresh \cup {id[c]}
        /\ Settle(c, id[c])
        /\ Writes(c)
        /\ Goto(c, IF kind[c] = "reject" THEN "ack" ELSE "done")
        /\ UNCHANGED <<traffic, incident, want, advised, turns, shown, kind, id, pct, before, inc,
                       applied>>

\* The incident that is open is acknowledged.
Acknowledge(c) ==
    /\ pc[c] = "ack"
    /\ incident' = Handled(0)
    /\ Goto(c, "done")
    /\ UNCHANGED <<plans, traffic, fresh, want, advised, turns, shown, kind, id, pct, before, inc,
                   history>>

-----------------------------------------------------------------------------
(* The poll and the agent propose.                                         *)

\* handleDashboardOverview reads the newest pending plan, drops it when the
\* routing matches it, and without a breach cancels it and shows none.
Poll(c) ==
    LET plan == Newest(Pending)
        kept == plan # 0 /\ plans[plan].pct # traffic
    IN
    /\ kind[c] = "poll"
    /\ id' = [id EXCEPT ![c] = IF kept THEN plan ELSE 0]
    /\ before' = [before EXCEPT ![c] = IF kept THEN plans[plan].pct ELSE None]
    /\ pct' = [pct EXCEPT ![c] = want]
    /\ IF want = None
       THEN plans' = CancelPending(plans) /\ shown' = None /\ Goto(c, "done")
       ELSE Goto(c, "rejected?") /\ UNCHANGED <<plans, shown>>

\* emitOutputs decides on routing, unless maintenance is recommended.
Cycle(c) ==
    /\ kind[c] = "agent"
    /\ want # None
    /\ pct' = [pct EXCEPT ![c] = want]
    /\ before' = [before EXCEPT ![c] = traffic]
    /\ Goto(c, IF advised THEN "done" ELSE "pending?")
    /\ UNCHANGED <<plans, shown, id>>

\* autoApplyScopeFromSnapshot, applyRoutingPlanAuto: pending plans are cancelled.
AutoApply(c) ==
    /\ kind[c] = "auto"
    /\ want # None
    /\ plans' = CancelPending(plans)
    /\ pct' = [pct EXCEPT ![c] = want]
    /\ Goto(c, "find")
    /\ UNCHANGED <<shown, id, before>>

\* pruneStalePendingPlans.
Prune(rows) == IF Recent \/ want = None THEN CancelPending(rows) ELSE rows

\* getPendingSuggestionsForSSE: what is stale is pruned, then the plans listed.
List(c) ==
    /\ kind[c] = "list"
    /\ plans' = Prune(plans)
    /\ id' = [id EXCEPT ![c] = Newest(Pending)]
    /\ Goto(c, "done")
    /\ UNCHANGED <<shown, pct, before>>

Propose(c) ==
    /\ pc[c] = "idle"
    /\ Poll(c) \/ Cycle(c) \/ AutoApply(c) \/ List(c)
    /\ UNCHANGED <<traffic, incident, fresh, want, advised, turns, kind, inc, history>>

\* A check: where to go next, nothing else.
Check(c, at, next) ==
    /\ pc[c] = at
    /\ Goto(c, next)
    /\ UNCHANGED <<plans, traffic, incident, fresh, want, advised, turns, shown, kind, id, pct,
                   before, inc, history>>

\* routingProposalSuppressedAfterReject.
CheckRejected(c) ==
    Check(c, "rejected?", IF SuppressedByReject(pct[c]) THEN "fallback" ELSE "executed?")

\* routingProposalSuppressedAfterExecute reads the routing in force,
\* emitOutputs that of its snapshot.
CheckExecuted(c) ==
    LET now == IF kind[c] = "agent" THEN before[c] ELSE traffic
    IN  Check(c, "executed?",
              IF Recent \/ now = pct[c] THEN IF kind[c] = "agent" THEN "done" ELSE "fallback"
              ELSE IF kind[c] = "agent" THEN "insert" ELSE "pending?")

\* Mutant of PlanWaits: a pending plan is not looked for.
NoPlanWaits == FALSE

PlanWaits == Pending # {}

\* HasPendingRoutingPlan; the poll also HasPendingMaintenanceRecommendation.
CheckPending(c) ==
    Check(c, "pending?",
          IF PlanWaits THEN "refresh"
          ELSE IF kind[c] = "agent" THEN "executed?"
          ELSE IF advised THEN "answer" ELSE "insert")

\* Mutant of RefreshTarget: the newest plan of any status.
NewestPlan == Newest(Ids)

RefreshTarget == Newest(Pending)

Answers(c, p) == shown' = IF kind[c] = "poll" THEN p ELSE shown

\* UpdatePendingRoutingPlanForScope.
Refresh(c) ==
    /\ pc[c] = "refresh"
    /\ plans' = IF RefreshTarget = 0 THEN plans ELSE [plans EXCEPT ![RefreshTarget].pct = pct[c]]
    /\ Answers(c, pct[c])
    /\ Writes(c)
    /\ Goto(c, "done")
    /\ UNCHANGED <<traffic, incident, fresh, want, advised, turns, kind, id, pct, before, inc,
                   applied, loose>>

\* InsertRoutingPlan of a proposal.
InsertProposal(c) ==
    /\ pc[c] = "insert" /\ kind[c] \in {"poll", "agent"}
    /\ Add(plans, "pending", pct[c])
    /\ Settle(c, Len(plans) + 1)
    /\ Answers(c, pct[c])
    /\ Writes(c)
    /\ Goto(c, "done")
    /\ UNCHANGED <<traffic, incident, fresh, want, advised, turns, kind, id, pct, before, inc>>

\* syntheticPendingPlanMap: a proposal that is in no row.
Answer(c) ==
    /\ pc[c] = "answer"
    /\ Answers(c, pct[c])
    /\ Goto(c, "done")
    /\ UNCHANGED <<plans, traffic, incident, fresh, want, advised, turns, kind, id, pct, before,
                   inc,
                   history>>

\* No live proposal: the plan read at the start is shown, or cancelled when its
\* proposal is the one that was rejected last.
Fallback(c) ==
    /\ pc[c] = "fallback"
    /\ IF id[c] # 0 /\ SuppressedByReject(before[c])
       THEN plans' = CancelPending(plans) /\ shown' = None
       ELSE UNCHANGED plans /\ shown' = before[c]
    /\ Goto(c, "done")
    /\ UNCHANGED <<traffic, incident, fresh, want, advised, turns, kind, id, pct, before, inc,
                   history>>

\* InsertRoutingPlan with status executed, after an automatic UpdateRouting.
Record(c) ==
    /\ pc[c] = "record"
    /\ Add(plans, "executed", pct[c])
    /\ fresh' = fresh \cup {Len(plans) + 1}
    /\ Writes(c)
    /\ Goto(c, "done")
    /\ UNCHANGED <<traffic, incident, want, advised, turns, shown, kind, id, pct, before, inc,
                   loose>>

-----------------------------------------------------------------------------
\* A statement fails, the client goes away or the process dies.  What the call
\* has written stays; handleScopeRoutingApprove would cancel its own plan.
Lost(c) ==
    /\ InFlight(c)
    /\ Cardinality({d \in Calls : pc[d] = "failed"}) < Losses
    /\ Goto(c, "failed")
    /\ loose' = IF pc[c] = "close" THEN loose \cup {id[c]} ELSE loose
    /\ UNCHANGED <<plans, traffic, incident, fresh, want, advised, turns, shown, kind, id, pct,
                   before, inc, applied, overtaken>>

\* Metrics change, half an hour passes, maintenance is recommended or no more,
\* the agent opens an incident.
World ==
    /\ turns < Turns
    /\ turns' = turns + 1
    /\ \/ \E w \in (Pcts \cup {None}) \ {want} : want' = w /\ UNCHANGED <<fresh, advised, incident>>
       \/ fresh # {} /\ fresh' = {} /\ UNCHANGED <<want, advised, incident>>
       \/ advised' = ~advised /\ UNCHANGED <<want, fresh, incident>>
       \/ /\ ~incident.open /\ incident.id < MaxIncidents
          /\ incident' = [id |-> incident.id + 1, open |-> TRUE]
          /\ UNCHANGED <<want, fresh, advised>>
    /\ UNCHANGED <<plans, traffic, shown, callVars, history>>

\* The handlers, each a sequence of the steps above.
handleRoutingPlanApprove(c) ==
    kind[c] = "approve" /\ (Decide(c) \/ Load(c) \/ FindIncident(c) \/ Route(c) \/ Close(c))

handleRoutingPlanReject(c) ==
    kind[c] = "reject" /\ (Decide(c) \/ Close(c) \/ Acknowledge(c))

chatApproveRoutingPlan(c) ==
    kind[c] = "chat_approve" /\ (Decide(c) \/ Load(c) \/ FindIncident(c) \/ Route(c) \/ Close(c))

chatRejectRoutingPlan(c) ==
    kind[c] = "chat_reject" /\ (Decide(c) \/ Load(c) \/ Close(c))

handleScopeRoutingApprove(c) ==
    kind[c] = "apply" /\ (Decide(c) \/ FindIncident(c) \/ InsertOwn(c) \/ Route(c) \/ Close(c))

handleScopeRoutingReject(c) ==
    kind[c] = "dismiss" /\ (Decide(c) \/ InsertOwn(c) \/ Acknowledge(c))

\* The proposal of the poll: routingPlanResponse and what follows it.
routingPlanResponse(c) ==
    kind[c] = "poll" /\ (CheckRejected(c) \/ CheckExecuted(c) \/ CheckPending(c)
                         \/ Refresh(c) \/ InsertProposal(c) \/ Answer(c) \/ Fallback(c))

emitOutputs(c) ==
    kind[c] = "agent" /\ (CheckPending(c) \/ CheckExecuted(c) \/ Refresh(c) \/ InsertProposal(c))

applyRoutingPlanAuto(c) ==
    kind[c] = "auto" /\ (FindIncident(c) \/ Route(c) \/ Record(c))

Step(c) ==
    \/ handleRoutingPlanApprove(c) \/ handleRoutingPlanReject(c)
    \/ chatApproveRoutingPlan(c) \/ chatRejectRoutingPlan(c)
    \/ handleScopeRoutingApprove(c) \/ handleScopeRoutingReject(c)
    \/ Propose(c) \/ routingPlanResponse(c) \/ emitOutputs(c) \/ applyRoutingPlanAuto(c)
    \/ Lost(c)

Next == World \/ \E c \in Calls : Step(c)

Spec == Init /\ [][Next]_vars

-----------------------------------------------------------------------------
TypeOK ==
    /\ plans \in Seq(Plan)
    /\ traffic \in Pcts \cup {None} /\ want \in Pcts \cup {None} /\ shown \in Pcts \cup {None}
    /\ incident \in [id : 0..MaxIncidents, open : BOOLEAN]
    /\ advised \in BOOLEAN /\ turns \in 0..Turns
    /\ fresh \subseteq Ids /\ loose \subseteq Ids
    /\ pc \in [Calls -> {"load", "find", "insert", "route", "close", "ack", "rejected?",
                         "executed?", "pending?", "refresh", "answer", "fallback",
                         "record"} \cup Ended]
    /\ kind \in [Calls -> Deciding \cup Proposing]
    /\ id \in [Calls -> 0..Len(plans)]
    /\ pct \in [Calls -> Pcts \cup {None}] /\ before \in [Calls -> Pcts \cup {None}]
    /\ inc \in [Calls -> 0..MaxIncidents]
    /\ applied \in [Ids -> Nat]
    /\ overtaken \subseteq Calls

\* One plan of a scope waits for approval: a second one is owed to proposers
\* that overlapped or to a scope approval that did not get to its end.
OnePendingPlan == Cardinality(Pending \ loose) <= 1

\* The percentages of a plan are put in force once, by whatever way it is
\* approved, unless approvals overlapped or one was cut short before it could
\* record what it did.
AppliedOnce ==
    \A i \in Ids \ loose :
        applied[i] > 1 => \E c \in overtaken : InFlight(c) /\ id[c] = i

\* A plan once rejected is not executed, unless the two decisions overlapped.
\* ImplementsAtomicPlans has this in it.
RejectedForGood ==
    [][\A i \in Ids : plans[i].status = "rejected" /\ i \notin loose'
         => plans'[i].status = "rejected"]_vars

\* The row of an executed plan keeps the proposal its approver was shown, even
\* though poll and agent go on refreshing pending plans.
KeepsWhatWasApproved ==
    \A c \in Calls :
        pc[c] = "done" /\ kind[c] \in {"approve", "chat_approve"} /\ c \notin overtaken
            => plans[id[c]].pct = before[c]

NewestIsRejected(p) ==
    plans' # <<>> /\ plans'[Len(plans')].status = "rejected" /\ plans'[Len(plans')].pct = p

\* dashboard_suggest.go:711: the proposal that was rejected last is not on the
\* dashboard again, neither live nor from the plan that was left pending.
RejectedStaysHidden ==
    [][\A c \in Calls :
         kind[c] = "poll" /\ pc[c] # "done" /\ pc'[c] = "done"
         /\ c \notin overtaken /\ shown' # None
            => ~NewestIsRejected(shown')]_vars

-----------------------------------------------------------------------------
(* The mapping to AtomicPlans.                                             *)

Approves(c)   == kind[c] \in {"approve", "chat_approve"}
Closing(c, i) == pc[c] = "close" /\ id[c] = i

\* A plan has come loose, or will when a call that was overtaken closes it.
ComesLoose(i) == i \in loose \/ \E c \in overtaken : Closing(c, i)

\* A plan counts as executed from the step that puts its percentages in force.
Mapped(i) ==
    IF ComesLoose(i) THEN [status |-> "loose", pct |-> None]
    ELSE IF \E c \in Calls : Approves(c) /\ Closing(c, i) THEN [plans[i] EXCEPT !.status = "executed"]
    ELSE plans[i]

Atomic == INSTANCE AtomicPlans WITH plans <- [i \in Ids |-> Mapped(i)]

\* Though every decision is several statements without a transaction, the plans
\* of calls that did not overlap behave as if it were one.
ImplementsAtomicPlans == Atomic!Spec
=============================================================================

-------------------------- MODULE Recommendations --------------------------
(***************************************************************************)
(* The maintenance recommendations of the SKUs of one product: the agent   *)
(* inserts them, the poll shows one per SKU, operators approve or reject   *)
(* them by id, by scope or in the chat.  A rejection is a row of its own,  *)
(* marked DISMISSED, with the cycle completed last.                        *)
(*                                                                         *)
(* A row has no sku column: the SKU is in the text, which the queries for  *)
(* one SKU match by its prefix, action_detail LIKE 'SKU <code>%', while    *)
(* the list for the poll parses the code.  Codes like 10000 and 100000 are *)
(* told apart by the second only.  ORDER BY created_at is taken for the    *)
(* order of ids.                                                           *)
(***************************************************************************)
EXTENDS Naturals, FiniteSets

CONSTANTS
    SKUs,
    Begins,      \* <<s, t>>: the code of SKU s begins the code of t
    Calls,       \* requests of operators, one each
    MaxCycles,   \* bound: completed cycles
    MaxRows,     \* bound: rows ever inserted
    Turns,       \* bound: changes of metrics, windows and time
    Losses,      \* bound: calls that fail or die half way
    None

ById  == {"approve", "reject"}
Chat  == {"chat_approve", "chat_reject"}
Kinds == ById \cup Chat \cup {"scope_approve", "scope_reject"}

ASSUME RecommendationsAssumption ==
    /\ Begins \subseteq SKUs \X SKUs /\ None \notin SKUs
    /\ {MaxCycles, MaxRows, Turns, Losses} \subseteq Nat

VARIABLES
    rows,        \* table recommendations, action_type maintenance
    inserted,    \* rows inserted so far, the newest id
    cycle,       \* newest completed cycle, 0 for none
    need,        \* SKUs whose live metrics call for maintenance
    maintained,  \* SKUs with an active window
    turns,       \* bound on need, maintained and the age of rows
    call,        \* per call: control, what, for whom, row and cycle read
    hushed,      \* history: SKUs dismissed in this cycle, with no row left
    rejected     \* history: SKUs whose rejection was asked for and recorded in this cycle

vars == <<rows, inserted, cycle, need, maintained, turns, call, hushed, rejected>>

Row  == [id : 1..MaxRows, sku : SKUs, dismissed : BOOLEAN, cycle : 0..MaxCycles, fresh : BOOLEAN]
Call == [pc : {"idle", "apply", "cycle", "dismiss", "delete", "done", "failed"},
         kind : Kinds \cup {None}, sku : SKUs \cup {None}, row : 0..MaxRows, seen : 0..MaxCycles]

Outside(label) == [pc |-> label, kind |-> None, sku |-> None, row |-> 0, seen |-> 0]
Set(c, record) == call' = [call EXCEPT ![c] = record]
Goto(c, label) == Set(c, [call[c] EXCEPT !.pc = label])

Newest(S) == CHOOSE r \in S : \A q \in S : q.id <= r.id

-----------------------------------------------------------------------------
(* Queries of store/recommendations.go.                                    *)

\* The code of s is the code of t, or begins it.
Covers(s, t) == s = t \/ <<s, t>> \in Begins

\* Mutant of Matches: a product without SKUs, where the pattern is '%'.
MatchesAny(s, r) == TRUE

\* action_detail LIKE 'SKU s%'.
Matches(s, r) == Covers(s, r.sku)

\* LatestPendingMaintenanceForScope.
PendingLike(s) == {r \in rows : ~r.dismissed /\ r.fresh /\ Matches(s, r)}

\* ListPendingMaintenanceByScope, keyed by the parsed code.
PendingOf(s) == {r \in rows : ~r.dismissed /\ r.fresh /\ r.sku = s}

\* LatestDismissedMaintenanceCycleForScope.
DismissedLike(s) == {r \in rows : r.dismissed /\ Matches(s, r)}

\* maintenanceDismissedThisCycle: a dismissal from before the first completed
\* cycle has none and does not count.
DismissedThisCycle(d) == d # {} /\ cycle # 0 /\ Newest(d).cycle >= cycle

\* Mutant of NextId: a count, as incidents have it.
CountOfRows == Cardinality(rows) + 1

NextId == inserted + 1

\* Mutant of Insert: the trace of a rejection has no SKU, and is read for any.
InsertForAny(s, dismissed, n) ==
    /\ inserted < MaxRows
    /\ inserted' = NextId
    /\ \E t \in SKUs : rows' = rows \cup
          {[id |-> NextId, sku |-> IF dismissed THEN t ELSE s, dismissed |-> dismissed,
            cycle |-> n, fresh |-> TRUE]}

\* InsertRecommendationReturningID, FormatMaintenanceDetail.
Insert(s, dismissed, n) ==
    /\ inserted < MaxRows
    /\ inserted' = NextId
    /\ rows' = rows \cup {[id |-> NextId, sku |-> s, dismissed |-> dismissed,
                           cycle |-> n, fresh |-> TRUE]}

-----------------------------------------------------------------------------
\* The poll: maintenance is warranted and either not dismissed in this cycle
\* or there is a row to show.
Warranted(s) == s \in need \ maintained
LiveSuggestion(s) == Warranted(s) /\ ~DismissedThisCycle(DismissedLike(s))
Shown(s) == LiveSuggestion(s) \/ (Warranted(s) /\ PendingOf(s) # {})

Init ==
    /\ rows = {} /\ inserted = 0 /\ cycle = 0 /\ turns = 0
    /\ need \in SUBSET SKUs
    /\ maintained = {}
    /\ call = [c \in Calls |-> Outside("idle")]
    /\ hushed = {} /\ rejected = {}

-----------------------------------------------------------------------------
(* Operators.                                                              *)

\* GetRecommendation by an id some answer has named: never a dismissed row.
LoadById(c, k) ==
    /\ k \in ById
    /\ \E r \in {q \in rows : ~q.dismissed} :
         Set(c, [pc |-> IF k = "approve" THEN "apply" ELSE "cycle",
                 kind |-> k, sku |-> r.sku, row |-> r.id, seen |-> 0])
    /\ UNCHANGED <<rows, inserted, hushed>>

\* The dashboard approves what it shows: a row of the call's own is inserted.
InsertOwn(c, k, s) ==
    /\ k = "scope_approve"
    /\ Insert(s, FALSE, 0)
    /\ Set(c, [pc |-> "apply", kind |-> k, sku |-> s, row |-> NextId, seen |-> 0])
    /\ hushed' = hushed \ {s}

DismissScope(c, k, s) ==
    /\ k = "scope_reject"
    /\ Set(c, [pc |-> "cycle", kind |-> k, sku |-> s, row |-> 0, seen |-> 0])
    /\ UNCHANGED <<rows, inserted, hushed>>

\* The newest pending row that matches; without one there is nothing to decide.
\* Deciding on all that is pending comes to this, scope by scope.
LatestForScope(c, k, s) ==
    /\ k \in Chat
    /\ PendingLike(s) # {}
    /\ Set(c, [pc |-> IF k = "chat_approve" THEN "apply" ELSE "delete",
               kind |-> k, sku |-> s, row |-> Newest(PendingLike(s)).id, seen |-> 0])
    /\ UNCHANGED <<rows, inserted, hushed>>

Begin(c) ==
    /\ call[c].pc = "idle"
    /\ \E k \in Kinds, s \in SKUs :
         LoadById(c, k) \/ InsertOwn(c, k, s) \/ DismissScope(c, k, s) \/ LatestForScope(c, k, s)
    /\ UNCHANGED <<cycle, need, maintained, turns, rejected>>

\* applyMaintenanceTargets opens the windows of the SKU.
Apply(c) ==
    /\ call[c].pc = "apply"
    /\ maintained' = maintained \cup {call[c].sku}
    /\ Goto(c, "delete")
    /\ UNCHANGED <<rows, inserted, cycle, need, turns, hushed, rejected>>

\* Mutant of ReadCycle: the cycle that is running is taken for completed.
ReadRunning(c) ==
    /\ call[c].pc = "cycle"
    /\ Set(c, [call[c] EXCEPT !.pc = "dismiss", !.seen = cycle + 1])
    /\ UNCHANGED <<rows, inserted, cycle, need, maintained, turns, hushed, rejected>>

\* dismissMaintenanceSuggestion: LatestCompletedCycleID, then the insert.
ReadCycle(c) ==
    /\ call[c].pc = "cycle"
    /\ Set(c, [call[c] EXCEPT !.pc = "dismiss", !.seen = cycle])
    /\ UNCHANGED <<rows, inserted, cycle, need, maintained, turns, hushed, rejected>>

Dismiss(c) ==
    LET s     == call[c].sku
        alone == {r \in PendingOf(s) : r.id # call[c].row} = {}
    IN  /\ call[c].pc = "dismiss"
        /\ Insert(s, TRUE, call[c].seen)
        /\ IF call[c].kind = "reject" THEN Goto(c, "delete") ELSE Set(c, Outside("done"))
        /\ hushed' = IF call[c].seen # cycle THEN {t \in hushed : ~Covers(t, s)}
                     ELSE IF cycle # 0 /\ alone THEN hushed \cup {s} ELSE hushed
        /\ rejected' = IF call[c].seen = cycle THEN rejected \cup {s} ELSE rejected
        /\ UNCHANGED <<cycle, need, maintained, turns>>

\* Mutant of MayRemove: the row of a rejection goes before its trace is written.
RemoveEarly(c) == call[c].pc \in (IF call[c].kind = "reject" THEN {"cycle"} ELSE {"delete"})

MayRemove(c) == call[c].pc = "delete"

\* DeleteRecommendation.
Remove(c) ==
    /\ MayRemove(c)
    /\ rows' = {r \in rows : r.id # call[c].row}
    /\ Set(c, Outside("done"))
    /\ UNCHANGED <<inserted, cycle, need, maintained, turns, hushed, rejected>>

\* A statement fails, windows cannot be opened, the process dies.
Lost(c) ==
    /\ call[c].pc \notin {"idle", "done", "failed"}
    /\ Cardinality({d \in Calls : call[d].pc = "failed"}) < Losses
    /\ Goto(c, "failed")
    /\ UNCHANGED <<rows, inserted, cycle, need, maintained, turns, hushed, rejected>>

-----------------------------------------------------------------------------
(* The agent and time.                                                     *)

\* emitOutputs: a row in every cycle that finds maintenance is needed.
Recommend(s) ==
    /\ Warranted(s) /\ cycle < MaxCycles
    /\ Insert(s, FALSE, cycle + 1)
    /\ hushed' = hushed \ {s}
    /\ UNCHANGED <<cycle, need, maintained, turns, call, rejected>>

\* autoResolveHealthyScopes, for a scope that still has its incident.
AutoResolve(s) ==
    LET gone == {r \in rows : ~r.dismissed /\ Matches(s, r)}
    IN  /\ s \notin need /\ gone # {}
        /\ rows' = rows \ gone
        /\ UNCHANGED <<inserted, cycle, need, maintained, turns, call, hushed, rejected>>

FinishCycle ==
    /\ cycle < MaxCycles
    /\ cycle' = cycle + 1
    /\ hushed' = {} /\ rejected' = {}
    /\ UNCHANGED <<rows, inserted, need, maintained, turns, call>>

\* Metrics recover or get worse, a window ends, a day passes: created_at >=
\* DATE_SUB(NOW(), INTERVAL 24 HOUR) no longer holds.
World ==
    /\ turns < Turns
    /\ turns' = turns + 1
    /\ \/ \E s \in SKUs : need' = (need \ {s}) \cup ({s} \ need) /\ UNCHANGED <<rows, maintained>>
       \/ \E s \in maintained : maintained' = maintained \ {s} /\ UNCHANGED <<rows, need>>
       \/ rows' = {[r EXCEPT !.fresh = FALSE] : r \in rows} /\ UNCHANGED <<need, maintained>>
    /\ UNCHANGED <<inserted, cycle, call, hushed, rejected>>

-----------------------------------------------------------------------------
(* The handlers, each a sequence of the steps above.                       *)

Does(c, k) == (call[c].pc = "idle" /\ call'[c].kind = k) \/ call[c].kind = k

handleRecommendationApprove(c) == (Begin(c) \/ Apply(c) \/ Remove(c)) /\ Does(c, "approve")

handleRecommendationReject(c) ==
    (Begin(c) \/ ReadCycle(c) \/ Dismiss(c) \/ Remove(c)) /\ Does(c, "reject")

handleScopeMaintenanceApprove(c) ==
    (Begin(c) \/ Apply(c) \/ Remove(c)) /\ Does(c, "scope_approve")

handleScopeMaintenanceReject(c) ==
    (Begin(c) \/ ReadCycle(c) \/ Dismiss(c)) /\ Does(c, "scope_reject")

chatApproveScopeMaintenance(c) == (Begin(c) \/ Apply(c) \/ Remove(c)) /\ Does(c, "chat_approve")

chatRejectScopeMaintenance(c) == (Begin(c) \/ Remove(c)) /\ Does(c, "chat_reject")

Step(c) ==
    \/ handleRecommendationApprove(c) \/ handleRecommendationReject(c)
    \/ handleScopeMaintenanceApprove(c) \/ handleScopeMaintenanceReject(c)
    \/ chatApproveScopeMaintenance(c) \/ chatRejectScopeMaintenance(c)
    \/ Lost(c)

Next ==
    \/ \E c \in Calls : Step(c)
    \/ \E s \in SKUs : Recommend(s) \/ AutoResolve(s)
    \/ FinishCycle \/ World

Spec == Init /\ [][Next]_vars

-----------------------------------------------------------------------------
TypeOK ==
    /\ rows \subseteq Row
    /\ \A r, q \in rows : r.id = q.id => r = q
    /\ inserted \in 0..MaxRows /\ cycle \in 0..MaxCycles /\ turns \in 0..Turns
    /\ need \subseteq SKUs /\ maintained \subseteq SKUs /\ hushed \subseteq SKUs
    /\ rejected \subseteq SKUs
    /\ call \in [Calls -> Call]

\* store/recommendations.go:219: a recommendation disappears only because
\* somebody decided on its SKU, or because its SKU recovered.
DecisionsKeepToTheirScope ==
    [][\A r \in {q \in rows : \A p \in rows' : p.id # q.id} :
         \/ r.sku \notin need
         \/ \E c \in Calls : call[c].row = r.id /\ call[c].sku = r.sku]_vars

DecidesOn(c, r) ==
    /\ call[c].row = r.id
    /\ \/ call[c].sku = r.sku
       \/ call[c].kind \in Chat /\ Covers(call[c].sku, r.sku)

\* store/recommendations.go:231: whatever the codes, a recommendation disappears
\* only because somebody decided on its row, in the chat perhaps for a SKU whose
\* code its own begins with, or because a SKU that covers it recovered.
DecisionsReachOnlyAlike ==
    [][\A r \in {q \in rows : \A p \in rows' : p.id # q.id} :
         \/ \E s \in SKUs \ need : Covers(s, r.sku)
         \/ \E c \in Calls : DecidesOn(c, r)]_vars

\* maintenance_helpers.go:48: no silence outlives the cycle.  While maintenance
\* of a SKU is warranted the poll shows it, unless a rejection of that SKU, or of
\* one that it covers, read the newest completed cycle and was recorded before
\* the next one completed, however requests and cycles overlap.
SilenceEndsWithCycle ==
    \A s \in SKUs : Warranted(s) /\ ~Shown(s) => \E t \in rejected : Covers(s, t)

\* maintenance_helpers.go:51: a dismissal holds for the rest of the cycle,
\* unless the agent or an operator recommends maintenance again meanwhile, a
\* rejection has still to delete its row, or a dismissal that read the cycle
\* before this one completed is inserted last and takes its place.  README.md:865
\* and :933 would have the poll suggest again at once.
DismissalHolds ==
    \A s \in hushed :
        Shown(s) => \E c \in Calls : /\ call[c].kind = "reject" /\ call[c].sku = s
                                     /\ call[c].pc \in {"delete", "failed"}

\* A recommendation rejected by id is gone only once its trace is in the table,
\* wherever the request may die, and no later call removes a trace.
RejectLeavesTrace ==
    [][/\ \A r \in rows : r.dismissed => \E q \in rows' : q.id = r.id
       /\ \A c \in Calls :
            call[c].kind = "reject" /\ rows' \subseteq rows /\ rows' # rows /\ call'[c] # call[c]
              => \E q \in rows' : q.dismissed /\ q.sku = call[c].sku /\ q.id > call[c].row]_vars
=============================================================================

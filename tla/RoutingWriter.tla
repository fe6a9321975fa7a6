--------------------------- MODULE RoutingWriter ---------------------------
(***************************************************************************)
(* tools.UpdateRouting, the one function through which the agent, the      *)
(* dashboard poll, the REST handlers and the chat change traffic.  Every   *)
(* SQL statement commits on its own (there is no transaction), so calls    *)
(* of different processes interleave statement by statement, and a call    *)
(* that dies leaves behind what it had written.                            *)
(*                                                                         *)
(* Percentages are whole numbers: the rounding of DECIMAL(5,2) and the     *)
(* tolerance of 0.01 in validateRoutingPct are not told apart from 100.    *)
(***************************************************************************)
EXTENDS Integers, Sequences, FiniteSets, Functions

CONSTANTS
    Calls,        \* invocations of UpdateRouting, each with one input
    Scopes,       \* (product, sku) pairs
    Providers,    \* providers with a routing_config row in every scope
    Targets,      \* submitted maps provider -> pct, valid or not
    Requests,     \* the UpdateRoutingInput records callers send
    Baseline,     \* initial percentages
    NoSKU,        \* UpdateRoutingInput.SKU left empty (scope = sku_batch)
    Torn

VARIABLES
    traffic,      \* routing_config.traffic_pct
    log,          \* per scope, the newest agent_change_log row
    recovering,   \* scopes with routing_scope_state.recovery_apply_cycle_id
    incidents,    \* scopes with an open incident
    pc, req, pos, \* per call: control, input, index in the batch
    left,         \* per call: providers the range loop has still to visit
    before,       \* per call: routing_before
    after,        \* per call: routing_after
    alone,        \* history: calls nobody overlapped on their current scope
    torn          \* history: scopes a failed or overlapped call wrote to

vars == <<traffic, log, recovering, incidents, pc, req, pos, left, before,
          after, alone, torn>>

Pct == 0..100
Triggers == {"auto", "admin_approve", "manual_baseline", "manual_temp"}
Update   == [scope : Scopes, target : Targets]
Request  == [sku : Scopes \cup {NoSKU}, trigger : Triggers, updates : Seq(Update)]
Rows     == [Providers -> Pct]
Names    == UNION {DOMAIN t : t \in Targets}
LogRow   == [before : Rows, after : Rows, target : Targets]

\* Mutant of ValidTarget: the total is not checked.
ValidTargetAnyTotal(t) == DOMAIN t # {} /\ \A p \in DOMAIN t : t[p] \in Pct

\* validateRoutingPct: not empty, every share a percentage, total 100.
ValidTarget(t) ==
    /\ DOMAIN t # {}
    /\ \A p \in DOMAIN t : t[p] \in Pct
    /\ SumFunction(t) = 100

\* The rows of a scope after the submitted shares replaced theirs: a provider
\* that was not submitted keeps its row, a submitted name without a row is lost.
Overlay(t, rows) ==
    [p \in Providers |-> IF p \in DOMAIN t THEN t[p] ELSE rows[p]]

\* Submitted maps are functions from provider to share.
ASSUME TargetsAssumption == \A t \in Targets : t = [p \in DOMAIN t |-> t[p]]

ASSUME RequestsAssumption ==
    /\ Requests \subseteq Request
    /\ \A r \in Requests : r.updates # <<>>

\* The seeded configuration is one an operator could have submitted.
ASSUME BaselineAssumption ==
    /\ Baseline \in [Scopes -> Rows]
    /\ \A s \in Scopes : Baseline[s] \in Targets /\ ValidTarget(Baseline[s])

ASSUME TornAssumption == Torn \notin Rows

-----------------------------------------------------------------------------
Current(c) == req[c].updates[pos[c]]

\* Call c is between its routing_before snapshot and its change log row.
Writing(c, s) == pc[c] \in {"write", "log"} /\ Current(c).scope = s

\* Mutant of LoopDone: the loop stops one provider early.
LoopLeavesOne(c) == \A p, q \in left[c] : p = q

LoopDone(c) == left[c] = {}

\* Mutant of SnapshotAfter: the snapshot taken before the loop is used twice.
SnapshotStale(c) == before[c]

SnapshotAfter(c) == traffic[Current(c).scope]

\* Mutant of HasMore: the batch index runs past the last update.
HasMoreThanLast(c) == pos[c] <= Len(req[c].updates)

HasMore(c) == pos[c] < Len(req[c].updates)

Init ==
    /\ traffic = Baseline
    /\ log = [s \in Scopes |->
                [before |-> Baseline[s], after |-> Baseline[s], target |-> Baseline[s]]]
    /\ recovering = {}
    /\ incidents = Scopes
    /\ pc = [c \in Calls |-> "idle"]
    /\ req \in [Calls -> Requests]
    /\ pos = [c \in Calls |-> 1]
    /\ left = [c \in Calls |-> {}]
    /\ before = [c \in Calls |-> Baseline[req[c].updates[1].scope]]
    /\ after = before
    /\ alone = {}
    /\ torn = {}

\* A caller enters UpdateRouting; inputs that fail the checks on product,
\* service type and scope return at once and are not told apart from no call.
Enter(c) ==
    /\ pc[c] = "idle"
    /\ pc' = [pc EXCEPT ![c] = "check"]
    /\ UNCHANGED <<traffic, log, recovering, incidents, req, pos, left, before, after, alone, torn>>

\* applyScopeRouting: validateRoutingPct, then the routing_before snapshot.
Begin(c) ==
    LET s == Current(c).scope
        rivals == {d \in Calls \ {c} : Writing(d, s)}
    IN  /\ pc[c] = "check"
        /\ ValidTarget(Current(c).target)
        /\ pc' = [pc EXCEPT ![c] = "write"]
        /\ before' = [before EXCEPT ![c] = traffic[s]]
        /\ left' = [left EXCEPT ![c] = DOMAIN Current(c).target]
        /\ alone' = IF rivals = {} THEN alone \cup {c} ELSE alone \ rivals
        /\ torn' = IF rivals = {} THEN torn ELSE torn \cup {s}
        /\ UNCHANGED <<traffic, log, recovering, incidents, req, pos, after>>

\* A submitted map that fails validation ends the call; the earlier updates of
\* a batch stay written, and neither recovery nor incident is touched.
Reject(c) ==
    /\ pc[c] = "check"
    /\ ~ValidTarget(Current(c).target)
    /\ pc' = [pc EXCEPT ![c] = "done"]
    /\ UNCHANGED <<traffic, log, recovering, incidents, req, pos, left, before,
                   after, alone, torn>>

\* One turn of `for provider, pct := range target`: a map has no order, and an
\* UPDATE that matches no row changes nothing and is no error.
WriteRow(c) ==
    /\ pc[c] = "write"
    /\ \E p \in left[c] :
        /\ left' = [left EXCEPT ![c] = @ \ {p}]
        /\ traffic' = IF p \in Providers
                      THEN [traffic EXCEPT ![Current(c).scope][p] = Current(c).target[p]]
                      ELSE traffic
    /\ UNCHANGED <<log, recovering, incidents, pc, req, pos, before, after, alone, torn>>

\* The routing_after snapshot.
ReadAfter(c) ==
    /\ pc[c] = "write"
    /\ LoopDone(c)
    /\ after' = [after EXCEPT ![c] = SnapshotAfter(c)]
    /\ pc' = [pc EXCEPT ![c] = "log"]
    /\ UNCHANGED <<traffic, log, recovering, incidents, req, pos, left, before, alone, torn>>

\* InsertAgentChangeLog, then the next update of the batch or the epilogue.
InsertLog(c) ==
    LET s == Current(c).scope
    IN  /\ pc[c] = "log"
        /\ log' = [log EXCEPT ![s] = [before |-> before[c], after |-> after[c],
                                      target |-> Current(c).target]]
        /\ pc' = [pc EXCEPT ![c] = IF HasMore(c) THEN "check" ELSE "mark"]
        /\ pos' = [pos EXCEPT ![c] = IF HasMore(c) THEN @ + 1 ELSE @]
        /\ alone' = alone \ {c}
        /\ torn' = IF c \in alone THEN torn \ {s} ELSE torn
        /\ UNCHANGED <<traffic, recovering, incidents, req, left, before, after>>

\* markRecoveryStart: uses the SKU of the input (empty for a batch), only for
\* three of the triggers, and drops the error of the statement.
MarkRecovery(c) ==
    /\ pc[c] = "mark"
    /\ pc' = [pc EXCEPT ![c] = "resolve"]
    /\ \/ /\ req[c].trigger # "manual_temp"
          /\ recovering' = recovering \cup ({req[c].sku} \ {NoSKU})
       \/ recovering' = recovering
    /\ UNCHANGED <<traffic, log, incidents, req, pos, left, before, after, alone, torn>>

\* resolveIncidentAfterRouting: only after an approval or an automatic change.
ResolveIncident(c) ==
    /\ pc[c] = "resolve"
    /\ pc' = [pc EXCEPT ![c] = "done"]
    /\ \/ /\ req[c].trigger \in {"auto", "admin_approve"}
          /\ incidents' = incidents \ {req[c].sku}
       \/ incidents' = incidents
    /\ UNCHANGED <<traffic, log, recovering, req, pos, left, before, after, alone, torn>>

\* A statement fails, the request context is cancelled or the process dies:
\* the rows already written stay, and nothing is logged for them.
Abort(c) ==
    /\ pc[c] \notin {"idle", "done"}
    /\ pc' = [pc EXCEPT ![c] = "done"]
    /\ alone' = alone \ {c}
    /\ torn' = IF pc[c] \in {"write", "log"} /\ left[c] # DOMAIN Current(c).target
               THEN torn \cup {Current(c).scope}
               ELSE torn
    /\ left' = [left EXCEPT ![c] = {}]
    /\ UNCHANGED <<traffic, log, recovering, incidents, req, pos, before, after>>

Step(c) ==
    \/ Enter(c)    \/ Begin(c)        \/ Reject(c)
    \/ WriteRow(c) \/ ReadAfter(c)    \/ InsertLog(c)
    \/ MarkRecovery(c) \/ ResolveIncident(c) \/ Abort(c)

Next == \E c \in Calls : Step(c)

Spec == Init /\ [][Next]_vars

-----------------------------------------------------------------------------
TypeOK ==
    /\ traffic \in [Scopes -> Rows]
    /\ log \in [Scopes -> LogRow]
    /\ recovering \subseteq Scopes
    /\ incidents \subseteq Scopes
    /\ pc \in [Calls -> {"idle", "check", "write", "log", "mark", "resolve", "done"}]
    /\ req \in [Calls -> Requests]
    /\ pos \in [Calls -> Nat \ {0}]
    /\ \A c \in Calls : pos[c] \in DOMAIN req[c].updates
    /\ left \in [Calls -> SUBSET Names]
    /\ \A c \in Calls : left[c] \subseteq IF pc[c] = "write"
                                         THEN DOMAIN Current(c).target ELSE {}
    /\ before \in [Calls -> Rows]
    /\ after \in [Calls -> Rows]
    /\ alone \subseteq Calls
    /\ torn \subseteq Scopes

Settled(s) == s \notin torn /\ \A c \in Calls : ~Writing(c, s)

\* A scope no failed or overlapped call has torn carries 100% of its traffic,
\* provided the newest update submitted a share for each of its rows
\* (update_routing.go:126-163 validates the submitted map, not the result).
SettledSumsTo100 ==
    \A s \in Scopes :
        Settled(s) /\ DOMAIN log[s].target = Providers
            => SumFunction(traffic[s]) = 100

\* The newest change log row of such a scope is what an auditor takes it for:
\* its routing_after is the configuration in force, and it differs from
\* routing_before by the submitted map and nothing else.
AuditTrail ==
    \A s \in Scopes :
        Settled(s) => /\ log[s].after = traffic[s]
                      /\ log[s].after = Overlay(log[s].target, log[s].before)

\* README: "Sum of traffic_pct == 100 per (product_code, sku_code)", whenever
\* no call is in progress.  The code writes row by row without a transaction.
SumsTo100 ==
    \A s \in Scopes :
        (\A c \in Calls : pc[c] \in {"idle", "done"}) => SumFunction(traffic[s]) = 100

\* The configuration a reader may rely on: the one before the call in progress,
\* and none while the scope is torn.
Config(s) ==
    IF s \in torn THEN Torn
    ELSE IF \E c \in Calls : Writing(c, s)
         THEN before[CHOOSE c \in Calls : Writing(c, s)]
         ELSE traffic[s]

Atomic == INSTANCE AtomicRouting WITH config <- [s \in Scopes |-> Config(s)]

\* Seen from outside, an update happens at one instant or tears its scope.
ImplementsAtomic == Atomic!Spec
=============================================================================

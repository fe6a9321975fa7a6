---------------------------- MODULE Maintenance ----------------------------
(***************************************************************************)
(* Maintenance windows: tools.SetMaintenance and the callers that open,    *)
(* replace, extend, cancel and roll back windows, statement by statement.  *)
(* The rows of maintenance_windows are all they share; the overlap check   *)
(* and the insert are two statements without a lock.  Notifications and    *)
(* routing plans are left out; of a chat command on several skus each sku  *)
(* is a call of its own.                                                   *)
(*                                                                         *)
(* Every caller inserts its windows as active, those of the future too,    *)
(* and nothing ever sets another status than cancelled: a row is open or   *)
(* not.                                                                    *)
(***************************************************************************)
EXTENDS Integers, FiniteSets, FiniteSetsExt, Functions

CONSTANTS
    Calls,         \* requests, one each
    Processes,     \* api, worker-agent
    ProcessOf,     \* process that serves a call
    SKUs,          \* (product, sku) pairs
    Providers,     \* providers with a routing_config row for every sku
    Requests,      \* what callers ask for
    MayAsk,        \* the requests of each call
    Spans,         \* <<from, to>> an operator may submit
    Duration,      \* maintenance_default_duration_min
    Horizon,       \* bound: the clock stops here
    Losses,        \* bound: hang-ups and restarts end at this many calls lost
    Wrap,          \* ids of one second carry a counter modulo this
    None

Reopenings == {"reopen", "reopenChat", "reopenAll"}
Kinds == {"approve", "auto", "batch", "all", "chat", "named", "cancel", "batchCancel", "extend",
          "extendChat"} \cup Reopenings

ASSUME RequestsAssumption ==
    \A r \in Requests : /\ r.kind \in Kinds /\ r.sku \in SKUs
                        /\ r.targets \in (SUBSET Providers) \ {{}}

ASSUME ProcessesAssumption == ProcessOf \in [Calls -> Processes]

ASSUME MayAskAssumption == MayAsk \in [Calls -> SUBSET Requests]

ASSUME TimesAssumption ==
    /\ Duration \in Nat \ {0} /\ Horizon \in Nat /\ Losses \in Nat /\ Wrap \in Nat \ {0}
    /\ \A s \in Spans : s[1] \in Nat /\ s[2] \in Nat /\ s[1] < s[2]

VARIABLES
    now,           \* the clock
    rows,          \* maintenance_windows by maintenance_id
    seq,           \* maintIDSeq of each process
    pc, req, span, \* per call: control, request, window asked for
    rest, cur,     \* per call: targets left, the one in hand
    opened,        \* per call: windows it inserted
    undo,          \* per call: of these, the ones rollback has still to cancel
    view,          \* per call: windows on the page of its operator
    met,           \* history, per call: windows that a reopening found open
    missed,        \* history, per call: its sweeps and counts that failed
    gone,          \* calls whose context is cancelled: their statements fail
    contested      \* history: <<sku, provider>> where a check was not enough

callVars == <<pc, req, span, rest, cur, opened, undo, view, met, missed>>
vars == <<now, rows, seq, callVars, gone, contested>>

Pairs == SKUs \X Providers
Times == 0..(Horizon + Duration)
Ids   == (0..Horizon) \X Providers \X (0..(Wrap - 1))
Row   == [sku : SKUs, provider : Providers, from : Nat, to : Nat, open : BOOLEAN]

Ended == {"done", "failed", "dead"}
InFlight(c) == pc[c] \notin Ended \cup {"idle", "page"}

-----------------------------------------------------------------------------
(* Queries of store/maintenance.go.                                        *)

Of(x, r) == r.open /\ r.sku = x[1] /\ r.provider = x[2]

\* Mutant of Meets: only the start of the span asked for is looked at.
MeetsStart(r, s) == r.from <= s[1] /\ s[1] < r.to

\* starts_at < ends AND ends_at > starts.
Meets(r, s) == r.from < s[2] /\ r.to > s[1]

\* HasOverlappingMaintenance, CancelOverlappingMaintenance.
Overlapping(x, s) == {i \in DOMAIN rows : Of(x, rows[i]) /\ Meets(rows[i], s)}

\* Mutant of InEffect: a window that is still to start is left out.
InEffectStarted(s) ==
    {i \in DOMAIN rows : /\ rows[i].open /\ rows[i].sku = s
                         /\ rows[i].from <= now /\ now < rows[i].to}

\* Rows of a sku that are open and not over: what CountActiveMaintenanceForSKU
\* counts, CancelActiveMaintenanceForSKU cancels and
\* UpdateActiveMaintenanceTimesForSKU moves.
InEffect(s) == {i \in DOMAIN rows : rows[i].open /\ rows[i].sku = s /\ rows[i].to > now}

OpenFor(s) == {i \in DOMAIN rows : rows[i].open /\ rows[i].sku = s}

Cancel(ids) == [i \in DOMAIN rows |-> [rows[i] EXCEPT !.open = @ /\ i \notin ids]]

Retime(ids, s) ==
    [i \in DOMAIN rows |-> IF i \in ids THEN [rows[i] EXCEPT !.from = s[1], !.to = s[2]]
                                        ELSE rows[i]]

Target(c) == <<req[c].sku, cur[c]>>

\* normalizeMaintenanceTrigger: admin_manual is kept, manual_temp and auto
\* become opsone_auto; only admin_manual replaces overlapping windows.
Replaces(kind) == kind = "batch"

\* Mutant of NextSeq: the counter does not wrap.
NextSeqUnwrapped(n) == n + 1

NextSeq(n) == (n + 1) % Wrap

\* buildMaintenanceID: the second, the provider and a counter of the process.
NewId(c) == <<now, cur[c], NextSeq(seq[ProcessOf[c]])>>

Init ==
    /\ now = 0
    /\ rows = [i \in {} |-> None]
    /\ seq = [q \in Processes |-> 0]
    /\ pc = [c \in Calls |-> "idle"]
    /\ req \in {f \in [Calls -> Requests] : \A c \in Calls : f[c] \in MayAsk[c]}
    /\ span = [c \in Calls |-> None]
    /\ rest = [c \in Calls |-> {}]
    /\ cur = [c \in Calls |-> None]
    /\ opened = [c \in Calls |-> {}]
    /\ undo = [c \in Calls |-> {}]
    /\ view = [c \in Calls |-> {}]
    /\ met = [c \in Calls |-> {}]
    /\ missed = [c \in Calls |-> 0]
    /\ gone = {}
    /\ contested = {}

-----------------------------------------------------------------------------
(* The callers.                                                            *)

FirstStep(kind, page) ==
    CASE kind \in {"approve", "auto", "batch"} -> {"check"}
      [] kind \in {"chat", "named"} -> {"choose"}
      [] kind \in {"all", "batchCancel", "reopenChat", "reopenAll"} -> {"sweep"}
      [] kind = "reopen" -> IF page = {} THEN {"sweep"} ELSE {"ids"}
      [] kind = "cancel" -> {"cancel"}
      [] kind = "extend" -> {"extend"}
      [] kind = "extendChat" -> {"count"}

\* parseMaintenanceWindow: the submitted span, or from now for the default
\* duration; the agent, the poll and the chat ask for the latter.
SpansFor(kind) ==
    CASE kind \in {"auto", "all", "chat", "named"} -> {<<now, now + Duration>>}
      [] kind \in {"cancel", "batchCancel", "extendChat"} \cup Reopenings -> {None}
      [] OTHER -> {<<now, now + Duration>>} \cup Spans

\* maintenance_ids: the dashboard lists the windows that are in effect when the
\* page is loaded, and sends their ids back with a cancellation or a reopening,
\* however old the page is by then.
OnPage(s) == {i \in OpenFor(s) : rows[i].from <= now /\ now <= rows[i].to}

Paged(kind) == kind \in {"cancel", "reopen"}

LoadPage(c) ==
    /\ pc[c] = "idle" /\ Paged(req[c].kind)
    /\ pc' = [pc EXCEPT ![c] = "page"]
    /\ view' = [view EXCEPT ![c] = OnPage(req[c].sku)]
    /\ UNCHANGED <<now, rows, seq, req, span, rest, cur, opened, undo, met, missed, gone,
                   contested>>

Enter(c) ==
    LET r == req[c]
    IN  /\ pc[c] = IF Paged(r.kind) THEN "page" ELSE "idle"
        /\ \E first \in FirstStep(r.kind, view[c]) : pc' = [pc EXCEPT ![c] = first]
        /\ \E s \in SpansFor(r.kind) : span' = [span EXCEPT ![c] = s]
        /\ rest' = [rest EXCEPT ![c] = IF r.kind = "all" THEN Providers ELSE r.targets]
        /\ met' = [met EXCEPT ![c] = IF r.kind \in Reopenings THEN OpenFor(r.sku) ELSE {}]
        /\ UNCHANGED <<now, rows, seq, req, cur, opened, undo, view, missed, gone, contested>>

\* Callers of applyMaintenanceTargets.
Undoes(kind) == kind \in {"approve", "chat", "named"}

\* What a caller does when SetMaintenance returns an error: applyMaintenance-
\* Targets cancels what it inserted, chatSetMaintenanceScopeAll goes on with the
\* next provider, applyMaintenanceAuto and applyMaintenanceWithSkipNotify stop.
OnError(c, left) ==
    CASE Undoes(req[c].kind)   -> "rollback"
      [] req[c].kind = "all" -> IF left # {} THEN "check"
                                ELSE IF opened[c] = {} THEN "failed" ELSE "done"
      [] OTHER                 -> "failed"

\* Mutant of ToUndo: the newest window is not among those remembered.
ToUndoButOne(c) == {i \in opened[c] : \E j \in opened[c] : j # i}

ToUndo(c) == opened[c]

SetMaintenanceFails(c, p) ==
    LET left == rest[c] \ {p}
    IN  /\ pc' = [pc EXCEPT ![c] = OnError(c, left)]
        /\ rest' = [rest EXCEPT ![c] = left]
        /\ cur' = [cur EXCEPT ![c] = None]
        /\ undo' = [undo EXCEPT ![c] = ToUndo(c)]

\* Another call is between its check and its insert for the same pair.
Rivalled(c, x) == \E d \in Calls \ {c} : pc[d] = "insert" /\ Target(d) = x

GoesOnToInsert(c, p) ==
    /\ pc' = [pc EXCEPT ![c] = "insert"]
    /\ cur' = [cur EXCEPT ![c] = p]
    /\ UNCHANGED <<rest, undo>>

\* SetMaintenance, first half: HasOverlappingMaintenance.
CheckOverlap(c) ==
    /\ pc[c] = "check"
    /\ ~Replaces(req[c].kind)
    /\ \E p \in rest[c] :
         LET x == <<req[c].sku, p>>
         IN  IF c \in gone \/ Overlapping(x, span[c]) # {}
             THEN SetMaintenanceFails(c, p) /\ UNCHANGED contested
             ELSE /\ GoesOnToInsert(c, p)
                  /\ contested' = contested \cup {y \in {x} : Rivalled(c, y)}
    /\ UNCHANGED <<now, rows, seq, req, span, opened, view, met, missed, gone>>

\* Or CancelOverlappingMaintenance, whose error is dropped.
ReplaceOverlap(c) ==
    /\ pc[c] = "check"
    /\ Replaces(req[c].kind)
    /\ \E p \in rest[c] :
         LET x == <<req[c].sku, p>>
         IN  /\ GoesOnToInsert(c, p)
             /\ \/ /\ c \notin gone
                   /\ rows' = Cancel(Overlapping(x, span[c]))
                   /\ contested' = contested \cup {y \in {x} : Rivalled(c, y)}
                \/ rows' = rows /\ contested' = contested \cup {x}
    /\ UNCHANGED <<now, seq, req, span, opened, view, met, missed, gone>>

\* Second half: InsertMaintenance, which an id in use makes fail.
Insert(c) ==
    LET id   == NewId(c)
        left == rest[c] \ {cur[c]}
        row  == [sku |-> req[c].sku, provider |-> cur[c],
                 from |-> span[c][1], to |-> span[c][2], open |-> TRUE]
    IN  /\ pc[c] = "insert"
        /\ seq' = [seq EXCEPT ![ProcessOf[c]] = NextSeq(@)]
        /\ IF c \in gone \/ id \in DOMAIN rows
           THEN SetMaintenanceFails(c, cur[c]) /\ UNCHANGED <<rows, opened>>
           ELSE /\ rows' = [i \in DOMAIN rows \cup {id} |-> IF i = id THEN row ELSE rows[i]]
                /\ opened' = [opened EXCEPT ![c] = @ \cup {id}]
                /\ rest' = [rest EXCEPT ![c] = left]
                /\ cur' = [cur EXCEPT ![c] = None]
                /\ pc' = [pc EXCEPT ![c] = IF left = {} THEN "done" ELSE "check"]
                /\ UNCHANGED undo
        /\ UNCHANGED <<now, req, span, view, met, missed, gone, contested>>

\* CancelMaintenanceByID for one of them; the error is dropped.
Rollback(c) ==
    /\ pc[c] = "rollback"
    /\ IF undo[c] = {}
       THEN pc' = [pc EXCEPT ![c] = "failed"] /\ UNCHANGED <<rows, undo>>
       ELSE \E i \in undo[c] :
              /\ undo' = [undo EXCEPT ![c] = @ \ {i}]
              /\ rows' = IF c \in gone THEN rows ELSE Cancel({i})
              /\ UNCHANGED pc
    /\ UNCHANGED <<now, seq, req, span, rest, cur, opened, view, met, missed, gone, contested>>

Going(c, label) == pc' = [pc EXCEPT ![c] = label]

Others(c) == UNCHANGED <<now, seq, req, span, rest, cur, opened, undo, view, met, gone, contested>>
RowsOnly(c) == Others(c) /\ UNCHANGED missed
ControlOnly(c) == RowsOnly(c) /\ UNCHANGED rows

\* The statements of a call whose client is there may fail as well.
Outcomes(c) == IF c \in gone THEN {TRUE} ELSE BOOLEAN

Misses(c, failed) ==
    missed' = IF failed /\ req[c].kind \in Reopenings THEN [missed EXCEPT ![c] = @ + 1] ELSE missed

\* CancelActiveMaintenanceForSKU at one label, and where its callers go on: when
\* it fails, when it finds nothing and when it cancels.  The same statement by
\* ids, after activeMaintenanceIDsForScope, cancels the same rows.
CancelInEffect(c, at, failing, none, some) ==
    /\ pc[c] = at
    /\ \E failed \in Outcomes(c) :
         /\ rows' = IF failed THEN rows ELSE Cancel(InEffect(req[c].sku))
         /\ Going(c, IF failed THEN failing ELSE IF rows' = rows THEN none ELSE some)
         /\ Misses(c, failed)
    /\ Others(c)

\* CountActiveMaintenanceForSKU.
CountInEffect(c, failing, none, some) ==
    /\ pc[c] = "count"
    /\ \E failed \in Outcomes(c) :
         /\ Going(c, IF failed THEN failing ELSE IF InEffect(req[c].sku) = {} THEN none ELSE some)
         /\ Misses(c, failed)
    /\ Others(c) /\ UNCHANGED rows

\* Its caller goes on whatever comes of the sweep.
chatSetMaintenanceScopeAll(c) ==
    /\ req[c].kind = "all"
    /\ CancelInEffect(c, "sweep", "check", "check", "check")

\* applyScopeReopenRouting, or UpdateRouting for the chat, whose effect is
\* AgentCycle's Reopen; it may refuse when the windows are gone already.
Route(c) ==
    /\ pc[c] = "route"
    /\ \E o \in {"failed"} \cup (IF c \in gone THEN {} ELSE {"done"}) : Going(c, o)
    /\ ControlOnly(c)

\* CancelMaintenanceByIDs with the ids of the page.
CancelPage(c) ==
    /\ pc[c] = "ids"
    /\ rows' = IF c \in gone THEN rows ELSE Cancel(view[c])
    /\ Going(c, IF c \in gone THEN "failed" ELSE "orphans")
    /\ RowsOnly(c)

\* A sweep that found nothing, once more by ids: where the ids cannot be listed
\* there are none.
CancelLate(c) ==
    \E failing \in {"failed", "count"} : CancelInEffect(c, "late", failing, "count", "count")

\* With ids of the page or without, whatever is left is cancelled once and,
\* should the count say so, twice more.  Of the statements behind the first one
\* the errors are dropped, but for a cancellation of ids that were found ("late").
handleScopeMaintenanceReopenService(c) ==
    /\ req[c].kind = "reopen"
    /\ \/ CancelPage(c)
       \/ CancelInEffect(c, "orphans", "count", "count", "count")
       \/ CancelInEffect(c, "sweep", "failed", "late", "count")
       \/ CancelLate(c)
       \/ CountInEffect(c, "route", "route", "again")
       \/ CancelInEffect(c, "again", "last", "last", "last")
       \/ CancelInEffect(c, "last", "route", "route", "route")
       \/ Route(c)

\* The chat refuses instead.
chatReopenService(c) ==
    /\ req[c].kind = "reopenChat"
    /\ \/ CancelInEffect(c, "sweep", "failed", "late", "count")
       \/ CancelLate(c)
       \/ CountInEffect(c, "failed", "route", "failed")
       \/ Route(c)

\* A service without windows is left as it is.
tryChatReopenAllServicesReply(c) ==
    /\ req[c].kind = "reopenAll"
    /\ \/ CancelInEffect(c, "sweep", "failed", "failed", "route")
       \/ Route(c)

\* The windows shown to the operator or, when none of them is open any more,
\* whatever is in effect for the sku.
CancelShown(c) ==
    LET shown == {i \in view[c] : rows[i].open}
    IN  /\ pc[c] = "cancel"
        /\ rows' = IF c \in gone THEN rows ELSE Cancel(shown)
        /\ Going(c, IF c \in gone THEN "failed" ELSE IF shown = {} THEN "again" ELSE "done")
        /\ RowsOnly(c)

handleScopeMaintenanceCancel(c) ==
    /\ req[c].kind = "cancel"
    /\ CancelShown(c) \/ CancelInEffect(c, "again", "failed", "failed", "done")

\* Answers that the service is open again, and leaves the routing alone.
handleScopeMaintenanceBatchCancel(c) ==
    /\ req[c].kind = "batchCancel"
    /\ CancelInEffect(c, "sweep", "failed", "failed", "done")

\* Pairs for which moving the windows of s to one span leaves two at a time.
Doubled(s) ==
    {x \in {s} \X Providers :
        \/ \E i, j \in InEffect(s) : /\ i # j /\ rows[i].provider = x[2]
                                     /\ rows[j].provider = x[2]
        \/ \E d \in Calls : pc[d] = "insert" /\ Target(d) = x}

\* UpdateActiveMaintenanceTimesForSKU; no row changed is an error.
handleScopeMaintenanceExtend(c) ==
    /\ pc[c] = "extend"
    /\ rows' = IF c \in gone THEN rows ELSE Retime(InEffect(req[c].sku), span[c])
    /\ contested' = IF c \in gone THEN contested ELSE contested \cup Doubled(req[c].sku)
    /\ Going(c, IF rows' = rows THEN "failed" ELSE "done")
    /\ UNCHANGED <<now, seq, req, span, rest, cur, opened, undo, view, met, missed, gone>>

\* From the first start to the last end of the windows that nobody cancelled,
\* the ones that are over included, and a duration more.
Lengthen(c) ==
    LET open == OpenFor(req[c].sku)
    IN  /\ pc[c] = "measure"
        /\ IF c \in gone \/ open = {}
           THEN Going(c, "failed") /\ UNCHANGED span
           ELSE LET from == Min({rows[i].from : i \in open})
                    to   == Max({rows[i].to : i \in open})
                IN  /\ span' = [span EXCEPT ![c] = <<from, to + Duration>>]
                    /\ Going(c, "extend")
        /\ UNCHANGED <<now, rows, seq, req, rest, cur, opened, undo, view, met, missed, gone,
                       contested>>

chatExtendMaintenance(c) ==
    /\ req[c].kind = "extendChat"
    /\ \/ CountInEffect(c, "failed", "failed", "measure")
       \/ Lengthen(c)
       \/ handleScopeMaintenanceExtend(c)

-----------------------------------------------------------------------------
(* Maintenance by chat.                                                    *)

InMaintenance(s) == {rows[i].provider : i \in InEffect(s)}

\* Nobody is named: what a pending recommendation or plan is about, else the
\* providers without traffic, else those with; never one under maintenance.
chatMaintenanceTargets(s) == (SUBSET (Providers \ InMaintenance(s))) \ {{}}

\* A named provider only loses its traffic if another one carries some; if none
\* does, all of them go under maintenance.
Picks(c) ==
    LET s == req[c].sku
        p == req[c].targets
    IN  IF req[c].kind = "chat"
        THEN {[label |-> "check", targets |-> t] : t \in chatMaintenanceTargets(s)}
        ELSE {[label |-> "check", targets |-> Providers]} \cup
             {[label |-> "shift", targets |-> p] : q \in (Providers \ p) \ InMaintenance(s)}

Choose(c) ==
    /\ pc[c] = "choose"
    /\ IF c \in gone \/ Picks(c) = {}
       THEN Going(c, "failed") /\ UNCHANGED rest
       ELSE \E pick \in Picks(c) :
              Going(c, pick.label) /\ rest' = [rest EXCEPT ![c] = pick.targets]
    /\ UNCHANGED <<now, rows, seq, req, span, cur, opened, undo, view, met, missed, gone,
                   contested>>

\* UpdateRouting, which takes the traffic off the named provider.
Shift(c) ==
    /\ pc[c] = "shift"
    /\ \E o \in {"failed"} \cup (IF c \in gone THEN {} ELSE {"drop"}) : Going(c, o)
    /\ ControlOnly(c)

\* CancelActiveMaintenanceForSKUProvider; the error is dropped.
Drop(c) ==
    /\ pc[c] = "drop"
    /\ rows' = IF c \in gone THEN rows
               ELSE Cancel({i \in InEffect(req[c].sku) : rows[i].provider \in rest[c]})
    /\ Going(c, "done")
    /\ RowsOnly(c)

chatSetMaintenanceScope(c) ==
    /\ req[c].kind \in {"chat", "named"}
    /\ Choose(c) \/ Shift(c) \/ Drop(c)

-----------------------------------------------------------------------------
(* The client disconnects, a process restarts, time passes.                *)

MoreLosses == Cardinality(gone \cup {c \in Calls : pc[c] = "dead"}) < Losses

HangUp(c) ==
    /\ InFlight(c)
    /\ MoreLosses
    /\ c \notin gone
    /\ gone' = gone \cup {c}
    /\ UNCHANGED <<now, rows, seq, callVars, contested>>

Restart(q) ==
    /\ MoreLosses
    /\ \E c \in Calls : ProcessOf[c] = q /\ InFlight(c)
    /\ pc' = [c \in Calls |-> IF ProcessOf[c] = q /\ InFlight(c) THEN "dead" ELSE pc[c]]
    /\ seq' = [seq EXCEPT ![q] = 0]
    /\ UNCHANGED <<now, rows, req, span, rest, cur, opened, undo, view, met, missed, gone,
                   contested>>

Tick ==
    /\ now < Horizon
    /\ now' = now + 1
    /\ UNCHANGED <<rows, seq, callVars, gone, contested>>

SetMaintenance(c) == CheckOverlap(c) \/ ReplaceOverlap(c) \/ Insert(c)

Step(c) ==
    \/ LoadPage(c) \/ Enter(c) \/ SetMaintenance(c) \/ Rollback(c) \/ HangUp(c)
    \/ handleScopeMaintenanceReopenService(c) \/ handleScopeMaintenanceCancel(c)
    \/ handleScopeMaintenanceBatchCancel(c)
    \/ req[c].kind = "extend" /\ handleScopeMaintenanceExtend(c)
    \/ chatSetMaintenanceScopeAll(c) \/ chatSetMaintenanceScope(c)
    \/ chatReopenService(c) \/ tryChatReopenAllServicesReply(c) \/ chatExtendMaintenance(c)

Next == (\E c \in Calls : Step(c)) \/ (\E q \in Processes : Restart(q)) \/ Tick

Spec == Init /\ [][Next]_vars

-----------------------------------------------------------------------------
TypeOK ==
    /\ now \in 0..Horizon
    /\ DOMAIN rows \subseteq Ids
    /\ \A i \in DOMAIN rows : rows[i] \in Row /\ rows[i].from < rows[i].to
    /\ seq \in [Processes -> 0..(Wrap - 1)]
    /\ pc \in [Calls -> {"idle", "page", "check", "insert", "rollback", "sweep", "orphans", "late",
                         "count", "again", "last", "ids", "route", "cancel", "measure", "extend",
                         "choose", "shift", "drop"} \cup Ended]
    /\ req \in [Calls -> Requests]
    /\ rest \in [Calls -> SUBSET Providers]
    /\ \A c \in Calls : pc[c] = "insert" => cur[c] \in rest[c]
    /\ \A c \in Calls : undo[c] \subseteq opened[c]
    /\ opened \in [Calls -> SUBSET DOMAIN rows]
    /\ view \in [Calls -> SUBSET DOMAIN rows] /\ met \in [Calls -> SUBSET DOMAIN rows]
    /\ missed \in [Calls -> Nat]
    /\ gone \subseteq Calls
    /\ contested \subseteq Pairs

DisjointAt(x) ==
    \A i, j \in {k \in DOMAIN rows : Of(x, rows[k]) /\ rows[k].to > now} :
        i # j => rows[i].to <= rows[j].from \/ rows[j].to <= rows[i].from

\* Windows of a provider for a sku never overlap, whoever opens, extends and
\* cancels them, except where two callers were between check and insert at
\* once, an extension moved several windows, or a replacement lost its error.
DisjointUnlessContested == \A x \in Pairs \ contested : DisjointAt(x)

\* store/maintenance.go:209: a partly applied approval is rolled back.  As long
\* as its caller stays, an approval or a chat command that returns an error has
\* left no window.
AllOrNothing ==
    \A c \in Calls :
        Undoes(req[c].kind) /\ pc[c] = "failed" /\ c \notin gone
            => \A i \in opened[c] : ~rows[i].open

\* handlers_scope_actions.go:384-407: a reopening, by page or chat, that went on
\* to the routing has ended every window that was open when it came in, those of
\* which its page knew nothing included, whatever was extended, replaced or
\* cancelled between its statements.  One statement that failed and whose error
\* was dropped is made up for; with two of them a window may be left.
ReopenEndsWindows ==
    \A c \in Calls :
        req[c].kind \in Reopenings /\ pc[c] \in {"route", "done"} /\ missed[c] <= 1
            => \A i \in met[c] : ~rows[i].open \/ rows[i].to <= now
=============================================================================

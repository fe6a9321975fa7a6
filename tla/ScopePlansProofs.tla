-------------------------- MODULE ScopePlansProofs --------------------------
(***************************************************************************)
(* Proofs about ScopePlans for any number of calls, plans and percentages. *)
(* The invariants TLC checks are about calls that came to their end; what  *)
(* makes them inductive is what a call that nobody has overtaken may still *)
(* rely on in the middle: what it read is still so.  A call that writes    *)
(* overtakes every other call in flight, so only its own part is left to   *)
(* show (OthersKeep).                                                      *)
(***************************************************************************)
EXTENDS ScopePlans, SequenceTheorems, FiniteSetTheorems, WellFoundedInduction, TLAPS

\* A call that is about to use the plan in its hand has one.
HasPlan(c) ==
    /\ pc[c] \in {"load", "close"} => id[c] \in Ids
    /\ Approves(c) /\ pc[c] \in {"find", "route", "done"} => id[c] \in Ids
    /\ kind[c] = "apply" /\ pc[c] = "route" => id[c] \in Ids
    /\ kind[c] = "auto" => id[c] = 0
    /\ kind[c] = "poll" /\ id[c] = 0 => before[c] = None

\* The row a scope approval inserts is not told from that of a proposer.
OwnIsLoose(c) == kind[c] = "apply" /\ pc[c] \in {"route", "close"} => id[c] \in loose

\* What Load saw is still so: the plan is pending, with the proposal shown.
StillPending(c) ==
    Approves(c) /\ pc[c] \in {"find", "route", "close"} /\ c \notin overtaken
        => id[c] \in Pending

StillProposed(c) ==
    Approves(c) /\ pc[c] \in {"find", "route", "close", "done"} /\ c \notin overtaken
        => plans[id[c]].pct = before[c]

Decided(c) == Approves(c) /\ pc[c] = "done" => id[c] \notin Pending

\* What CheckPending saw is still so: no plan waits.
StillNone(c) ==
    /\ c \notin overtaken
    /\ \/ kind[c] \in {"poll", "agent"} /\ pc[c] = "insert"
       \/ kind[c] = "agent" /\ pc[c] = "executed?"
    => Pending = {}

\* What CheckRejected saw is still so: the proposal was not rejected last.
StillWelcome(c) ==
    /\ c \notin overtaken
    /\ kind[c] = "poll"
    /\ pc[c] \in {"executed?", "pending?", "refresh", "insert", "answer"}
    => ~SuppressedByReject(pct[c])

Local(c) ==
    /\ HasPlan(c) /\ OwnIsLoose(c) /\ StillPending(c) /\ StillProposed(c)
    /\ Decided(c) /\ StillNone(c) /\ StillWelcome(c)

\* Percentages in force whose plan still waits: its approver is about to close
\* it.  Twice in force: one of those approvers has been overtaken.
Applications ==
    \A i \in Ids \ loose :
        /\ applied[i] > 0 => i \notin Pending \/ \E d \in Calls : Closing(d, i)
        /\ applied[i] > 1 => \E d \in overtaken : Closing(d, i)

OneWaits == \A i, j \in Pending \ loose : i = j

Inductive == TypeOK /\ (\A c \in Calls : Local(c)) /\ Applications /\ OneWaits

-----------------------------------------------------------------------------
(* Rows and queries.                                                       *)

LEMMA RowsAre ==
    ASSUME TypeOK
    PROVE  /\ Len(plans) \in Nat /\ Ids = 1..Len(plans)
           /\ \A i \in Ids : plans[i] \in Plan
           /\ Pending \subseteq Ids
BY DEF TypeOK, Ids, Pending

LEMMA AddRow ==
    ASSUME TypeOK, NEW st \in Statuses, NEW p \in Pcts \cup {None}, Add(plans, st, p)
    PROVE  /\ plans' \in Seq(Plan) /\ Len(plans') = Len(plans) + 1
           /\ Ids' = Ids \cup {Len(plans) + 1} /\ Len(plans) + 1 \notin Ids
           /\ \A i \in Ids : plans'[i] = plans[i] /\ applied'[i] = applied[i]
           /\ plans'[Len(plans) + 1] = [status |-> st, pct |-> p]
           /\ applied' \in [Ids' -> Nat] /\ applied'[Len(plans) + 1] = 0
<1> DEFINE row == [status |-> st, pct |-> p]
           n == Len(plans)
<1>1. row \in Plan
  BY DEF Plan
<1>2. plans' = Append(plans, row) /\ applied' = Append(applied, 0)
  BY DEF Add
<1> HIDE DEF row
<1>3. plans \in Seq(Plan) /\ n \in Nat /\ Ids = 1..n /\ applied \in [1..n -> Nat]
  BY RowsAre DEF TypeOK
<1>4. /\ plans' \in Seq(Plan) /\ Len(plans') = n + 1
      /\ \A i \in 1..n : plans'[i] = plans[i]
      /\ plans'[n + 1] = row
  BY <1>1, <1>2, <1>3
<1>5. applied \in Seq(Nat) /\ Len(applied) = n
  BY <1>3, LenProperties DEF Seq
<1>6. /\ applied' \in Seq(Nat) /\ Len(applied') = n + 1
      /\ \A i \in 1..n : applied'[i] = applied[i]
      /\ applied'[n + 1] = 0
  BY <1>2, <1>5
<1>7. Ids' = 1..(n + 1) /\ applied' \in [1..(n + 1) -> Nat]
  BY <1>4, <1>6 DEF Ids
<1> QED
  BY <1>3, <1>4, <1>6, <1>7 DEF row

LEMMA SetStatus ==
    ASSUME TypeOK, NEW i \in Ids, NEW st \in Statuses,
           plans' = [plans EXCEPT ![i].status = st]
    PROVE  /\ plans' \in Seq(Plan) /\ Len(plans') = Len(plans) /\ Ids' = Ids
           /\ \A j \in Ids : /\ plans'[j].pct = plans[j].pct
                             /\ plans'[j].status = IF j = i THEN st ELSE plans[j].status
<1>1. plans[i] \in Plan /\ plans \in Seq(Plan) /\ Ids = 1..Len(plans)
  BY RowsAre DEF TypeOK
<1> DEFINE row == [plans[i] EXCEPT !.status = st]
<1>2. row \in Plan /\ row.status = st /\ row.pct = plans[i].pct
  BY <1>1 DEF Plan
<1>3. plans' = [plans EXCEPT ![i] = row]
  OBVIOUS
<1> HIDE DEF row
<1>4. plans' \in Seq(Plan) /\ Len(plans') = Len(plans)
  BY <1>1, <1>2, <1>3
<1> QED
  BY <1>1, <1>2, <1>3, <1>4 DEF Ids

LEMMA SetPct ==
    ASSUME TypeOK, NEW i \in Ids, NEW p \in Pcts \cup {None},
           plans' = [plans EXCEPT ![i].pct = p]
    PROVE  /\ plans' \in Seq(Plan) /\ Len(plans') = Len(plans) /\ Ids' = Ids
           /\ \A j \in Ids : /\ plans'[j].status = plans[j].status
                             /\ plans'[j].pct = IF j = i THEN p ELSE plans[j].pct
<1>1. plans[i] \in Plan /\ plans \in Seq(Plan) /\ Ids = 1..Len(plans)
  BY RowsAre DEF TypeOK
<1> DEFINE row == [plans[i] EXCEPT !.pct = p]
<1>2. row \in Plan /\ row.pct = p /\ row.status = plans[i].status
  BY <1>1 DEF Plan
<1>3. plans' = [plans EXCEPT ![i] = row]
  OBVIOUS
<1> HIDE DEF row
<1>4. plans' \in Seq(Plan) /\ Len(plans') = Len(plans)
  BY <1>1, <1>2, <1>3
<1> QED
  BY <1>1, <1>2, <1>3, <1>4 DEF Ids

\* ORDER BY id DESC LIMIT 1 finds a row, whenever there is one.
LEMMA NewestIsThere ==
    ASSUME NEW n \in Nat, NEW S, S \subseteq 1..n, S # {}
    PROVE  Newest(S) \in S /\ \A j \in S : j <= Newest(S)
<1> DEFINE ages == {n - i : i \in S}
           less == {p \in Nat \X Nat : p[1] < p[2]}
<1>1. IsWellFoundedOn(less, Nat)
  BY NatLessThanWellFounded DEF OpToRel
<1>2. ages \subseteq Nat /\ ages # {}
  OBVIOUS
<1>3. PICK a \in ages : \A b \in ages : <<b, a>> \notin less
  <2> HIDE DEF ages, less
  <2> QED
    BY <1>1, <1>2, WFMin
<1>4. PICK i \in S : a = n - i
  BY <1>3
<1>5. \A j \in S : j <= i
  <2> SUFFICES ASSUME NEW j \in S PROVE j <= i
    OBVIOUS
  <2>1. n - j \in Nat /\ n - i \in Nat /\ <<n - j, n - i>> \notin less
    BY <1>3, <1>4
  <2>2. ~(n - j < n - i)
    BY <2>1
  <2>3. i \in Int /\ j \in Int
    OBVIOUS
  <2> QED
    BY <2>2, <2>3
<1> QED
  BY <1>5 DEF Newest

LEMMA NewestTyped ==
    ASSUME TypeOK, NEW S, S \subseteq Ids
    PROVE  /\ Newest(S) \in 0..Len(plans)
           /\ Newest(S) = 0 <=> S = {}
           /\ Newest(S) # 0 => Newest(S) \in S
<1>1. Len(plans) \in Nat /\ S \subseteq 1..Len(plans)
  BY RowsAre
<1>2. CASE S = {}
  BY <1>1, <1>2 DEF Newest
<1>3. CASE S # {}
  <2>1. Newest(S) \in S
    BY <1>1, <1>3, NewestIsThere
  <2>2. Newest(S) \in 1..Len(plans)
    BY <1>1, <2>1
  <2>3. Newest(S) \in 0..Len(plans) /\ Newest(S) # 0
    BY <1>1, <2>2
  <2> QED
    BY <1>3, <2>1, <2>3
<1> QED
  BY <1>2, <1>3

LEMMA HandledTyped ==
    ASSUME TypeOK, NEW n
    PROVE  Handled(n) \in [id : 0..MaxIncidents, open : BOOLEAN]
<1>1. incident \in [id : 0..MaxIncidents, open : BOOLEAN]
  BY DEF TypeOK
<1>2. (incident.open /\ n \notin {0, incident.id}) \in BOOLEAN
  OBVIOUS
<1> QED
  BY <1>1, <1>2 DEF Handled

-----------------------------------------------------------------------------
(* Steps of a call that write no plan.                                     *)

Labels ==
    {"load", "find", "insert", "route", "close", "ack", "rejected?", "executed?", "pending?",
     "refresh", "answer", "fallback", "record"} \cup Ended

\* A step of c, as far as it concerns the calls.
StepOf(c) ==
    /\ pc' \in [Calls -> Labels] /\ id' \in [Calls -> 0..Len(plans')]
    /\ pct' \in [Calls -> Pcts \cup {None}] /\ before' \in [Calls -> Pcts \cup {None}]
    /\ inc' \in [Calls -> 0..MaxIncidents]
    /\ kind' = kind
    /\ \A d \in Calls \ {c} : /\ pc'[d] = pc[d] /\ id'[d] = id[d]
                              /\ pct'[d] = pct[d] /\ before'[d] = before[d]

Quiet(c) ==
    /\ UNCHANGED <<plans, traffic, fresh, want, advised, turns, kind, history>>
    /\ shown' \in Pcts \cup {None}
    /\ incident' \in [id : 0..MaxIncidents, open : BOOLEAN]
    /\ StepOf(c)

LEMMA QuietStep ==
    ASSUME Inductive, NEW c \in Calls, pc[c] # "close", Quiet(c), Local(c)'
    PROVE  Inductive'
<1>1. UNCHANGED <<plans, applied, overtaken, loose, kind>>
  BY DEF Quiet, history
<1>2. \A d \in Calls \ {c} : /\ pc'[d] = pc[d] /\ id'[d] = id[d]
                             /\ pct'[d] = pct[d] /\ before'[d] = before[d]
  BY DEF Quiet, StepOf
<1>3. /\ Ids' = Ids /\ Pending' = Pending
      /\ \A p : SuppressedByReject(p)' = SuppressedByReject(p)
  BY <1>1 DEF Ids, Pending, SuppressedByReject
<1>4. TypeOK'
  BY <1>1, <1>3 DEF Inductive, TypeOK, Quiet, StepOf, Labels
<1>5. \A d \in Calls \ {c} : Local(d)'
  BY <1>1, <1>2, <1>3
  DEF Inductive, Local, HasPlan, OwnIsLoose, StillPending, StillProposed, Decided,
      StillNone, StillWelcome, Approves
<1>6. \A d \in Calls, i \in Ids : Closing(d, i) => Closing(d, i)'
  BY <1>2 DEF Closing
<1>7. overtaken \subseteq Calls
  BY DEF Inductive, TypeOK
<1>8. Applications'
  BY <1>1, <1>3, <1>6, <1>7 DEF Inductive, Applications
<1>9. OneWaits'
  BY <1>1, <1>3 DEF Inductive, OneWaits
<1> QED
  BY <1>4, <1>5, <1>8, <1>9 DEF Inductive

LEMMA DecideStep == ASSUME Inductive, NEW c \in Calls, Decide(c) PROVE Inductive'
<1> USE DEF Inductive
<1>1. pc[c] = "idle" /\ Local(c)
  BY DEF Decide
<1>2. UNCHANGED <<plans, traffic, incident, fresh, want, advised, turns, shown, kind, before,
                  inc, history>>
  BY DEF Decide
<1>3. CASE ByAnyId(c)
  <2>1. PICK i \in Ids : id' = [id EXCEPT ![c] = i]
    BY <1>3 DEF ByAnyId
  <2>2. /\ kind[c] \in {"approve", "reject"} /\ pct' = pct
        /\ pc' = [pc EXCEPT ![c] = IF kind[c] = "approve" THEN "load" ELSE "close"]
    BY <1>3 DEF ByAnyId, Goto
  <2>3. Quiet(c)
    BY <1>2, <2>1, <2>2, RowsAre DEF Quiet, StepOf, TypeOK, Labels
  <2>4. Local(c)'
    BY <1>1, <1>2, <2>1, <2>2
    DEF TypeOK, Local, HasPlan, OwnIsLoose, StillPending, StillProposed, Decided,
        StillNone, StillWelcome, Approves, history, Ids
  <2> QED
    BY <1>1, <2>3, <2>4, QuietStep
<1>4. CASE ByScope(c)
  <2>1. /\ id' = [id EXCEPT ![c] = Newest(Pending)]
        /\ kind[c] \in {"chat_approve", "chat_reject"} /\ pct' = pct
        /\ pc' = [pc EXCEPT ![c] = IF Pending = {} THEN "failed" ELSE "load"]
    BY <1>4 DEF ByScope, Goto
  <2>2. /\ Newest(Pending) \in 0..Len(plans)
        /\ Pending # {} => Newest(Pending) \in Ids
    BY RowsAre, NewestTyped
  <2>3. Quiet(c)
    BY <1>2, <2>1, <2>2 DEF Quiet, StepOf, TypeOK, Labels, Ended
  <2>4. Local(c)'
    BY <1>1, <1>2, <2>1, <2>2
    DEF TypeOK, Local, HasPlan, OwnIsLoose, StillPending, StillProposed, Decided,
        StillNone, StillWelcome, Approves, history, Ids
  <2> QED
    BY <1>1, <2>3, <2>4, QuietStep
<1>5. CASE ByPct(c)
  <2>1. /\ kind[c] \in {"apply", "dismiss"} /\ id' = id
        /\ \E p \in Pcts : pct' = [pct EXCEPT ![c] = p]
        /\ \E l \in {"insert", "find"} : pc' = [pc EXCEPT ![c] = l]
    BY <1>5 DEF ByPct, Goto
  <2>2. Quiet(c)
    BY <1>2, <2>1 DEF Quiet, StepOf, TypeOK, Labels
  <2>3. Local(c)'
    BY <1>1, <1>2, <2>1
    DEF TypeOK, Local, HasPlan, OwnIsLoose, StillPending, StillProposed, Decided,
        StillNone, StillWelcome, Approves, history, Ids
  <2> QED
    BY <1>1, <2>2, <2>3, QuietStep
<1> QED
  BY <1>3, <1>4, <1>5 DEF Decide

LEMMA LoadStep ==
    ASSUME Inductive, NEW c \in Calls, Load(c),
           kind[c] \in {"approve", "chat_approve", "chat_reject"}
    PROVE  Inductive'
<1> USE DEF Inductive
<1>1. pc[c] = "load" /\ Local(c) /\ id[c] \in Ids
  BY DEF Load, Local, HasPlan
<1>2. /\ UNCHANGED <<plans, traffic, incident, fresh, want, advised, turns, shown, kind, id,
                     inc, history>>
      /\ before' = [before EXCEPT ![c] = plans[id[c]].pct]
  BY DEF Load
<1>3. PICK p \in {plans[id[c]].pct} \cup (IF kind[c] = "chat_reject" THEN {} ELSE Edits),
           l \in {"failed", "close", "find"} :
        /\ pc' = [pc EXCEPT ![c] = l]
        /\ pct' = [pct EXCEPT ![c] = p]
        /\ l # "failed" => id[c] \in Pending
        /\ l = "find" <=> l # "failed" /\ kind[c] # "chat_reject"
  BY Zenon DEF Load, Goto
<1>4. plans[id[c]].pct \in Pcts \cup {None} /\ p \in Pcts \cup {None}
  BY <1>1, RowsAre, ValuesAssumption DEF Plan
<1>5. Quiet(c)
  BY <1>2, <1>3, <1>4 DEF Quiet, StepOf, TypeOK, Labels, Ended
<1>6. Local(c)'
  BY <1>1, <1>2, <1>3
  DEF TypeOK, Local, HasPlan, OwnIsLoose, StillPending, StillProposed, Decided,
      StillNone, StillWelcome, Approves, history, Ids, Pending
<1> QED
  BY <1>1, <1>5, <1>6, QuietStep

LEMMA FindIncidentStep ==
    ASSUME Inductive, NEW c \in Calls, FindIncident(c),
           kind[c] \in {"approve", "chat_approve", "apply", "auto"}
    PROVE  Inductive'
<1> USE DEF Inductive
<1>1. pc[c] = "find" /\ Local(c)
  BY DEF FindIncident
<1>2. /\ UNCHANGED <<plans, traffic, incident, fresh, want, advised, turns, shown, kind, id, pct,
                     before, history>>
      /\ pc' = [pc EXCEPT ![c] = IF kind[c] = "apply" THEN "insert" ELSE "route"]
  BY DEF FindIncident, Goto
<1>3. inc' \in [Calls -> 0..MaxIncidents]
  <2>1. OpenIncident \in 0..MaxIncidents
    BY ValuesAssumption DEF TypeOK, OpenIncident
  <2> QED
    BY <2>1 DEF FindIncident, TypeOK
<1>4. Quiet(c)
  BY <1>2, <1>3 DEF Quiet, StepOf, TypeOK, Labels
<1>5. Local(c)'
  BY <1>1, <1>2
  DEF TypeOK, Local, HasPlan, OwnIsLoose, StillPending, StillProposed, Decided,
      StillNone, StillWelcome, Approves, history, Ids, SuppressedByReject, Pending
<1> QED
  BY <1>1, <1>4, <1>5, QuietStep

LEMMA AcknowledgeStep ==
    ASSUME Inductive, NEW c \in Calls, Acknowledge(c), kind[c] \in {"reject", "dismiss"}
    PROVE  Inductive'
<1> USE DEF Inductive
<1>1. pc[c] = "ack" /\ Local(c)
  BY DEF Acknowledge
<1>2. /\ UNCHANGED <<plans, traffic, fresh, want, advised, turns, shown, kind, id, pct, before, inc,
                     history>>
      /\ pc' = [pc EXCEPT ![c] = "done"]
      /\ incident' = Handled(0)
  BY DEF Acknowledge, Goto
<1>3. Quiet(c)
  BY <1>2, HandledTyped DEF Quiet, StepOf, TypeOK, Labels, Ended
<1>4. Local(c)'
  BY <1>1, <1>2
  DEF TypeOK, Local, HasPlan, OwnIsLoose, StillPending, StillProposed, Decided,
      StillNone, StillWelcome, Approves, history, Ids, SuppressedByReject
<1> QED
  BY <1>1, <1>3, <1>4, QuietStep

\* The first statements of poll, agent, automatic mode and list.
LEMMA ProposeStep == ASSUME Inductive, NEW c \in Calls, Propose(c) PROVE Inductive'
<1> USE DEF Inductive
<1>1. /\ pc[c] = "idle" /\ Local(c)
      /\ UNCHANGED <<traffic, incident, fresh, want, advised, turns, kind, inc, history>>
  BY DEF Propose
<1>2. /\ Newest(Pending) \in 0..Len(plans)
      /\ Newest(Pending) # 0 => Newest(Pending) \in Ids
  BY RowsAre, NewestTyped
<1>3. Newest(Pending) # 0 => plans[Newest(Pending)].pct \in Pcts \cup {None}
  BY <1>2, RowsAre DEF Plan
<1>4. CASE Poll(c)
  <2> DEFINE plan == Newest(Pending)
             kept == plan # 0 /\ plans[plan].pct # traffic
  <2>1. /\ kind[c] = "poll" /\ plans' = plans
        /\ id' = [id EXCEPT ![c] = IF kept THEN plan ELSE 0]
        /\ before' = [before EXCEPT ![c] = IF kept THEN plans[plan].pct ELSE None]
        /\ pct' = [pct EXCEPT ![c] = want]
        /\ shown' = IF want = None THEN None ELSE shown
        /\ pc' = [pc EXCEPT ![c] = IF want = None THEN "done" ELSE "rejected?"]
    BY <1>4 DEF Poll, Goto, CancelPending
  <2> HIDE DEF plan
  <2>2. Quiet(c)
    BY <1>1, <1>2, <1>3, <2>1 DEF Quiet, StepOf, TypeOK, Labels, Ended, plan
  <2>3. Local(c)'
    BY <1>1, <1>2, <2>1
    DEF TypeOK, Local, HasPlan, OwnIsLoose, StillPending, StillProposed, Decided,
        StillNone, StillWelcome, Approves, history, Ids, SuppressedByReject, plan
  <2> QED
    BY <1>1, <2>2, <2>3, QuietStep
<1>5. CASE Cycle(c)
  <2>1. /\ kind[c] = "agent"
        /\ pct' = [pct EXCEPT ![c] = want]
        /\ before' = [before EXCEPT ![c] = traffic]
        /\ pc' = [pc EXCEPT ![c] = IF advised THEN "done" ELSE "pending?"]
        /\ UNCHANGED <<plans, shown, id>>
    BY <1>5 DEF Cycle, Goto
  <2>2. Quiet(c)
    BY <1>1, <2>1 DEF Quiet, StepOf, TypeOK, Labels, Ended
  <2>3. Local(c)'
    BY <1>1, <2>1
    DEF TypeOK, Local, HasPlan, OwnIsLoose, StillPending, StillProposed, Decided,
        StillNone, StillWelcome, Approves, history, Ids, SuppressedByReject
  <2> QED
    BY <1>1, <2>2, <2>3, QuietStep
<1>6. CASE AutoApply(c)
  <2>1. /\ kind[c] = "auto"
        /\ pct' = [pct EXCEPT ![c] = want]
        /\ pc' = [pc EXCEPT ![c] = "find"]
        /\ UNCHANGED <<plans, shown, id, before>>
    BY <1>6 DEF AutoApply, Goto, CancelPending
  <2>2. Quiet(c)
    BY <1>1, <2>1 DEF Quiet, StepOf, TypeOK, Labels
  <2>3. Local(c)'
    BY <1>1, <2>1
    DEF TypeOK, Local, HasPlan, OwnIsLoose, StillPending, StillProposed, Decided,
        StillNone, StillWelcome, Approves, history, Ids, SuppressedByReject
  <2> QED
    BY <1>1, <2>2, <2>3, QuietStep
<1>7. CASE List(c)
  <2>1. /\ kind[c] = "list"
        /\ id' = [id EXCEPT ![c] = Newest(Pending)]
        /\ pc' = [pc EXCEPT ![c] = "done"]
        /\ UNCHANGED <<plans, shown, pct, before>>
    BY <1>7 DEF List, Goto, Prune, CancelPending
  <2>2. Quiet(c)
    BY <1>1, <1>2, <2>1 DEF Quiet, StepOf, TypeOK, Labels, Ended
  <2>3. Local(c)'
    BY <1>1, <1>2, <2>1
    DEF TypeOK, Local, HasPlan, OwnIsLoose, StillPending, StillProposed, Decided,
        StillNone, StillWelcome, Approves, history, Ids, SuppressedByReject
  <2> QED
    BY <1>1, <2>2, <2>3, QuietStep
<1> QED
  BY <1>4, <1>5, <1>6, <1>7 DEF Propose

\* The checks of a poll and of a cycle.
LEMMA CheckStep ==
    ASSUME Inductive, NEW c \in Calls, kind[c] \in {"poll", "agent"},
           (CheckRejected(c) /\ kind[c] = "poll") \/ CheckExecuted(c) \/ CheckPending(c)
    PROVE  Inductive'
<1> USE DEF Inductive
<1>1. Local(c) /\ UNCHANGED <<plans, traffic, incident, fresh, want, advised, turns, shown, kind,
                              id, pct, before, inc, history>>
  BY DEF CheckRejected, CheckExecuted, CheckPending, Check
<1>2. PICK l \in {"fallback", "executed?", "done", "insert", "pending?", "refresh", "answer"} :
        pc' = [pc EXCEPT ![c] = l]
  BY DEF CheckRejected, CheckExecuted, CheckPending, Check, Goto
<1>3. Quiet(c)
  BY <1>1, <1>2 DEF Quiet, StepOf, TypeOK, Labels, Ended
<1>4. pc'[c] = l
  BY <1>2 DEF TypeOK
<1>5. CASE CheckRejected(c) /\ kind[c] = "poll"
  <2>1. /\ pc[c] = "rejected?"
        /\ l = IF SuppressedByReject(pct[c]) THEN "fallback" ELSE "executed?"
    BY <1>4, <1>5 DEF CheckRejected, Check, Goto, TypeOK
  <2>2. Local(c)'
    BY <1>1, <1>4, <1>5, <2>1
    DEF TypeOK, Local, HasPlan, OwnIsLoose, StillPending, StillProposed, Decided,
        StillNone, StillWelcome, Approves, history, Ids, SuppressedByReject
  <2> QED
    BY <1>3, <2>1, <2>2, QuietStep
<1>6. CASE CheckExecuted(c)
  <2>1. /\ pc[c] = "executed?"
        /\ kind[c] = "agent" => l \in {"done", "insert"}
        /\ kind[c] = "poll" => l \in {"fallback", "pending?"}
    BY <1>4, <1>6 DEF CheckExecuted, Check, Goto, TypeOK
  <2>2. Local(c)'
    BY <1>1, <1>4, <1>6, <2>1
    DEF TypeOK, Local, HasPlan, OwnIsLoose, StillPending, StillProposed, Decided,
        StillNone, StillWelcome, Approves, history, Ids, SuppressedByReject, Pending
  <2> QED
    BY <1>3, <2>1, <2>2, QuietStep
<1>7. CASE CheckPending(c)
  <2>1. /\ pc[c] = "pending?"
        /\ kind[c] = "agent" => l \in {"refresh", "executed?"}
        /\ kind[c] = "poll" => l \in {"refresh", "answer", "insert"}
        /\ l # "refresh" => Pending = {}
    BY <1>4, <1>7 DEF CheckPending, Check, Goto, TypeOK, PlanWaits
  <2>2. Local(c)'
    BY <1>1, <1>4, <1>7, <2>1
    DEF TypeOK, Local, HasPlan, OwnIsLoose, StillPending, StillProposed, Decided,
        StillNone, StillWelcome, Approves, history, Ids, SuppressedByReject, Pending
  <2> QED
    BY <1>3, <2>1, <2>2, QuietStep
<1> QED
  BY <1>5, <1>6, <1>7

\* The ends of a poll that leave the table alone.
LEMMA AnswerStep ==
    ASSUME Inductive, NEW c \in Calls, kind[c] = "poll", Answer(c) \/ Fallback(c)
    PROVE  Inductive'
<1> USE DEF Inductive
<1>1. /\ pc[c] \in {"answer", "fallback"} /\ Local(c)
      /\ pc' = [pc EXCEPT ![c] = "done"]
      /\ UNCHANGED <<plans, traffic, incident, fresh, want, advised, turns, kind, id, pct, before,
                     inc, history>>
  BY DEF Answer, Fallback, Goto, CancelPending
<1>2. shown' \in Pcts \cup {None}
  BY DEF Answer, Answers, Fallback, TypeOK
<1>3. Quiet(c)
  BY <1>1, <1>2 DEF Quiet, StepOf, TypeOK, Labels, Ended
<1>4. Local(c)'
  BY <1>1
  DEF TypeOK, Local, HasPlan, OwnIsLoose, StillPending, StillProposed, Decided,
      StillNone, StillWelcome, Approves, history, Ids, SuppressedByReject
<1> QED
  BY <1>1, <1>3, <1>4, QuietStep

\* A call that dies at its last statement leaves its plan loose.
LEMMA LostStep == ASSUME Inductive, NEW c \in Calls, Lost(c) PROVE Inductive'
<1> USE DEF Inductive
<1>1. /\ pc' = [pc EXCEPT ![c] = "failed"] /\ pc[c] # "done"
      /\ loose' = IF pc[c] = "close" THEN loose \cup {id[c]} ELSE loose
      /\ UNCHANGED <<plans, traffic, incident, fresh, want, advised, turns, shown, kind, id, pct,
                     before, inc, applied, overtaken>>
  BY DEF Lost, Goto, InFlight, Ended
<1>2. Local(c) /\ (pc[c] = "close" => id[c] \in Ids)
  BY DEF Local, HasPlan
<1>3. Ids' = Ids /\ Pending' = Pending /\ loose \subseteq loose'
      /\ \A p : SuppressedByReject(p)' = SuppressedByReject(p)
  BY <1>1 DEF Ids, Pending, SuppressedByReject
<1>4. TypeOK'
  BY <1>1, <1>2, <1>3 DEF TypeOK, Ended
<1>5. \A d \in Calls : Local(d)'
  BY <1>1, <1>3
  DEF TypeOK, Local, HasPlan, OwnIsLoose, StillPending, StillProposed, Decided,
      StillNone, StillWelcome, Approves, Ended
<1>6. \A d \in Calls, i \in Ids \ loose' : Closing(d, i) => Closing(d, i)'
  BY <1>1 DEF TypeOK, Closing
<1>7. Applications'
  BY <1>1, <1>3, <1>6 DEF TypeOK, Applications
<1>8. OneWaits'
  BY <1>3 DEF OneWaits
<1> QED
  BY <1>4, <1>5, <1>7, <1>8

LEMMA WorldStep == ASSUME Inductive, World PROVE Inductive'
<1> USE DEF Inductive
<1>1. UNCHANGED <<plans, traffic, shown, callVars, history>>
  BY DEF World
<1>2. Ids' = Ids /\ Pending' = Pending
      /\ \A p : SuppressedByReject(p)' = SuppressedByReject(p)
  BY <1>1 DEF Ids, Pending, SuppressedByReject
<1>3. TypeOK'
  <2>1. want' \in Pcts \cup {None} /\ fresh' \subseteq Ids
    BY DEF World, TypeOK
  <2>2. advised' \in BOOLEAN
    BY Zenon DEF World, TypeOK
  <2>3. turns' \in 0..Turns
    <3>1. Turns \in Nat /\ turns < Turns /\ turns' = turns + 1
      BY ValuesAssumption DEF World
    <3> QED
      BY <3>1 DEF TypeOK
  <2>4. incident' \in [id : 0..MaxIncidents, open : BOOLEAN]
    <3>1. \/ incident' = incident
          \/ /\ incident.id < MaxIncidents
             /\ incident' = [id |-> incident.id + 1, open |-> TRUE]
      BY DEF World
    <3>2. MaxIncidents \in Nat /\ incident \in [id : 0..MaxIncidents, open : BOOLEAN]
      BY ValuesAssumption DEF TypeOK
    <3>3. incident.id \in 0..MaxIncidents
      BY <3>2
    <3>4. CASE incident' = incident
      BY <3>2, <3>4
    <3>5. CASE /\ incident.id < MaxIncidents
               /\ incident' = [id |-> incident.id + 1, open |-> TRUE]
      <4>1. incident.id + 1 \in 0..MaxIncidents
        BY <3>2, <3>3, <3>5
      <4> QED
        BY <3>5, <4>1
    <3> QED
      BY <3>1, <3>4, <3>5
  <2> QED
    BY <1>1, <1>2, <2>1, <2>2, <2>3, <2>4 DEF TypeOK, callVars, history
<1>4. \A d \in Calls : Local(d)'
  BY <1>1, <1>2
  DEF Local, HasPlan, OwnIsLoose, StillPending, StillProposed, Decided,
      StillNone, StillWelcome, Approves, callVars, history
<1>5. Applications' /\ OneWaits'
  BY <1>1, <1>2 DEF Applications, OneWaits, Closing, callVars, history
<1> QED
  BY <1>3, <1>4, <1>5

-----------------------------------------------------------------------------
(* Steps that write plans or traffic.                                      *)

\* Whoever is in flight is overtaken by them, and relies on nothing any more.
LEMMA OthersKeep ==
    ASSUME Inductive, NEW c \in Calls, Writes(c), StepOf(c),
           Ids \subseteq Ids', loose \subseteq loose',
           \A i \in Ids \ Pending : i \notin Pending' /\ plans'[i].pct = plans[i].pct
    PROVE  /\ overtaken \subseteq overtaken' /\ overtaken' \subseteq Calls
           /\ c \in overtaken' <=> c \in overtaken
           /\ \A d \in Calls \ {c} : InFlight(d) => d \in overtaken'
           /\ \A d \in Calls \ {c} : Local(d)'
<1>1. overtaken' = overtaken \cup {d \in Calls \ {c} : InFlight(d)} /\ overtaken \subseteq Calls
  BY DEF Writes, Inductive, TypeOK
<1>2. \A d \in Calls \ {c} : /\ pc'[d] = pc[d] /\ id'[d] = id[d] /\ kind'[d] = kind[d]
                             /\ pct'[d] = pct[d] /\ before'[d] = before[d]
  BY DEF StepOf
<1>3. ASSUME NEW d \in Calls \ {c}
      PROVE  Local(d)'
  <2>1. Local(d) /\ Pending \subseteq Ids
    BY RowsAre DEF Inductive
  <2>2. HasPlan(d)' /\ OwnIsLoose(d)'
    BY <1>2, <2>1 DEF Local, HasPlan, OwnIsLoose, Approves
  <2>3. Decided(d)'
    BY <1>2, <2>1 DEF Local, Decided, HasPlan, Approves
  <2>4. pc[d] \notin {"idle", "done", "failed"} => d \in overtaken'
    BY <1>1 DEF InFlight, Ended
  <2>5. StillPending(d)' /\ StillNone(d)' /\ StillWelcome(d)'
    BY <1>2, <2>4 DEF StillPending, StillNone, StillWelcome
  <2>6. StillProposed(d)'
    BY <1>1, <1>2, <2>1, <2>4 DEF Local, StillProposed, Decided, HasPlan, Approves
  <2> QED
    BY <2>2, <2>3, <2>5, <2>6 DEF Local
<1> QED
  BY <1>1, <1>3

LEMMA RouteStep ==
    ASSUME Inductive, NEW c \in Calls, Route(c),
           kind[c] \in {"approve", "chat_approve", "apply", "auto"}
    PROVE  Inductive'
<1>1. TypeOK /\ pc[c] = "route" /\ Local(c) /\ (kind[c] # "auto" => id[c] \in Ids)
  BY DEF Inductive, Route, Local, HasPlan, Approves
<1>2. /\ traffic' = pct[c] /\ incident' = Handled(inc[c])
      /\ applied' = IF id[c] = 0 THEN applied ELSE [applied EXCEPT ![id[c]] = @ + 1]
      /\ loose' = IF id[c] # 0 /\ c \in overtaken THEN loose \cup {id[c]} ELSE loose
      /\ Writes(c)
      /\ pc' = [pc EXCEPT ![c] = IF kind[c] = "auto" THEN "record" ELSE "close"]
      /\ UNCHANGED <<plans, fresh, want, advised, turns, shown, kind, id, pct, before, inc>>
  BY DEF Route, Settle, Goto
<1>3. Ids' = Ids /\ Pending' = Pending /\ loose \subseteq loose' /\ id[c] \in Ids \cup {0}
  BY <1>1, <1>2 DEF Ids, Pending, Local, HasPlan
<1>4. StepOf(c)
  BY <1>1, <1>2 DEF StepOf, TypeOK, Labels
<1>5. /\ overtaken \subseteq overtaken' /\ overtaken' \subseteq Calls
      /\ c \in overtaken' <=> c \in overtaken
      /\ \A d \in Calls \ {c} : InFlight(d) => d \in overtaken'
      /\ \A d \in Calls \ {c} : Local(d)'
  BY <1>2, <1>3, <1>4, OthersKeep
<1>6. TypeOK'
  <2>1. incident' \in [id : 0..MaxIncidents, open : BOOLEAN]
    BY <1>1, <1>2, HandledTyped
  <2>2. applied' \in [Ids' -> Nat] /\ loose' \subseteq Ids' /\ fresh' \subseteq Ids'
    BY <1>1, <1>2, <1>3, RowsAre DEF TypeOK
  <2> QED
    BY <1>1, <1>2, <1>4, <1>5, <2>1, <2>2 DEF TypeOK, StepOf, Labels
<1>7. Local(c)'
  BY <1>1, <1>2, <1>3, <1>5
  DEF TypeOK, Local, HasPlan, OwnIsLoose, StillPending, StillProposed, Decided,
      StillNone, StillWelcome, Approves
<1>8. \A d \in Calls, i \in Ids : Closing(d, i) => Closing(d, i)' /\ d # c
  BY <1>1, <1>4 DEF Closing, StepOf
<1>9. Applications'
  <2> SUFFICES ASSUME NEW i \in Ids \ loose'
               PROVE  /\ applied'[i] > 0 => i \notin Pending \/ \E d \in Calls : Closing(d, i)'
                      /\ applied'[i] > 1 => \E d \in overtaken' : Closing(d, i)'
    BY <1>3 DEF Applications
  <2>1. /\ applied[i] > 0 => i \notin Pending \/ \E d \in Calls : Closing(d, i)
        /\ applied[i] > 1 => \E d \in overtaken : Closing(d, i)
    BY <1>3 DEF Inductive, Applications
  <2>2. CASE i # id[c]
    <3>1. applied'[i] = applied[i]
      BY <1>1, <1>2, <2>2 DEF TypeOK
    <3> QED
      BY <1>5, <1>8, <2>1, <3>1
  <2>3. CASE i = id[c]
    <3>1. i # 0 /\ c \notin overtaken /\ kind[c] # "auto" /\ kind[c] # "apply"
      BY <1>1, <1>2, <2>3, RowsAre DEF Local, HasPlan, OwnIsLoose
    <3>2. i \in Pending /\ Closing(c, i)'
      BY <1>1, <1>2, <2>3, <3>1 DEF Local, StillPending, Approves, Closing, TypeOK
    <3>3. applied'[i] = applied[i] + 1 /\ applied[i] \in Nat
      BY <1>1, <1>2, <2>3, <3>1 DEF TypeOK
    <3>4. ASSUME applied'[i] > 1
          PROVE  \E d \in overtaken' : Closing(d, i)'
      <4>1. PICK d \in Calls : Closing(d, i)
        BY <2>1, <3>2, <3>3, <3>4
      <4>2. d # c /\ InFlight(d) /\ Closing(d, i)'
        BY <1>8, <4>1 DEF Closing, InFlight, Ended
      <4> QED
        BY <1>5, <4>2
    <3> QED
      BY <3>2, <3>4
  <2> QED
    BY <2>2, <2>3
<1>10. OneWaits'
  BY <1>3 DEF Inductive, OneWaits
<1> QED
  BY <1>5, <1>6, <1>7, <1>9, <1>10 DEF Inductive

LEMMA CloseStep ==
    ASSUME Inductive, NEW c \in Calls, Close(c), kind[c] # "auto"
    PROVE  Inductive'
<1> DEFINE st == IF kind[c] \in {"reject", "chat_reject"} THEN "rejected" ELSE "executed"
<1>1. TypeOK /\ pc[c] = "close" /\ Local(c) /\ id[c] \in Ids
  BY DEF Inductive, Close, Local, HasPlan
<1>2. /\ plans' = [plans EXCEPT ![id[c]].status = st]
      /\ fresh' = fresh \cup {id[c]}
      /\ loose' = IF c \in overtaken THEN loose \cup {id[c]} ELSE loose
      /\ Writes(c)
      /\ pc' = [pc EXCEPT ![c] = IF kind[c] = "reject" THEN "ack" ELSE "done"]
      /\ UNCHANGED <<traffic, incident, want, advised, turns, shown, kind, id, pct, before, inc,
                     applied>>
  BY DEF Close, Settle, Goto
<1>3. st \in Statuses \ {"pending"}
  BY DEF Statuses
<1> HIDE DEF st
<1>4. /\ plans' \in Seq(Plan) /\ Len(plans') = Len(plans) /\ Ids' = Ids
      /\ \A j \in Ids : /\ plans'[j].pct = plans[j].pct
                        /\ plans'[j].status = IF j = id[c] THEN st ELSE plans[j].status
  BY <1>1, <1>2, <1>3, SetStatus
<1>5. Pending' = Pending \ {id[c]} /\ loose \subseteq loose'
  BY <1>2, <1>3, <1>4 DEF Pending
<1>6. StepOf(c)
  BY <1>1, <1>2, <1>4 DEF StepOf, TypeOK, Labels, Ended
<1>7. /\ overtaken \subseteq overtaken' /\ overtaken' \subseteq Calls
      /\ c \in overtaken' <=> c \in overtaken
      /\ \A d \in Calls \ {c} : Local(d)'
  BY <1>2, <1>4, <1>5, <1>6, OthersKeep
<1>8. TypeOK'
  BY <1>1, <1>2, <1>4, <1>6, <1>7 DEF TypeOK, StepOf, Labels
<1>9. Local(c)'
  BY <1>1, <1>2, <1>4, <1>5, <1>7
  DEF TypeOK, Local, HasPlan, OwnIsLoose, StillPending, StillProposed, Decided,
      StillNone, StillWelcome, Approves
<1>10. \A d \in Calls \ {c}, i \in Ids : Closing(d, i) => Closing(d, i)'
  BY <1>6 DEF Closing, StepOf
<1>11. Applications'
  <2> SUFFICES ASSUME NEW i \in Ids \ loose'
               PROVE  /\ applied[i] > 0 => i \notin Pending' \/ \E d \in Calls : Closing(d, i)'
                      /\ applied[i] > 1 => \E d \in overtaken' : Closing(d, i)'
    BY <1>2, <1>4 DEF Applications
  <2>1. /\ applied[i] > 0 => i \notin Pending \/ \E d \in Calls : Closing(d, i)
        /\ applied[i] > 1 => \E d \in overtaken : Closing(d, i)
    BY <1>5 DEF Inductive, Applications
  <2>2. Closing(c, i) => i = id[c] /\ c \notin overtaken
    BY <1>2 DEF Closing
  <2> QED
    BY <1>5, <1>7, <1>10, <2>1, <2>2
<1>12. OneWaits'
  BY <1>5 DEF Inductive, OneWaits
<1> QED
  BY <1>7, <1>8, <1>9, <1>11, <1>12 DEF Inductive

\* What a new row does to the plans there were: nothing.
LEMMA InsertKeeps ==
    ASSUME Inductive, NEW c \in Calls, pc[c] # "close", Writes(c), StepOf(c), TypeOK', Local(c)',
           NEW st \in Statuses, NEW p \in Pcts \cup {None}, Add(plans, st, p),
           loose \subseteq loose', loose' \subseteq loose \cup {Len(plans) + 1},
           st = "pending" /\ Len(plans) + 1 \notin loose' => Pending = {}
    PROVE  Inductive'
<1> DEFINE n == Len(plans) + 1
<1>1. /\ Ids' = Ids \cup {n} /\ n \notin Ids
      /\ \A i \in Ids : plans'[i] = plans[i] /\ applied'[i] = applied[i]
      /\ plans'[n] = [status |-> st, pct |-> p] /\ applied'[n] = 0
      /\ Pending \subseteq Ids
  BY AddRow, RowsAre DEF Inductive
<1> HIDE DEF n
<1>2. /\ \A i \in Ids : i \in Pending' <=> i \in Pending
      /\ n \in Pending' <=> st = "pending"
      /\ Pending' \subseteq Ids \cup {n}
  BY <1>1 DEF Pending
<1>3. /\ overtaken \subseteq overtaken' /\ overtaken' \subseteq Calls
      /\ \A d \in Calls \ {c} : Local(d)'
  BY <1>1, <1>2, OthersKeep
<1>4. \A d \in Calls, i \in Ids : Closing(d, i) => Closing(d, i)'
  BY DEF Closing, StepOf
<1>5. Applications'
  BY <1>1, <1>2, <1>3, <1>4 DEF Inductive, Applications
<1>6. OneWaits'
  BY <1>1, <1>2 DEF Inductive, OneWaits, n
<1> QED
  BY <1>3, <1>5, <1>6 DEF Inductive

LEMMA InsertOwnStep == ASSUME Inductive, NEW c \in Calls, InsertOwn(c) PROVE Inductive'
<1> DEFINE apply == kind[c] = "apply"
           n == Len(plans) + 1
<1>1. TypeOK /\ Local(c) /\ pc[c] = "insert" /\ kind[c] \in {"apply", "dismiss"} /\ n \in Nat
  BY RowsAre DEF Inductive, InsertOwn
<1>2. PICK st \in {"pending", "rejected"}, p \in Pcts \cup {None} :
        Add(plans, st, p) /\ (st = "pending" <=> apply)
  BY <1>1 DEF InsertOwn, CancelPending, TypeOK
<1>3. /\ id' = [id EXCEPT ![c] = n]
      /\ loose' = IF apply THEN loose \cup {n} ELSE loose
      /\ Writes(c)
      /\ pc' = [pc EXCEPT ![c] = IF apply THEN "route" ELSE "ack"]
      /\ UNCHANGED <<traffic, incident, fresh, want, advised, turns, shown, kind, pct, before, inc>>
  BY DEF InsertOwn, Goto
<1>4. /\ plans' \in Seq(Plan) /\ Len(plans') = n /\ Ids' = Ids \cup {n}
      /\ applied' \in [Ids' -> Nat]
  BY <1>1, <1>2, AddRow DEF Statuses
<1> HIDE DEF n
<1>5. StepOf(c)
  <2>1. id' \in [Calls -> 0..n]
    BY <1>1, <1>3, RowsAre DEF TypeOK, n
  <2> QED
    BY <1>1, <1>3, <1>4, <2>1 DEF StepOf, TypeOK, Labels
<1>6. TypeOK'
  <2>1. overtaken' \subseteq Calls
    BY <1>1, <1>3 DEF Writes, TypeOK
  <2> QED
    BY <1>1, <1>3, <1>4, <1>5, <2>1 DEF TypeOK, StepOf, Labels
<1>7. Local(c)'
  BY <1>1, <1>3, <1>4
  DEF TypeOK, Local, HasPlan, OwnIsLoose, StillPending, StillProposed, Decided,
      StillNone, StillWelcome, Approves
<1> QED
  BY <1>1, <1>2, <1>3, <1>5, <1>6, <1>7, InsertKeeps DEF n, Statuses

LEMMA InsertProposalStep ==
    ASSUME Inductive, NEW c \in Calls, InsertProposal(c) PROVE Inductive'
<1> DEFINE n == Len(plans) + 1
<1>1. TypeOK /\ Local(c) /\ pc[c] = "insert" /\ kind[c] \in {"poll", "agent"} /\ n \in Nat
  BY RowsAre DEF Inductive, InsertProposal
<1>2. /\ Add(plans, "pending", pct[c]) /\ pct[c] \in Pcts \cup {None}
      /\ loose' = IF c \in overtaken THEN loose \cup {n} ELSE loose
      /\ shown' \in {pct[c], shown}
      /\ Writes(c)
      /\ pc' = [pc EXCEPT ![c] = "done"]
      /\ UNCHANGED <<traffic, incident, fresh, want, advised, turns, kind, id, pct, before, inc>>
  BY <1>1 DEF InsertProposal, Goto, Settle, Answers, TypeOK
<1>3. /\ plans' \in Seq(Plan) /\ Len(plans') = n /\ Ids' = Ids \cup {n}
      /\ applied' \in [Ids' -> Nat]
  BY <1>1, <1>2, AddRow DEF Statuses
<1> HIDE DEF n
<1>4. StepOf(c)
  <2>1. id' \in [Calls -> 0..n]
    BY <1>1, <1>2, RowsAre DEF TypeOK, n
  <2> QED
    BY <1>1, <1>2, <1>3, <2>1 DEF StepOf, TypeOK, Labels, Ended
<1>5. TypeOK'
  <2>1. overtaken' \subseteq Calls
    BY <1>1, <1>2 DEF Writes, TypeOK
  <2> QED
    BY <1>1, <1>2, <1>3, <1>4, <2>1 DEF TypeOK, StepOf, Labels
<1>6. Local(c)'
  BY <1>1, <1>2
  DEF TypeOK, Local, HasPlan, OwnIsLoose, StillPending, StillProposed, Decided,
      StillNone, StillWelcome, Approves
<1>7. c \in overtaken \/ Pending = {}
  BY <1>1 DEF Local, StillNone
<1> QED
  BY <1>1, <1>2, <1>4, <1>5, <1>6, <1>7, InsertKeeps DEF n, Statuses

LEMMA RecordStep ==
    ASSUME Inductive, NEW c \in Calls, Record(c), kind[c] = "auto" PROVE Inductive'
<1> DEFINE n == Len(plans) + 1
<1>1. TypeOK /\ Local(c) /\ pc[c] = "record" /\ n \in Nat
  BY RowsAre DEF Inductive, Record
<1>2. /\ Add(plans, "executed", pct[c]) /\ pct[c] \in Pcts \cup {None}
      /\ fresh' = fresh \cup {n}
      /\ Writes(c)
      /\ pc' = [pc EXCEPT ![c] = "done"]
      /\ UNCHANGED <<traffic, incident, want, advised, turns, shown, kind, id, pct, before, inc,
                     loose>>
  BY <1>1 DEF Record, Goto, TypeOK
<1>3. /\ plans' \in Seq(Plan) /\ Len(plans') = n /\ Ids' = Ids \cup {n}
      /\ applied' \in [Ids' -> Nat]
  BY <1>1, <1>2, AddRow DEF Statuses
<1> HIDE DEF n
<1>4. StepOf(c)
  <2>1. id' \in [Calls -> 0..n]
    BY <1>1, <1>2, RowsAre DEF TypeOK, n
  <2> QED
    BY <1>1, <1>2, <1>3, <2>1 DEF StepOf, TypeOK, Labels, Ended
<1>5. TypeOK'
  <2>1. overtaken' \subseteq Calls
    BY <1>1, <1>2 DEF Writes, TypeOK
  <2> QED
    BY <1>1, <1>2, <1>3, <1>4, <2>1 DEF TypeOK, StepOf, Labels
<1>6. Local(c)'
  BY <1>1, <1>2
  DEF TypeOK, Local, HasPlan, OwnIsLoose, StillPending, StillProposed, Decided,
      StillNone, StillWelcome, Approves
<1> QED
  BY <1>1, <1>2, <1>4, <1>5, <1>6, InsertKeeps DEF Statuses

LEMMA RefreshStep ==
    ASSUME Inductive, NEW c \in Calls, Refresh(c), kind[c] \in {"poll", "agent"}
    PROVE  Inductive'
<1> DEFINE i == RefreshTarget
<1>1. TypeOK /\ Local(c) /\ pc[c] = "refresh"
  BY DEF Inductive, Refresh
<1>2. /\ plans' = IF i = 0 THEN plans ELSE [plans EXCEPT ![i].pct = pct[c]]
      /\ shown' \in {pct[c], shown} /\ pct[c] \in Pcts \cup {None}
      /\ Writes(c)
      /\ pc' = [pc EXCEPT ![c] = "done"]
      /\ UNCHANGED <<traffic, incident, fresh, want, advised, turns, kind, id, pct, before, inc,
                     applied, loose>>
  BY <1>1 DEF Refresh, Goto, Answers, TypeOK
<1>3. i # 0 => i \in Pending
  BY <1>1, NewestTyped, RowsAre DEF RefreshTarget
<1> HIDE DEF i
<1>4. /\ plans' \in Seq(Plan) /\ Len(plans') = Len(plans) /\ Ids' = Ids
      /\ \A j \in Ids : /\ plans'[j].status = plans[j].status
                        /\ j # i => plans'[j].pct = plans[j].pct
  <2>1. CASE i = 0
    BY <1>1, <1>2, <2>1 DEF TypeOK, Ids
  <2>2. CASE i # 0
    <3>1. i \in Ids
      BY <1>1, <1>3, <2>2, RowsAre
    <3>2. plans' = [plans EXCEPT ![i].pct = pct[c]]
      BY <1>2, <2>2
    <3>3. /\ plans' \in Seq(Plan) /\ Len(plans') = Len(plans) /\ Ids' = Ids
          /\ \A j \in Ids : /\ plans'[j].status = plans[j].status
                            /\ plans'[j].pct = IF j = i THEN pct[c] ELSE plans[j].pct
      BY <1>1, <1>2, <3>1, <3>2, SetPct
    <3> QED
      BY <3>3
  <2> QED
    BY <2>1, <2>2
<1>5. Pending' = Pending /\ \A j \in Ids \ Pending : plans'[j].pct = plans[j].pct
  <2>1. 0 \notin Ids
    BY <1>1, RowsAre
  <2> QED
    BY <1>3, <1>4, <2>1 DEF Pending
<1>6. StepOf(c)
  BY <1>1, <1>2, <1>4 DEF StepOf, TypeOK, Labels, Ended
<1>7. /\ overtaken \subseteq overtaken' /\ overtaken' \subseteq Calls
      /\ \A d \in Calls \ {c} : Local(d)'
  BY <1>2, <1>4, <1>5, <1>6, OthersKeep
<1>8. TypeOK'
  BY <1>1, <1>2, <1>4, <1>6, <1>7 DEF TypeOK, StepOf, Labels
<1>9. Local(c)'
  BY <1>1, <1>2
  DEF TypeOK, Local, HasPlan, OwnIsLoose, StillPending, StillProposed, Decided,
      StillNone, StillWelcome, Approves
<1>10. \A d \in Calls, j \in Ids : Closing(d, j) => Closing(d, j)'
  BY <1>1, <1>6 DEF Closing, StepOf
<1>11. Applications'
  BY <1>2, <1>4, <1>5, <1>7, <1>10 DEF Inductive, Applications
<1>12. OneWaits'
  BY <1>2, <1>5 DEF Inductive, OneWaits
<1> QED
  BY <1>7, <1>8, <1>9, <1>11, <1>12 DEF Inductive

-----------------------------------------------------------------------------
LEMMA InitInductive == Init => Inductive
<1> SUFFICES ASSUME Init PROVE Inductive
  OBVIOUS
<1>1. /\ Ids = {} /\ Pending = {} /\ Len(plans) = 0 /\ plans \in Seq(Plan)
      /\ \A c \in Calls : pc[c] = "idle" /\ id[c] = 0 /\ before[c] = None
  BY DEF Init, Ids, Pending
<1>2. TypeOK
  <2>1. incident \in [id : 0..MaxIncidents, open : BOOLEAN] /\ turns \in 0..Turns
    <3>1. MaxIncidents \in Nat /\ Turns \in Nat
      BY ValuesAssumption
    <3> QED
      BY <3>1 DEF Init
  <2>2. applied \in [Ids -> Nat]
    BY <1>1 DEF Init
  <2>3. inc \in [Calls -> 0..MaxIncidents] /\ id \in [Calls -> 0..Len(plans)]
    BY <1>1, <2>1, ValuesAssumption DEF Init
  <2> QED
    BY <1>1, <2>1, <2>2, <2>3 DEF Init, TypeOK, Ended
<1>3. \A c \in Calls : Local(c)
  BY <1>1
  DEF Local, HasPlan, OwnIsLoose, StillPending, StillProposed, Decided, StillNone, StillWelcome
<1>4. Applications /\ OneWaits
  BY <1>1 DEF Applications, OneWaits
<1> QED
  BY <1>2, <1>3, <1>4 DEF Inductive

LEMMA NextInductive == Inductive /\ [Next]_vars => Inductive'
<1> SUFFICES ASSUME Inductive, [Next]_vars PROVE Inductive'
  OBVIOUS
<1>1. CASE UNCHANGED vars
  BY <1>1
  DEF vars, callVars, history, Inductive, TypeOK, Local, HasPlan, OwnIsLoose, StillPending,
      StillProposed, Decided, StillNone, StillWelcome, Approves, Applications, OneWaits,
      Closing, Pending, Ids, SuppressedByReject
<1>2. CASE World
  BY <1>2, WorldStep
<1>3. ASSUME NEW c \in Calls, Step(c)
      PROVE  Inductive'
  <2>1. CASE \/ handleRoutingPlanApprove(c) \/ handleRoutingPlanReject(c)
             \/ chatApproveRoutingPlan(c) \/ chatRejectRoutingPlan(c)
    BY <2>1, DecideStep, LoadStep, FindIncidentStep, RouteStep, CloseStep, AcknowledgeStep
    DEF handleRoutingPlanApprove, handleRoutingPlanReject, chatApproveRoutingPlan,
        chatRejectRoutingPlan
  <2>2. CASE handleScopeRoutingApprove(c) \/ handleScopeRoutingReject(c)
    BY <2>2, DecideStep, FindIncidentStep, InsertOwnStep, RouteStep, CloseStep, AcknowledgeStep
    DEF handleScopeRoutingApprove, handleScopeRoutingReject
  <2>3. CASE routingPlanResponse(c) \/ emitOutputs(c)
    BY <2>3, CheckStep, RefreshStep, InsertProposalStep, AnswerStep
    DEF routingPlanResponse, emitOutputs
  <2>4. CASE Propose(c) \/ applyRoutingPlanAuto(c) \/ Lost(c)
    BY <2>4, ProposeStep, FindIncidentStep, RouteStep, RecordStep, LostStep
    DEF applyRoutingPlanAuto
  <2> QED
    BY <1>3, <2>1, <2>2, <2>3, <2>4 DEF Step
<1> QED
  BY <1>1, <1>2, <1>3 DEF Next

LEMMA SpecInductive == Spec => []Inductive
BY InitInductive, NextInductive, PTL DEF Spec

\* The tables of plans and incidents and the calls on them stay well formed.
THEOREM TypeCorrect == Spec => []TypeOK
<1>1. Inductive => TypeOK
  BY DEF Inductive
<1> QED
  BY <1>1, SpecInductive, PTL

\* HasPendingRoutingPlan and UpdatePendingRoutingPlanForScope keep one plan of
\* the scope waiting, whatever is decided meanwhile.
THEOREM OneWaiting == Spec => []OnePendingPlan
<1>1. Inductive => OnePendingPlan
  <2> SUFFICES ASSUME OneWaits PROVE Cardinality(Pending \ loose) <= 1
    BY DEF Inductive, OnePendingPlan
  <2>1. CASE Pending \ loose = {}
    BY <2>1, FS_EmptySet
  <2>2. CASE Pending \ loose # {}
    <3>1. PICK i \in Pending \ loose : TRUE
      BY <2>2
    <3>2. Pending \ loose = {i}
      BY <3>1 DEF OneWaits
    <3>3. Cardinality({i}) = 1
      BY FS_Singleton
    <3> QED
      BY <3>2, <3>3
  <2> QED
    BY <2>1, <2>2
<1> QED
  BY <1>1, SpecInductive, PTL

\* Nobody puts the percentages of a plan in force a second time on his own.
THEOREM AppliedAtMostOnce == Spec => []AppliedOnce
<1>1. Inductive => AppliedOnce
  BY DEF Inductive, Applications, AppliedOnce, Closing, InFlight, Ended
<1> QED
  BY <1>1, SpecInductive, PTL

\* The row of an executed plan is what its approver saw.
THEOREM ApprovedIsKept == Spec => []KeepsWhatWasApproved
<1>1. Inductive => KeepsWhatWasApproved
  BY DEF Inductive, Local, StillProposed, Approves, KeepsWhatWasApproved
<1> QED
  BY <1>1, SpecInductive, PTL

-----------------------------------------------------------------------------
(* Action properties.                                                      *)

\* Of all steps only these four kinds write a plan.
LEMMA WritersOfPlans ==
    ASSUME Inductive, NEW c \in Calls, Step(c), plans' # plans
    PROVE  \/ \E st \in Statuses, p \in Pcts \cup {None} : Add(plans, st, p)
           \/ Refresh(c)
           \/ Close(c) /\ kind[c] \in {"approve", "chat_approve", "apply", "reject", "chat_reject"}
<1>1. pct[c] \in Pcts \cup {None}
  BY DEF Inductive, TypeOK
<1>2. ASSUME InsertOwn(c)
      PROVE  \E st \in Statuses, p \in Pcts \cup {None} : Add(plans, st, p)
  BY <1>1, <1>2 DEF InsertOwn, CancelPending, Statuses
<1>3. ASSUME InsertProposal(c) \/ Record(c)
      PROVE  \E st \in Statuses, p \in Pcts \cup {None} : Add(plans, st, p)
  BY <1>1, <1>3 DEF InsertProposal, Record, Statuses
<1>4. ~(Decide(c) \/ Load(c) \/ FindIncident(c) \/ Route(c) \/ Acknowledge(c) \/ Lost(c))
  BY DEF Decide, Load, FindIncident, Route, Acknowledge, Lost
<1>5. ~(CheckRejected(c) \/ CheckExecuted(c) \/ CheckPending(c) \/ Answer(c) \/ Fallback(c))
  BY DEF CheckRejected, CheckExecuted, CheckPending, Check, Answer, Fallback, CancelPending
<1>6. ~Propose(c)
  BY DEF Propose, Poll, Cycle, AutoApply, List, Prune, CancelPending
<1> QED
  BY <1>2, <1>3, <1>4, <1>5, <1>6
  DEF Step, handleRoutingPlanApprove, handleRoutingPlanReject, chatApproveRoutingPlan,
      chatRejectRoutingPlan, handleScopeRoutingApprove, handleScopeRoutingReject,
      routingPlanResponse, emitOutputs, applyRoutingPlanAuto

\* Only Close changes the status of a plan, and an approver whom nobody has
\* overtaken closes a pending one: a rejected plan is not executed after all.
THEOREM RejectionIsFinal == Spec => RejectedForGood
<1>1. ASSUME Inductive, [Next]_vars,
             NEW i \in Ids, plans[i].status = "rejected", i \notin loose'
      PROVE  plans'[i].status = "rejected"
  <2> SUFFICES ASSUME plans' # plans PROVE plans'[i].status = "rejected"
    BY <1>1
  <2>1. PICK c \in Calls : Step(c)
    BY <1>1 DEF vars, Next, World
  <2>2. TypeOK /\ Local(c)
    BY <1>1 DEF Inductive
  <2>3. ASSUME NEW st \in Statuses, NEW p \in Pcts \cup {None}, Add(plans, st, p)
        PROVE  plans'[i].status = "rejected"
    BY <1>1, <2>2, <2>3, AddRow
  <2>4. CASE Refresh(c)
    <3>1. CASE RefreshTarget = 0
      BY <1>1, <2>4, <3>1 DEF Refresh
    <3>2. CASE RefreshTarget # 0
      <4>1. RefreshTarget \in Ids
        BY <2>2, <3>2, NewestTyped, RowsAre DEF RefreshTarget
      <4>2. plans' = [plans EXCEPT ![RefreshTarget].pct = pct[c]] /\ pct[c] \in Pcts \cup {None}
        BY <2>2, <2>4, <3>2 DEF Refresh, TypeOK
      <4> QED
        BY <1>1, <2>2, <4>1, <4>2, SetPct
    <3> QED
      BY <3>1, <3>2
  <2>5. CASE /\ Close(c)
             /\ kind[c] \in {"approve", "chat_approve", "apply", "reject", "chat_reject"}
    <3> DEFINE st == IF kind[c] \in {"reject", "chat_reject"} THEN "rejected" ELSE "executed"
    <3>1. /\ pc[c] = "close"
          /\ plans' = [plans EXCEPT ![id[c]].status = st]
          /\ loose' = IF c \in overtaken THEN loose \cup {id[c]} ELSE loose
      BY <2>5 DEF Close, Settle
    <3>2. id[c] \in Ids /\ st \in Statuses
      BY <2>2, <3>1 DEF Local, HasPlan, Statuses
    <3>3. plans'[i].status = IF i = id[c] THEN st ELSE plans[i].status
      <4> HIDE DEF st
      <4>1. /\ plans' \in Seq(Plan) /\ Len(plans') = Len(plans) /\ Ids' = Ids
            /\ \A j \in Ids : /\ plans'[j].pct = plans[j].pct
                              /\ plans'[j].status = IF j = id[c] THEN st ELSE plans[j].status
        BY <2>2, <3>1, <3>2, SetStatus
      <4> QED
        BY <1>1, <4>1
    <3>4. CASE i = id[c]
      <4>1. c \notin overtaken /\ i \notin loose
        BY <1>1, <3>1, <3>4
      <4>2. ~Approves(c) /\ kind[c] # "apply"
        BY <1>1, <2>2, <3>1, <3>4, <4>1 DEF Local, StillPending, OwnIsLoose, Pending
      <4>3. kind[c] \in {"reject", "chat_reject"}
        BY <2>5, <4>2 DEF Approves
      <4> QED
        BY <3>3, <3>4, <4>3
    <3>5. CASE i # id[c]
      BY <1>1, <3>3, <3>5
    <3> QED
      BY <3>4, <3>5
  <2> QED
    BY <1>1, <2>1, <2>3, <2>4, <2>5, WritersOfPlans
<1>2. Inductive /\ [Next]_vars =>
        [\A i \in Ids : plans[i].status = "rejected" /\ i \notin loose'
           => plans'[i].status = "rejected"]_vars
  BY <1>1
<1> QED
  BY <1>2, SpecInductive, PTL DEF Spec, RejectedForGood

\* A step is a step of one call.
LEMMA StepMovesOne ==
    ASSUME TypeOK, NEW d \in Calls, Step(d), NEW c \in Calls, c # d
    PROVE  pc'[c] = pc[c]
<1>0. pc = [e \in Calls |-> pc[e]]
  BY DEF TypeOK
<1>1. ASSUME Decide(d) \/ Propose(d) PROVE pc'[c] = pc[c]
  BY <1>0, <1>1 DEF Decide, ByAnyId, ByScope, ByPct, Propose, Poll, Cycle, AutoApply, List, Goto
<1>2. ASSUME Load(d) \/ FindIncident(d) \/ InsertOwn(d) \/ Route(d) \/ Close(d) \/ Acknowledge(d)
      PROVE  pc'[c] = pc[c]
  BY <1>0, <1>2 DEF Load, FindIncident, InsertOwn, Route, Close, Acknowledge, Goto
<1>3. ASSUME CheckRejected(d) \/ CheckExecuted(d) \/ CheckPending(d)
      PROVE  pc'[c] = pc[c]
  BY <1>0, <1>3 DEF CheckRejected, CheckExecuted, CheckPending, Check, Goto
<1>4. ASSUME Refresh(d) \/ InsertProposal(d) \/ Answer(d) \/ Fallback(d) \/ Record(d) \/ Lost(d)
      PROVE  pc'[c] = pc[c]
  BY <1>0, <1>4 DEF Refresh, InsertProposal, Answer, Fallback, Record, Lost, Goto
<1> QED
  BY <1>1, <1>2, <1>3, <1>4
  DEF Step, handleRoutingPlanApprove, handleRoutingPlanReject, chatApproveRoutingPlan,
      chatRejectRoutingPlan, handleScopeRoutingApprove, handleScopeRoutingReject,
      routingPlanResponse, emitOutputs, applyRoutingPlanAuto

\* What a poll ends by showing, as the last statement of routingPlanResponse.
LEMMA PollShows ==
    ASSUME Inductive, NEW c \in Calls, Step(c), kind[c] = "poll", pc[c] # "done",
           pc'[c] = "done", c \notin overtaken, shown' # None
    PROVE  ~NewestIsRejected(shown')
<1>1. TypeOK /\ Local(c)
  BY DEF Inductive
<1>2. Propose(c) \/ routingPlanResponse(c) \/ Lost(c)
  BY DEF Step, handleRoutingPlanApprove, handleRoutingPlanReject, chatApproveRoutingPlan,
         chatRejectRoutingPlan, handleScopeRoutingApprove, handleScopeRoutingReject,
         emitOutputs, applyRoutingPlanAuto
<1>3. ~Lost(c)
  BY <1>1 DEF Lost, Goto, TypeOK
<1>4. ~Propose(c)
  <2>1. Propose(c) => Poll(c)
    BY DEF Propose, Cycle, AutoApply, List
  <2>2. Poll(c) => pc'[c] = "rejected?" \/ shown' = None
    BY <1>1 DEF Poll, Goto, TypeOK
  <2> QED
    BY <2>1, <2>2
<1>5. ~(CheckRejected(c) \/ CheckExecuted(c) \/ CheckPending(c))
  BY <1>1 DEF CheckRejected, CheckExecuted, CheckPending, Check, Goto, TypeOK
<1>6. CASE Answer(c)
  BY <1>1, <1>6 DEF Answer, Answers, Local, StillWelcome, SuppressedByReject, NewestIsRejected
<1>7. CASE Fallback(c)
  BY <1>1, <1>7
  DEF Fallback, CancelPending, Local, HasPlan, SuppressedByReject, NewestIsRejected
<1>8. CASE InsertProposal(c)
  <2>1. Add(plans, "pending", pct[c]) /\ pct[c] \in Pcts \cup {None}
    BY <1>1, <1>8 DEF InsertProposal, TypeOK
  <2>2. /\ Len(plans') = Len(plans) + 1
        /\ plans'[Len(plans) + 1] = [status |-> "pending", pct |-> pct[c]]
    BY <1>1, <2>1, AddRow DEF Statuses
  <2> QED
    BY <2>2 DEF NewestIsRejected
<1>9. CASE Refresh(c)
  <2>1. /\ shown' = pct[c] /\ pct[c] \in Pcts \cup {None}
        /\ plans' = IF RefreshTarget = 0 THEN plans
                    ELSE [plans EXCEPT ![RefreshTarget].pct = pct[c]]
    BY <1>1, <1>9 DEF Refresh, Answers, TypeOK
  <2>2. ~SuppressedByReject(pct[c])
    BY <1>1, <1>9 DEF Refresh, Local, StillWelcome
  <2>3. CASE RefreshTarget = 0
    BY <2>1, <2>2, <2>3 DEF NewestIsRejected, SuppressedByReject
  <2>4. CASE RefreshTarget # 0
    <3> DEFINE last == Len(plans)
    <3>1. RefreshTarget \in Ids /\ plans[RefreshTarget].status = "pending"
      BY <1>1, <2>4, NewestTyped, RowsAre DEF RefreshTarget, Pending
    <3>2. plans' = [plans EXCEPT ![RefreshTarget].pct = pct[c]]
      BY <2>1, <2>4
    <3>3. last \in Ids /\ plans # <<>>
      BY <1>1, <3>1, RowsAre
    <3>4. /\ Len(plans') = last /\ plans'[last].status = plans[last].status
          /\ last # RefreshTarget => plans'[last].pct = plans[last].pct
      BY <1>1, <2>1, <3>1, <3>2, <3>3, SetPct
    <3> QED
      BY <2>1, <2>2, <3>1, <3>3, <3>4 DEF NewestIsRejected, SuppressedByReject
  <2> QED
    BY <2>3, <2>4
<1> QED
  BY <1>2, <1>3, <1>4, <1>5, <1>6, <1>7, <1>8, <1>9 DEF routingPlanResponse

\* The proposal that was rejected last is not what a poll ends by showing.
THEOREM RejectedIsHidden == Spec => RejectedStaysHidden
<1>1. ASSUME Inductive, [Next]_vars, NEW c \in Calls,
             kind[c] = "poll", pc[c] # "done", pc'[c] = "done", c \notin overtaken, shown' # None
      PROVE  ~NewestIsRejected(shown')
  <2>1. pc' # pc
    BY <1>1
  <2>2. PICK d \in Calls : Step(d)
    BY <1>1, <2>1 DEF vars, callVars, Next, World
  <2>3. d = c
    BY <1>1, <2>2, StepMovesOne DEF Inductive
  <2> QED
    BY <1>1, <2>2, <2>3, PollShows
<1>2. Inductive /\ [Next]_vars =>
        [\A c \in Calls :
           kind[c] = "poll" /\ pc[c] # "done" /\ pc'[c] = "done" /\ c \notin overtaken
             /\ shown' # None
           => ~NewestIsRejected(shown')]_vars
  BY <1>1
<1> QED
  BY <1>2, SpecInductive, PTL DEF Spec, RejectedStaysHidden

-----------------------------------------------------------------------------
(***************************************************************************)
(* The refinement.  What a call writes overtakes every other call that is  *)
(* about to close a plan, so after it a plan is loose or nobody else is    *)
(* deciding it (AfterWrite): what is left is the part of the call itself.  *)
(* A step that writes nothing may only bring plans loose (NoWrite).        *)
(***************************************************************************)

\* What Load accepted, and that nobody proposes or sends nothing.
Chosen(c) ==
    /\ Approves(c) /\ pc[c] \in {"find", "route"} => pct[c] \in ({before[c]} \cup Edits) \ {None}
    /\ kind[c] \in Proposing \cup {"apply", "dismiss"} /\ kind[c] # "list" /\ InFlight(c)
         => pct[c] # None

\* Three operations choose percentages; every other step leaves them.
LEMMA ChosenKept ==
    ASSUME UNCHANGED <<kind, pct, before>>, NEW d \in Calls, Chosen(d),
           InFlight(d)' => InFlight(d),
           pc'[d] \in {"find", "route"} => pc[d] \in {"find", "route"}
    PROVE  Chosen(d)'
BY DEF Chosen, Approves

LEMMA NextChosen ==
    Inductive /\ (\A c \in Calls : Chosen(c)) /\ [Next]_vars => (\A c \in Calls : Chosen(c))'
<1> SUFFICES ASSUME Inductive, \A c \in Calls : Chosen(c), [Next]_vars, NEW d \in Calls
             PROVE  Chosen(d)'
  OBVIOUS
<1>1. TypeOK /\ pc = [e \in Calls |-> pc[e]]
  BY DEF Inductive, TypeOK
<1>2. CASE World \/ UNCHANGED vars
  BY <1>2, ChosenKept DEF World, vars, callVars, InFlight
<1>3. ASSUME NEW c \in Calls, Step(c)
      PROVE  Chosen(d)'
  <2>1. CASE c # d /\ Step(c)
    <3>1. pc'[d] = pc[d]
      BY <1>1, <2>1, StepMovesOne
    <3>2. pct'[d] = pct[d] /\ before'[d] = before[d] /\ kind' = kind
      <4>1. CASE Decide(c) \/ Load(c) \/ Propose(c)
        BY <1>1, <2>1, <4>1
        DEF TypeOK, Decide, ByAnyId, ByScope, ByPct, Load, Propose, Poll, Cycle, AutoApply, List
      <4>2. CASE ~(Decide(c) \/ Load(c) \/ Propose(c))
        <5>1. UNCHANGED <<kind, pct, before>>
          BY <1>3, <4>2
          DEF Step, handleRoutingPlanApprove, handleRoutingPlanReject, chatApproveRoutingPlan,
              chatRejectRoutingPlan, handleScopeRoutingApprove, handleScopeRoutingReject,
              routingPlanResponse, emitOutputs, applyRoutingPlanAuto, FindIncident, InsertOwn,
              Route, Close, Acknowledge, CheckRejected, CheckExecuted, CheckPending, Check,
              Refresh, InsertProposal, Answer, Fallback, Record, Lost
        <5> QED
          BY <5>1
      <4> QED
        BY <4>1, <4>2
    <3> QED
      BY <3>1, <3>2 DEF Chosen, Approves, InFlight
  <2>2. CASE c = d /\ Decide(d)
    <3>1. ~Approves(d) \/ pc'[d] \in {"load", "failed"}
      BY <1>1, <2>2 DEF Decide, ByAnyId, ByScope, ByPct, Goto, Approves
    <3>2. kind[d] \in {"apply", "dismiss"} => pct'[d] # None
      BY <2>2, ValuesAssumption DEF Decide, ByAnyId, ByScope, ByPct, Inductive, TypeOK
    <3>3. kind' = kind /\ kind[d] \in Deciding
      BY <2>2 DEF Decide, ByAnyId, ByScope, ByPct, Deciding
    <3> QED
      BY <3>1, <3>2, <3>3 DEF Chosen, Approves, Proposing, Deciding
  <2>3. CASE c = d /\ Load(d) /\ kind[d] \in {"approve", "chat_approve", "chat_reject"}
    <3>1. PICK p \in {plans[id[d]].pct} \cup (IF kind[d] = "chat_reject" THEN {} ELSE Edits),
               l \in {"failed", "close", "find"} :
            /\ pc' = [pc EXCEPT ![d] = l]
            /\ pct' = [pct EXCEPT ![d] = p]
            /\ l = "find" => kind[d] # "chat_reject" /\ p # None
      BY <2>3, Zenon DEF Load, Goto
    <3>2. before' = [before EXCEPT ![d] = plans[id[d]].pct] /\ kind' = kind
      BY <2>3 DEF Load
    <3> QED
      BY <1>1, <2>3, <3>1, <3>2 DEF Chosen, Approves, Proposing, TypeOK
  <2>4. CASE c = d /\ Propose(d)
    <3>1. kind' = kind /\ kind[d] \in Proposing
      BY <2>4 DEF Propose, Poll, Cycle, AutoApply, List, Proposing
    <3>2. kind[d] # "list" => pct'[d] = want
      BY <1>1, <2>4 DEF Propose, Poll, Cycle, AutoApply, List, TypeOK
    <3>3. want = None /\ kind[d] # "list" => ~InFlight(d)'
      BY <1>1, <2>4 DEF Propose, Poll, Cycle, AutoApply, List, Goto, InFlight, Ended
    <3> QED
      BY <3>1, <3>2, <3>3 DEF Chosen, Approves, Proposing
  <2>5. CASE /\ c = d /\ ~Decide(d) /\ ~Propose(d)
             /\ ~(Load(d) /\ kind[d] \in {"approve", "chat_approve", "chat_reject"})
    <3>1. \/ FindIncident(d) \/ InsertOwn(d) \/ Close(d) \/ Acknowledge(d)
          \/ Route(d) /\ kind[d] \in {"approve", "chat_approve", "apply", "auto"}
          \/ CheckRejected(d) \/ CheckExecuted(d) \/ CheckPending(d) \/ Refresh(d)
          \/ InsertProposal(d) \/ Answer(d) \/ Fallback(d) \/ Record(d) \/ Lost(d)
      BY <1>3, <2>5
      DEF Step, handleRoutingPlanApprove, handleRoutingPlanReject, chatApproveRoutingPlan,
          chatRejectRoutingPlan, handleScopeRoutingApprove, handleScopeRoutingReject,
          routingPlanResponse, emitOutputs, applyRoutingPlanAuto
    <3>2. UNCHANGED <<kind, pct, before>> /\ InFlight(d)
      BY <3>1
      DEF FindIncident, InsertOwn, Route, Close, Acknowledge, CheckRejected, CheckExecuted,
          CheckPending, Check, Refresh, InsertProposal, Answer, Fallback, Record, Lost,
          InFlight, Ended
    <3>3. Approves(d) /\ pc'[d] \in {"find", "route"} => pc[d] \in {"find", "route"}
      BY <1>1, <3>1
      DEF FindIncident, InsertOwn, Route, Close, Acknowledge, CheckRejected, CheckExecuted,
          CheckPending, Check, Refresh, InsertProposal, Answer, Fallback, Record, Lost, Goto,
          Approves
    <3> QED
      BY <3>2, <3>3 DEF Chosen, Approves
  <2> QED
    BY <1>3, <2>1, <2>2, <2>3, <2>4, <2>5
<1> QED
  BY <1>2, <1>3 DEF Next

LooseRow == [status |-> "loose", pct |-> None]

Executed(row) == [row EXCEPT !.status = "executed"]

\* The plans as a reader of AtomicPlans sees them.
Seen == [i \in Ids |-> Mapped(i)]

LEMMA SeenRows ==
    ASSUME TypeOK
    PROVE  /\ Len(plans) \in Nat /\ Ids = 1..Len(plans)
           /\ \A i \in Ids : Mapped(i) \in [status : Statuses \cup {"loose"}, pct : Pcts \cup {None}]
           /\ \A i \in Ids : Executed(plans[i]) = [status |-> "executed", pct |-> plans[i].pct]
<1>1. Len(plans) \in Nat /\ Ids = 1..Len(plans) /\ \A i \in Ids : plans[i] \in Plan
  BY RowsAre
<1>2. \A row \in Plan : /\ Executed(row) = [status |-> "executed", pct |-> row.pct]
                        /\ Executed(row) \in Plan
  BY DEF Plan, Statuses, Executed
<1>3. \A i \in Ids : Mapped(i) = LooseRow \/ Mapped(i) = Executed(plans[i]) \/ Mapped(i) = plans[i]
  BY DEF Mapped, LooseRow, Executed
<1>4. \A row : row = LooseRow \/ row \in Plan
               => row \in [status : Statuses \cup {"loose"}, pct : Pcts \cup {None}]
  BY DEF LooseRow, Plan
<1> QED
  BY <1>1, <1>2, <1>3, <1>4

\* Every plan that is not as next has it has come loose.
LEMMA Becomes ==
    ASSUME NEW next, DOMAIN next = Ids', \A i \in Ids' : Mapped(i)' = LooseRow \/ Mapped(i)' = next[i]
    PROVE  Atomic!Become(next)
<1> DEFINE after == [i \in Ids |-> Mapped(i)]'
<1>1. after = [i \in DOMAIN next |-> IF Mapped(i)' = LooseRow THEN LooseRow ELSE next[i]]
  OBVIOUS
<1>2. \A i \in DOMAIN next : after[i] = Mapped(i)'
  OBVIOUS
<1>3. /\ DOMAIN after = DOMAIN next
      /\ after = [i \in DOMAIN next |-> IF after[i] = LooseRow THEN LooseRow ELSE next[i]]
  BY <1>1, <1>2
<1> QED
  BY <1>3 DEF Atomic!Become, Atomic!Loose, LooseRow

\* Nothing is written, and nobody begins to close a plan he approves.
LEMMA NoWrite ==
    ASSUME TypeOK, UNCHANGED <<plans, traffic, kind>>,
           loose \subseteq loose', overtaken \subseteq overtaken',
           overtaken' \subseteq Calls,
           \A d \in Calls, i \in Ids : Closing(d, i) => Closing(d, i)' \/ i \in loose',
           \A d \in Calls, i \in Ids : Approves(d) /\ Closing(d, i)' => Closing(d, i)
    PROVE  Atomic!Overlap
<1>1. Ids' = Ids /\ \A d \in Calls : Approves(d)' <=> Approves(d)
  BY DEF Ids, Approves
<1>2. ASSUME NEW i \in Ids
      PROVE  Mapped(i)' = LooseRow \/ Mapped(i)' = Mapped(i)
  <2>1. CASE ComesLoose(i)'
    BY <2>1 DEF Mapped, LooseRow
  <2>2. CASE ~ComesLoose(i)'
    <3>1. i \notin loose' /\ \A d \in overtaken' : ~Closing(d, i)'
      BY <2>2 DEF ComesLoose
    <3>2. ~ComesLoose(i)
      BY <3>1 DEF ComesLoose
    <3>3. (\E d \in Calls : Approves(d) /\ Closing(d, i))' <=> \E d \in Calls : Approves(d) /\ Closing(d, i)
      BY <1>1, <3>1
    <3> QED
      BY <2>2, <3>2, <3>3 DEF Mapped
  <2> QED
    BY <2>1, <2>2
<1>3. DOMAIN Seen = Ids' /\ \A i \in Ids' : Seen[i] = Mapped(i)
  BY <1>1 DEF Seen
<1>4. Atomic!Become(Seen)
  BY <1>1, <1>2, <1>3, Becomes
<1> QED
  BY <1>4 DEF Atomic!Overlap, Seen

\* After a write by c a plan is loose, or c alone may be closing it.
LEMMA AfterWrite ==
    ASSUME TypeOK, NEW c \in Calls, Writes(c), StepOf(c), loose \subseteq loose', NEW i \in Ids',
           i \in Ids /\ Closing(c, i) /\ c \in overtaken => i \in loose'
    PROVE  \/ Mapped(i)' = LooseRow
           \/ /\ i \notin loose' /\ ~(Closing(c, i)' /\ c \in overtaken)
              /\ Mapped(i)' = IF Approves(c) /\ Closing(c, i)' THEN Executed(plans'[i]) ELSE plans'[i]
              /\ i \in Ids => /\ \A d \in Calls \ {c} : ~Closing(d, i)
                              /\ Mapped(i) = IF Approves(c) /\ Closing(c, i)
                                             THEN Executed(plans[i]) ELSE plans[i]
<1> SUFFICES ASSUME ~ComesLoose(i)'
             PROVE  /\ i \notin loose' /\ ~(Closing(c, i)' /\ c \in overtaken)
                    /\ Mapped(i)' = IF Approves(c) /\ Closing(c, i)' THEN Executed(plans'[i]) ELSE plans'[i]
                    /\ i \in Ids => /\ \A d \in Calls \ {c} : ~Closing(d, i)
                                    /\ Mapped(i) = IF Approves(c) /\ Closing(c, i)
                                                   THEN Executed(plans[i]) ELSE plans[i]
  BY DEF Mapped, LooseRow
<1>1. i \notin loose' /\ \A d \in overtaken' : ~Closing(d, i)'
  BY DEF ComesLoose
<1>2. /\ overtaken' = overtaken \cup {d \in Calls \ {c} : InFlight(d)}
      /\ overtaken \subseteq Calls
  BY DEF Writes, TypeOK
<1>3. \A d \in Calls \ {c} : Closing(d, i)' <=> Closing(d, i)
  BY DEF StepOf, Closing
<1>4. \A d \in Calls \ {c} : ~Closing(d, i)
  BY <1>1, <1>2, <1>3 DEF Closing, InFlight, Ended
<1>5. \A d \in Calls : Approves(d)' <=> Approves(d)
  BY DEF StepOf, Approves
<1>6. Mapped(i)' = IF Approves(c) /\ Closing(c, i)' THEN Executed(plans'[i]) ELSE plans'[i]
  <2>1. (\E d \in Calls : Approves(d) /\ Closing(d, i))' <=> Approves(c) /\ Closing(c, i)'
    BY <1>3, <1>4, <1>5
  <2> QED
    BY <2>1 DEF Mapped, Executed
<1>7. ASSUME i \in Ids
      PROVE  Mapped(i) = IF Approves(c) /\ Closing(c, i) THEN Executed(plans[i]) ELSE plans[i]
  <2>1. ~ComesLoose(i)
    BY <1>1, <1>2, <1>4, <1>7 DEF ComesLoose
  <2>2. (\E d \in Calls : Approves(d) /\ Closing(d, i)) <=> Approves(c) /\ Closing(c, i)
    BY <1>4
  <2> QED
    BY <2>1, <2>2 DEF Mapped, Executed
<1> QED
  BY <1>1, <1>2, <1>4, <1>6, <1>7

\* The steps that write neither plans nor percentages.
LEMMA QuietRefines ==
    ASSUME Inductive, NEW c \in Calls, Step(c),
           ~(InsertOwn(c) \/ InsertProposal(c) \/ Record(c)),
           ~(Refresh(c) /\ kind[c] \in {"poll", "agent"}),
           ~(Route(c) /\ kind[c] \in {"approve", "chat_approve", "apply", "auto"}),
           ~(Close(c) /\ kind[c] \in {"approve", "chat_approve", "apply", "reject", "chat_reject"})
    PROVE  Atomic!Overlap
<1>1. TypeOK /\ pc = [e \in Calls |-> pc[e]]
  BY DEF Inductive, TypeOK
<1>2. \/ Load(c) /\ kind[c] \in {"approve", "chat_approve", "chat_reject"}
      \/ Decide(c) \/ FindIncident(c) \/ Acknowledge(c) \/ Propose(c) \/ Lost(c)
      \/ CheckRejected(c) \/ CheckExecuted(c) \/ CheckPending(c) \/ Answer(c) \/ Fallback(c)
  BY DEF Step, handleRoutingPlanApprove, handleRoutingPlanReject, chatApproveRoutingPlan,
         chatRejectRoutingPlan, handleScopeRoutingApprove, handleScopeRoutingReject,
         routingPlanResponse, emitOutputs, applyRoutingPlanAuto
<1>3. /\ UNCHANGED <<plans, traffic, kind, overtaken>>
      /\ loose' # loose => pc[c] = "close" /\ loose' = loose \cup {id[c]}
  BY <1>2
  DEF Decide, Load, FindIncident, Acknowledge, Propose, Poll, Cycle, AutoApply, List, Prune,
      CancelPending, CheckRejected, CheckExecuted, CheckPending, Check, Answer, Fallback, Lost,
      history
<1>4. ASSUME NEW d \in Calls \ {c}, NEW i \in Ids
      PROVE  Closing(d, i)' <=> Closing(d, i)
  <2>1. pc'[d] = pc[d]
    BY <1>1, StepMovesOne
  <2>2. id'[d] = id[d]
    BY <1>1, <1>2
    DEF TypeOK, Decide, ByAnyId, ByScope, ByPct, Load, FindIncident, Acknowledge, Propose, Poll,
        Cycle, AutoApply, List, CheckRejected, CheckExecuted, CheckPending, Check, Answer,
        Fallback, Lost
  <2> QED
    BY <2>1, <2>2 DEF Closing
<1>5. pc[c] = "close" => loose' = loose \cup {id[c]}
  BY <1>2
  DEF Decide, Load, FindIncident, Acknowledge, Propose, CheckRejected, CheckExecuted,
      CheckPending, Check, Answer, Fallback, Lost
<1>6. Approves(c) => pc'[c] # "close"
  BY <1>1, <1>2
  DEF Approves, Decide, ByAnyId, ByScope, ByPct, Load, FindIncident, Acknowledge, Propose, Poll,
      Cycle, AutoApply, List, CheckRejected, CheckExecuted, CheckPending, Check, Answer,
      Fallback, Lost, Goto
<1> QED
  BY <1>1, <1>3, <1>4, <1>5, <1>6, NoWrite DEF TypeOK, Closing

LEMMA AppendIs ==
    ASSUME NEW n \in Nat, NEW T, NEW rows \in [1..n -> T], NEW row
    PROVE  /\ DOMAIN Append(rows, row) = 1..(n + 1)
           /\ \A i \in 1..n : Append(rows, row)[i] = rows[i]
           /\ Append(rows, row)[n + 1] = row
<1>1. rows \in Seq(T \cup {row}) /\ Len(rows) = n /\ row \in T \cup {row}
  BY LenProperties DEF Seq
<1> QED
  BY <1>1

\* The row that is inserted is seen as it is, or loose.
LEMMA InsertRefines ==
    ASSUME Inductive, NEW c \in Calls, pc[c] # "close", pc'[c] # "close", Writes(c), StepOf(c),
           NEW st \in Statuses, NEW p \in Pcts \cup {None}, Add(plans, st, p),
           loose \subseteq loose', NEW row,
           \/ row = LooseRow /\ Len(plans) + 1 \in loose'
           \/ row = [status |-> st, pct |-> p]
    PROVE  Atomic!Become(Append(Seen, row))
<1> DEFINE n == Len(plans)
           T == [status : Statuses \cup {"loose"}, pct : Pcts \cup {None}]
<1>1. /\ TypeOK /\ n \in Nat /\ Ids = 1..n
      /\ Ids' = Ids \cup {n + 1} /\ n + 1 \notin Ids
      /\ \A i \in Ids : plans'[i] = plans[i]
      /\ plans'[n + 1] = [status |-> st, pct |-> p]
  BY AddRow, RowsAre DEF Inductive
<1>2. \A i \in Ids : Mapped(i) \in T
  BY <1>1, SeenRows
<1>3. \A i \in Ids' : ~Closing(c, i) /\ ~Closing(c, i)'
  BY DEF Closing
<1>4. \A i \in Ids' : \/ Mapped(i)' = LooseRow
                      \/ /\ i \notin loose' /\ Mapped(i)' = plans'[i]
                         /\ i \in Ids => Mapped(i) = plans[i]
  BY <1>1, <1>3, AfterWrite
<1> HIDE DEF n, T
<1>5. Seen \in [1..n -> T] /\ \A i \in Ids : Seen[i] = Mapped(i)
  BY <1>1, <1>2 DEF Seen
<1>6. /\ DOMAIN Append(Seen, row) = 1..(n + 1)
      /\ \A i \in 1..n : Append(Seen, row)[i] = Seen[i]
      /\ Append(Seen, row)[n + 1] = row
  BY <1>1, <1>5, AppendIs
<1>7. DOMAIN Append(Seen, row) = Ids'
  BY <1>1, <1>6
<1>8. \A i \in Ids' : Mapped(i)' = LooseRow \/ Mapped(i)' = Append(Seen, row)[i]
  <2> SUFFICES ASSUME NEW i \in Ids', Mapped(i)' # LooseRow
               PROVE  Mapped(i)' = Append(Seen, row)[i]
    OBVIOUS
  <2>1. i \notin loose' /\ Mapped(i)' = plans'[i]
    BY <1>4
  <2>2. CASE i \in Ids
    BY <1>1, <1>4, <1>5, <1>6, <2>1, <2>2
  <2>3. CASE i = n + 1
    BY <1>1, <1>6, <2>1, <2>3 DEF n
  <2> QED
    BY <1>1, <2>2, <2>3
<1> QED
  BY <1>7, <1>8, Becomes

LEMMA InsertOwnRefines ==
    ASSUME Inductive, NEW c \in Calls, InsertOwn(c)
    PROVE  Atomic!Record
<1>1. /\ TypeOK /\ pc[c] = "insert" /\ pct[c] \in Pcts \cup {None}
      /\ loose' = IF kind[c] = "apply" THEN loose \cup {Len(plans) + 1} ELSE loose
      /\ Writes(c) /\ pc'[c] # "close" /\ traffic' = traffic
  BY DEF InsertOwn, Inductive, TypeOK, Goto
<1>2. PICK st \in {"pending", "rejected"}, p \in Pcts \cup {None} :
        Add(plans, st, p) /\ (st = "pending" <=> kind[c] = "apply")
  BY <1>1 DEF InsertOwn, CancelPending
<1>3. StepOf(c)
  <2>1. Len(plans') = Len(plans) + 1 /\ Len(plans) \in Nat
    BY <1>1, <1>2, AddRow, RowsAre DEF Statuses
  <2>2. id' \in [Calls -> 0..Len(plans')] /\ \A d \in Calls \ {c} : id'[d] = id[d]
    BY <1>1, <2>1 DEF InsertOwn, TypeOK
  <2> QED
    BY <1>1, <2>2 DEF InsertOwn, Goto, StepOf, TypeOK, Labels
<1> DEFINE row == IF st = "pending" THEN LooseRow ELSE [status |-> st, pct |-> p]
<1>4. /\ \/ row = LooseRow /\ Len(plans) + 1 \in loose'
         \/ row = [status |-> st, pct |-> p]
      /\ row \in [status : {"executed", "rejected"}, pct : Pcts \cup {None}] \cup {LooseRow}
  BY <1>1, <1>2
<1> HIDE DEF row
<1>5. Atomic!Become(Append(Seen, row))
  BY <1>1, <1>2, <1>3, <1>4, InsertRefines DEF Statuses
<1> QED
  BY <1>1, <1>4, <1>5 DEF Atomic!Record, Atomic!Loose, Seen, LooseRow

LEMMA RecordRefines ==
    ASSUME Inductive, NEW c \in Calls, Record(c)
    PROVE  Atomic!Record
<1>1. /\ TypeOK /\ pc[c] = "record" /\ pct[c] \in Pcts \cup {None}
      /\ loose' = loose /\ Writes(c) /\ pc'[c] # "close" /\ traffic' = traffic
      /\ Add(plans, "executed", pct[c])
  BY DEF Record, Inductive, TypeOK, Goto
<1>2. StepOf(c)
  <2>1. Len(plans') = Len(plans) + 1 /\ Len(plans) \in Nat
    BY <1>1, AddRow, RowsAre DEF Statuses
  <2>2. id' \in [Calls -> 0..Len(plans')]
    BY <1>1, <2>1 DEF Record, TypeOK
  <2> QED
    BY <1>1, <2>2 DEF Record, Goto, StepOf, TypeOK, Labels, Ended
<1> DEFINE row == [status |-> "executed", pct |-> pct[c]]
<1>3. row \in [status : {"executed", "rejected"}, pct : Pcts \cup {None}] \cup {LooseRow}
  BY <1>1
<1>4. Atomic!Become(Append(Seen, row))
  BY <1>1, <1>2, InsertRefines DEF Statuses
<1> HIDE DEF row
<1> QED
  BY <1>1, <1>3, <1>4 DEF Atomic!Record, Atomic!Loose, Seen, LooseRow

\* A proposer that nobody has overtaken found no plan waiting, and none waits.
LEMMA ProposalRefines ==
    ASSUME Inductive, NEW c \in Calls, Chosen(c), InsertProposal(c)
    PROVE  Atomic!Propose \/ Atomic!Record
<1>1. /\ TypeOK /\ Local(c) /\ pc[c] = "insert" /\ kind[c] \in {"poll", "agent"}
      /\ pct[c] \in Pcts
      /\ loose' = IF c \in overtaken THEN loose \cup {Len(plans) + 1} ELSE loose
      /\ Writes(c) /\ pc'[c] # "close" /\ traffic' = traffic
      /\ Add(plans, "pending", pct[c])
  BY DEF InsertProposal, Settle, Inductive, TypeOK, Goto, Chosen, Proposing, InFlight, Ended
<1>2. StepOf(c)
  <2>1. Len(plans') = Len(plans) + 1 /\ Len(plans) \in Nat
    BY <1>1, AddRow, RowsAre DEF Statuses
  <2>2. id' \in [Calls -> 0..Len(plans')]
    BY <1>1, <2>1 DEF InsertProposal, TypeOK
  <2> QED
    BY <1>1, <2>2 DEF InsertProposal, Goto, StepOf, TypeOK, Labels, Ended
<1>3. CASE c \in overtaken
  <2>1. Len(plans) + 1 \in loose'
    BY <1>1, <1>3
  <2>2. Atomic!Become(Append(Seen, LooseRow))
    BY <1>1, <1>2, <2>1, InsertRefines DEF Statuses
  <2> QED
    BY <1>1, <2>2 DEF Atomic!Record, Atomic!Loose, Seen, LooseRow
<1>4. CASE c \notin overtaken
  <2>1. Pending = {}
    BY <1>1, <1>4 DEF Local, StillNone
  <2>2. Atomic!Waiting = {}
    <3>1. \A i \in Ids : Mapped(i).status # "pending"
      BY <2>1, SeenRows, <1>1 DEF Mapped, Pending, Executed
    <3> QED
      BY <3>1 DEF Atomic!Waiting
  <2>3. Atomic!Become(Append(Seen, [status |-> "pending", pct |-> pct[c]]))
    BY <1>1, <1>2, InsertRefines DEF Statuses
  <2> QED
    BY <1>1, <2>2, <2>3 DEF Atomic!Propose, Seen
<1> QED
  BY <1>3, <1>4

LEMMA RefreshRefines ==
    ASSUME Inductive, NEW c \in Calls, Chosen(c), Refresh(c), kind[c] \in {"poll", "agent"}
    PROVE  Atomic!Overlap \/ \E i \in Ids : Atomic!Refresh(i)
<1>0. PICK i : i = RefreshTarget
  OBVIOUS
<1>1. /\ TypeOK /\ pc[c] = "refresh" /\ pct[c] \in Pcts
      /\ plans' = IF i = 0 THEN plans ELSE [plans EXCEPT ![i].pct = pct[c]]
      /\ loose' = loose /\ Writes(c) /\ pc'[c] # "close" /\ traffic' = traffic
      /\ i # 0 => i \in Pending
  BY <1>0, NewestTyped, RowsAre
  DEF Refresh, Inductive, TypeOK, Goto, Chosen, Proposing, InFlight, Ended, RefreshTarget
<1>2. /\ Ids' = Ids /\ Len(plans') = Len(plans) /\ 0 \notin Ids
      /\ i # 0 => i \in Ids
      /\ \A j \in Ids : j # i => plans'[j] = plans[j]
      /\ i # 0 => plans'[i] = [plans[i] EXCEPT !.pct = pct[c]]
  BY <1>1, RowsAre DEF Pending, Ids
<1>3. StepOf(c)
  BY <1>1, <1>2 DEF Refresh, Goto, StepOf, TypeOK, Labels, Ended
<1>4. \A j \in Ids : \/ Mapped(j)' = LooseRow
                     \/ Mapped(j)' = plans'[j] /\ Mapped(j) = plans[j]
  <2>1. \A j \in Ids : ~Closing(c, j) /\ ~Closing(c, j)'
    BY <1>1 DEF Closing
  <2> QED
    BY <1>1, <1>2, <1>3, <2>1, AfterWrite
<1>5. DOMAIN Seen = Ids /\ \A j \in Ids : Seen[j] = Mapped(j)
  BY DEF Seen
<1>6. CASE i = 0 \/ Mapped(i)' = LooseRow
  <2>1. Atomic!Become(Seen)
    BY <1>2, <1>4, <1>5, <1>6, Becomes
  <2> QED
    BY <1>1, <2>1 DEF Atomic!Overlap, Seen
<1>7. CASE i # 0 /\ Mapped(i)' # LooseRow
  <2>1. Mapped(i) = plans[i] /\ Mapped(i)' = [Mapped(i) EXCEPT !.pct = pct[c]]
    BY <1>2, <1>4, <1>7
  <2>2. i \in Atomic!Waiting
    BY <1>1, <1>2, <1>7, <2>1 DEF Atomic!Waiting, Pending
  <2> DEFINE next == [Seen EXCEPT ![i].pct = pct[c]]
  <2>3. DOMAIN next = Ids' /\ \A j \in Ids' : Mapped(j)' = LooseRow \/ Mapped(j)' = next[j]
    BY <1>2, <1>4, <1>5, <2>1
  <2> HIDE DEF next
  <2>4. Atomic!Become(next)
    BY <2>3, Becomes
  <2>5. Atomic!Refresh(i)
    BY <1>1, <2>2, <2>4 DEF Atomic!Refresh, next, Seen
  <2> QED
    BY <1>2, <1>7, <2>5
<1> QED
  BY <1>6, <1>7

\* The percentages of a plan come into force as it is approved: nobody has
\* decided it since Load, or it comes loose.
LEMMA RouteRefines ==
    ASSUME Inductive, NEW c \in Calls, Chosen(c), Route(c),
           kind[c] \in {"approve", "chat_approve", "apply", "auto"}
    PROVE  Atomic!PutInForce \/ \E i \in Ids : Atomic!Approve(i)
<1>0. PICK i : i = id[c]
  OBVIOUS
<1>1. /\ TypeOK /\ Local(c) /\ pc[c] = "route" /\ pct[c] \in Pcts
      /\ loose' = IF i # 0 /\ c \in overtaken THEN loose \cup {i} ELSE loose
      /\ Writes(c) /\ traffic' = pct[c] /\ UNCHANGED <<plans, id, kind>>
      /\ pc'[c] = IF kind[c] = "auto" THEN "record" ELSE "close"
  BY <1>0, ValuesAssumption
  DEF Route, Settle, Inductive, TypeOK, Goto, Chosen, Approves, Proposing, InFlight, Ended
<1>2. Ids' = Ids /\ loose \subseteq loose'
  BY <1>1 DEF Ids
<1>3. StepOf(c)
  BY <1>1 DEF Route, Goto, StepOf, TypeOK, Labels
<1>4. \A j \in Ids : \/ Mapped(j)' = LooseRow
                     \/ /\ j \notin loose' /\ Mapped(j) = plans[j]
                        /\ ~(Closing(c, j)' /\ c \in overtaken)
                        /\ Mapped(j)' = IF Approves(c) /\ Closing(c, j)'
                                        THEN Executed(plans[j]) ELSE plans[j]
  <2>1. \A j \in Ids : ~Closing(c, j)
    BY <1>1 DEF Closing
  <2> QED
    BY <1>1, <1>2, <1>3, <2>1, AfterWrite
<1>5. DOMAIN Seen = Ids /\ \A j \in Ids : Seen[j] = Mapped(j)
  BY DEF Seen
<1>6. CASE \A j \in Ids : Mapped(j)' = LooseRow \/ Mapped(j)' = Mapped(j)
  <2>1. Atomic!Become(Seen)
    BY <1>2, <1>5, <1>6, Becomes
  <2> QED
    BY <1>1, <2>1 DEF Atomic!PutInForce, Seen
<1>7. CASE ~ \A j \in Ids : Mapped(j)' = LooseRow \/ Mapped(j)' = Mapped(j)
  <2>1. PICK j \in Ids : Mapped(j)' # LooseRow /\ Mapped(j)' # Mapped(j)
    BY <1>7
  <2>2. Approves(c) /\ Closing(c, j)' /\ c \notin overtaken
    BY <1>4, <2>1
  <2>3. j = i /\ Mapped(i) = plans[i] /\ Mapped(i)' = Executed(Mapped(i))
    BY <1>0, <1>1, <1>4, <2>1, <2>2 DEF Closing
  <2>4. i \in Ids /\ i \in Pending /\ plans[i].pct = before[c]
    BY <1>0, <1>1, <2>1, <2>2, <2>3 DEF Local, StillPending, StillProposed
  <2>5. i \in Atomic!Waiting
    BY <2>3, <2>4 DEF Atomic!Waiting, Pending
  <2>6. traffic' \in ({Seen[i].pct} \cup Edits) \ {None}
    BY <1>0, <1>1, <1>5, <2>2, <2>3, <2>4 DEF Chosen
  <2> DEFINE next == [Seen EXCEPT ![i].status = "executed"]
  <2>7. \A k \in Ids : k # i => Mapped(k)' = LooseRow \/ Mapped(k)' = Mapped(k)
    BY <1>0, <1>1, <1>4 DEF Closing
  <2>8. DOMAIN next = Ids' /\ \A k \in Ids' : Mapped(k)' = LooseRow \/ Mapped(k)' = next[k]
    BY <1>2, <1>5, <2>3, <2>4, <2>7 DEF Executed
  <2> HIDE DEF next
  <2>9. Atomic!Become(next)
    BY <2>8, Becomes
  <2>10. Atomic!Approve(i)
    BY <2>5, <2>6, <2>9 DEF Atomic!Approve, next, Seen
  <2> QED
    BY <2>4, <2>10
<1> QED
  BY <1>6, <1>7

\* Recording an approval changes nothing that was not seen before; a rejection
\* takes effect here.
LEMMA CloseRefines ==
    ASSUME Inductive, NEW c \in Calls, Close(c),
           kind[c] \in {"approve", "chat_approve", "apply", "reject", "chat_reject"}
    PROVE  Atomic!Overlap \/ \E i \in Ids : Atomic!Reject(i)
<1> DEFINE st == IF kind[c] \in {"reject", "chat_reject"} THEN "rejected" ELSE "executed"
<1>0. PICK i : i = id[c]
  OBVIOUS
<1>1. /\ TypeOK /\ Local(c) /\ pc[c] = "close" /\ i \in Ids
      /\ plans' = [plans EXCEPT ![i].status = st]
      /\ loose' = IF c \in overtaken THEN loose \cup {i} ELSE loose
      /\ Writes(c) /\ traffic' = traffic /\ pc'[c] # "close"
  BY <1>0 DEF Close, Settle, Inductive, TypeOK, Goto, Local, HasPlan
<1> HIDE DEF st
<1>2. /\ Ids' = Ids /\ Len(plans') = Len(plans) /\ loose \subseteq loose'
      /\ \A j \in Ids : j # i => plans'[j] = plans[j]
      /\ plans'[i] = [plans[i] EXCEPT !.status = st]
  BY <1>1, RowsAre DEF Ids
<1>3. StepOf(c)
  BY <1>1, <1>2 DEF Close, Goto, StepOf, TypeOK, Labels, Ended
<1>4. \A j \in Ids : \/ Mapped(j)' = LooseRow
                     \/ /\ j \notin loose' /\ Mapped(j)' = plans'[j]
                        /\ Mapped(j) = IF Approves(c) /\ Closing(c, j)
                                       THEN Executed(plans[j]) ELSE plans[j]
  <2>1. \A j \in Ids : ~Closing(c, j)' /\ (Closing(c, j) => j = i)
    BY <1>0, <1>1 DEF Closing
  <2>2. c \in overtaken => i \in loose'
    BY <1>1
  <2> QED
    BY <1>1, <1>2, <1>3, <2>1, <2>2, AfterWrite
<1>5. DOMAIN Seen = Ids /\ \A j \in Ids : Seen[j] = Mapped(j)
  BY DEF Seen
<1>6. \A j \in Ids : j # i => Mapped(j)' = LooseRow \/ Mapped(j)' = Mapped(j)
  BY <1>0, <1>1, <1>2, <1>4 DEF Closing
<1>7. CASE Mapped(i)' = LooseRow \/ Mapped(i)' = Mapped(i)
  <2>1. Atomic!Become(Seen)
    BY <1>2, <1>5, <1>6, <1>7, Becomes
  <2> QED
    BY <1>1, <2>1 DEF Atomic!Overlap, Seen
<1>8. CASE Mapped(i)' # LooseRow /\ Mapped(i)' # Mapped(i)
  <2>1. i \notin loose' /\ Mapped(i)' = [plans[i] EXCEPT !.status = st]
    BY <1>1, <1>2, <1>4, <1>8
  <2>2. ~Approves(c)
    <3>1. Approves(c) => Mapped(i) = Executed(plans[i])
      BY <1>0, <1>1, <1>4, <1>8 DEF Closing
    <3>2. Approves(c) => st = "executed"
      BY DEF Approves, st
    <3> QED
      BY <1>8, <2>1, <3>1, <3>2 DEF Executed
  <2>3. kind[c] # "apply"
    BY <1>0, <1>1, <1>2, <2>1 DEF Local, OwnIsLoose
  <2>4. st = "rejected"
    BY <2>2, <2>3 DEF Approves, st
  <2>5. Mapped(i) = plans[i] /\ plans[i] \in Plan
    BY <1>1, <1>4, <1>8, <2>2, RowsAre
  <2>6. plans[i].status \in {"pending", "executed"}
    <3>1. plans[i].status = "rejected" => [plans[i] EXCEPT !.status = "rejected"] = plans[i]
      BY <2>5 DEF Plan
    <3> QED
      BY <1>8, <2>1, <2>4, <2>5, <3>1 DEF Plan, Statuses
  <2> DEFINE next == [Seen EXCEPT ![i].status = "rejected"]
  <2>7. DOMAIN next = Ids' /\ \A k \in Ids' : Mapped(k)' = LooseRow \/ Mapped(k)' = next[k]
    BY <1>1, <1>2, <1>5, <1>6, <2>1, <2>4, <2>5
  <2> HIDE DEF next
  <2>8. Atomic!Become(next)
    BY <2>7, Becomes
  <2>9. Seen[i].status \in {"pending", "executed"}
    BY <1>1, <1>5, <2>5, <2>6
  <2>10. Atomic!Reject(i)
    BY <1>1, <2>8, <2>9 DEF Atomic!Reject, next, Seen
  <2> QED
    BY <1>1, <2>10
<1> QED
  BY <1>7, <1>8

\* What a step of the handlers is to a reader of AtomicPlans.
LEMMA StepRefines ==
    ASSUME Inductive, \A c \in Calls : Chosen(c), [Next]_vars
    PROVE  [Atomic!Next]_<<Seen, traffic>>
<1>1. DOMAIN Seen = Ids /\ TypeOK
  BY DEF Seen, Inductive
<1>2. ASSUME \/ Atomic!Propose \/ Atomic!Record \/ Atomic!PutInForce \/ Atomic!Overlap
             \/ \E i \in Ids : Atomic!Refresh(i) \/ Atomic!Approve(i) \/ Atomic!Reject(i)
      PROVE  Atomic!Next
  BY <1>1, <1>2 DEF Atomic!Next, Seen
<1>3. CASE UNCHANGED vars
  <2>1. \A i \in Ids : Mapped(i)' = Mapped(i)
    BY <1>3 DEF vars, callVars, history, Mapped, ComesLoose, Closing, Approves
  <2>2. Ids' = Ids
    BY <1>3 DEF vars, Ids
  <2> QED
    BY <1>3, <2>1, <2>2 DEF vars, Seen
<1>4. CASE World
  <2>1. UNCHANGED <<plans, traffic, kind, pc, id, loose, overtaken>>
    BY <1>4 DEF World, callVars, history
  <2>2. Atomic!Overlap
    BY <1>1, <2>1, NoWrite DEF Closing, TypeOK
  <2> QED
    BY <1>2, <2>2
<1>5. ASSUME NEW c \in Calls, Step(c)
      PROVE  Atomic!Next
  <2>1. CASE InsertOwn(c)
    BY <1>2, <2>1, InsertOwnRefines
  <2>2. CASE InsertProposal(c)
    BY <1>2, <2>2, ProposalRefines
  <2>3. CASE Record(c)
    BY <1>2, <2>3, RecordRefines
  <2>4. CASE Refresh(c) /\ kind[c] \in {"poll", "agent"}
    BY <1>2, <2>4, RefreshRefines
  <2>5. CASE Route(c) /\ kind[c] \in {"approve", "chat_approve", "apply", "auto"}
    BY <1>2, <2>5, RouteRefines
  <2>6. CASE /\ Close(c)
             /\ kind[c] \in {"approve", "chat_approve", "apply", "reject", "chat_reject"}
    BY <1>2, <2>6, CloseRefines
  <2>7. CASE /\ ~(InsertOwn(c) \/ InsertProposal(c) \/ Record(c))
             /\ ~(Refresh(c) /\ kind[c] \in {"poll", "agent"})
             /\ ~(Route(c) /\ kind[c] \in {"approve", "chat_approve", "apply", "auto"})
             /\ ~(Close(c) /\ kind[c] \in {"approve", "chat_approve", "apply", "reject",
                                          "chat_reject"})
    BY <1>2, <1>5, <2>7, QuietRefines
  <2> QED
    BY <2>1, <2>2, <2>3, <2>4, <2>5, <2>6, <2>7
<1> QED
  BY <1>3, <1>4, <1>5 DEF Next

\* To those who decide on plans, the statements of calls that do not overlap
\* come to one decision each: a plan is proposed when none waits, and approved
\* with the percentages that come into force or rejected, once.
THEOREM PlansAreAtomic == Spec => ImplementsAtomicPlans
<1>1. Init => (\A c \in Calls : Chosen(c)) /\ Atomic!Init
  <2> SUFFICES ASSUME Init PROVE (\A c \in Calls : Chosen(c)) /\ Atomic!Init
    OBVIOUS
  <2>1. \A c \in Calls : pc[c] = "idle"
    BY DEF Init
  <2>2. \A c \in Calls : Chosen(c)
    BY <2>1 DEF Chosen, InFlight, Ended
  <2>3. Seen = <<>> /\ traffic = None
    BY DEF Init, Seen, Ids
  <2> QED
    BY <2>2, <2>3 DEF Atomic!Init, Seen
<1>2. Inductive /\ (\A c \in Calls : Chosen(c)) /\ [Next]_vars => [Atomic!Next]_<<Seen, traffic>>
  BY StepRefines
<1> QED
  BY <1>1, <1>2, NextChosen, SpecInductive, PTL DEF Spec, ImplementsAtomicPlans, Atomic!Spec, Seen
=============================================================================

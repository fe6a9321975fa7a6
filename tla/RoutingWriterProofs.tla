------------------------ MODULE RoutingWriterProofs ------------------------
(***************************************************************************)
(* Proofs about RoutingWriter for any number of calls, scopes, providers   *)
(* and submitted maps.  The invariant checked by TLC on a small instance   *)
(* is not inductive: it says nothing of a call in the middle of its loop.  *)
(* Inductive adds what such a call has achieved as long as it is alone on  *)
(* its scope.                                                              *)
(***************************************************************************)
EXTENDS RoutingWriter, TLAPS

InFlight(c) == pc[c] \in {"write", "log"}
ScopeOf(c)  == Current(c).scope

\* Rows of the current scope once c has visited all providers but `left`.
PartlyWritten(c) ==
    [p \in Providers |-> IF p \in DOMAIN Current(c).target /\ p \notin left[c]
                         THEN Current(c).target[p] ELSE before[c][p]]

Validated ==
    /\ \A c \in Calls : InFlight(c) => ValidTarget(Current(c).target)
    /\ \A s \in Scopes : ValidTarget(log[s].target)

AloneIsAlone ==
    \A c \in alone :
        /\ InFlight(c)
        /\ \A d \in Calls : d # c => ~Writing(d, ScopeOf(c))

UntornIsAlone ==
    \A c \in Calls :
        InFlight(c) /\ ScopeOf(c) \notin torn
            => c \in alone /\ before[c] = log[ScopeOf(c)].after

Progress ==
    \A c \in alone :
        /\ pc[c] = "write" => traffic[ScopeOf(c)] = PartlyWritten(c)
        /\ pc[c] = "log"   => /\ after[c] = traffic[ScopeOf(c)]
                              /\ after[c] = Overlay(Current(c).target, before[c])

LogDescribes ==
    \A s \in Scopes :
        /\ s \notin torn => log[s].after = Overlay(log[s].target, log[s].before)
        /\ Settled(s) => log[s].after = traffic[s]

Inductive ==
    TypeOK /\ Validated /\ AloneIsAlone /\ UntornIsAlone /\ Progress /\ LogDescribes

-----------------------------------------------------------------------------
\* What a call works on is one of the submitted updates.
LEMMA CurrentIsUpdate ==
    ASSUME TypeOK, NEW c \in Calls
    PROVE  Current(c) \in Update
<1>1. req[c] \in Request
  BY RequestsAssumption DEF TypeOK
<1>2. req[c].updates \in Seq(Update)
  BY <1>1 DEF Request
<1>3. pos[c] \in 1..Len(req[c].updates)
  BY <1>2 DEF TypeOK
<1> QED
  BY <1>2, <1>3 DEF Current

LEMMA CurrentFields ==
    ASSUME TypeOK, NEW c \in Calls
    PROVE  Current(c).scope \in Scopes /\ Current(c).target \in Targets
BY CurrentIsUpdate DEF Update

\* Rows overwritten by shares of a validated map are percentages.
LEMMA ValidShares ==
    ASSUME NEW t, ValidTarget(t)
    PROVE  /\ DOMAIN t # {}
           /\ \A p \in DOMAIN t : t[p] \in Pct
           /\ SumFunction(t) = 100
BY DEF ValidTarget

LEMMA OverlayIsRows ==
    ASSUME NEW t, ValidTarget(t), NEW rows \in Rows
    PROVE  Overlay(t, rows) \in Rows
BY ValidShares DEF Overlay, Rows

LEMMA InitInductive == Init => Inductive
<1> SUFFICES ASSUME Init PROVE Inductive
  OBVIOUS
<1>1. \A c \in Calls : /\ req[c] \in Requests
                       /\ req[c].updates \in Seq(Update)
                       /\ req[c].updates # <<>>
  BY RequestsAssumption DEF Init, Request
<1>2. \A c \in Calls : 1 \in DOMAIN req[c].updates
  BY <1>1
<1>3. \A c \in Calls : req[c].updates[1].scope \in Scopes
  <2> SUFFICES ASSUME NEW c \in Calls PROVE req[c].updates[1] \in Update
    BY DEF Update
  <2> QED
    BY <1>1, <1>2
<1>4. TypeOK
  <2>1. log \in [Scopes -> LogRow]
    BY BaselineAssumption DEF Init, LogRow
  <2>2. before \in [Calls -> Rows]
    BY <1>3, BaselineAssumption DEF Init
  <2> QED
    BY <1>2, <2>1, <2>2, BaselineAssumption DEF Init, TypeOK
<1>5. Validated
  BY BaselineAssumption DEF Init, Validated, InFlight
<1>6. AloneIsAlone /\ UntornIsAlone /\ Progress
  BY DEF Init, AloneIsAlone, UntornIsAlone, Progress, InFlight
<1>7. LogDescribes
  <2> SUFFICES ASSUME NEW s \in Scopes
      PROVE  /\ log[s].after = Overlay(log[s].target, log[s].before)
             /\ log[s].after = traffic[s]
    BY DEF LogDescribes
  <2>1. Baseline[s] \in Rows
    BY BaselineAssumption
  <2>2. Overlay(Baseline[s], Baseline[s]) = Baseline[s]
    BY <2>1 DEF Overlay, Rows
  <2> QED
    BY <2>2 DEF Init
<1> QED
  BY <1>4, <1>5, <1>6, <1>7 DEF Inductive

-----------------------------------------------------------------------------
\* Steps before validation and after the log row: the call is not in flight.
Outside(c) ==
    \/ Enter(c) \/ Reject(c) \/ MarkRecovery(c) \/ ResolveIncident(c)

LEMMA OutsideInductive ==
    ASSUME Inductive, NEW c \in Calls, Outside(c)
    PROVE  Inductive'
<1>1. /\ pc' \in [Calls -> {"idle", "check", "write", "log", "mark", "resolve", "done"}]
      /\ ~InFlight(c) /\ ~InFlight(c)'
      /\ \A d \in Calls \ {c} : pc'[d] = pc[d]
  BY DEF Inductive, TypeOK, Outside, Enter, Reject, MarkRecovery, ResolveIncident, InFlight
<1>2. UNCHANGED <<traffic, log, req, pos, left, before, after, alone, torn>>
  BY DEF Outside, Enter, Reject, MarkRecovery, ResolveIncident
<1>3. /\ \A d \in Calls : Current(d)' = Current(d) /\ ScopeOf(d)' = ScopeOf(d)
      /\ \A d \in Calls : InFlight(d)' <=> InFlight(d)
      /\ \A d \in Calls, s \in Scopes : Writing(d, s)' <=> Writing(d, s)
  BY <1>1, <1>2 DEF Current, ScopeOf, InFlight, Writing
<1>4. TypeOK'
  <2>1. recovering' \subseteq Scopes /\ incidents' \subseteq Scopes
    <3>1. req[c] \in Request
      BY RequestsAssumption DEF Inductive, TypeOK
    <3>2. req[c].sku \in Scopes \cup {NoSKU}
      BY <3>1 DEF Request
    <3> QED
      BY <3>2 DEF Inductive, TypeOK, Outside, Enter, Reject, MarkRecovery, ResolveIncident
  <2>2. \A d \in Calls : left'[d] \subseteq IF pc'[d] = "write"
                                           THEN DOMAIN Current(d)'.target ELSE {}
    BY <1>1, <1>2, <1>3 DEF Inductive, TypeOK, InFlight
  <2> QED
    BY <1>1, <1>2, <2>1, <2>2 DEF Inductive, TypeOK
<1>5. Validated'
  BY <1>2, <1>3 DEF Inductive, Validated
<1>6. AloneIsAlone'
  <2>1. \A d \in alone : d \in Calls /\ ScopeOf(d) \in Scopes
    BY CurrentFields DEF Inductive, TypeOK, ScopeOf
  <2> QED
    BY <1>2, <1>3, <2>1 DEF Inductive, AloneIsAlone
<1>7. UntornIsAlone'
  BY <1>2, <1>3 DEF Inductive, UntornIsAlone
<1>8. Progress'
  <2>1. \A d \in alone : d \in Calls /\ d # c
    BY <1>1 DEF Inductive, TypeOK, AloneIsAlone
  <2>2. \A d \in alone : PartlyWritten(d)' = PartlyWritten(d) /\ pc'[d] = pc[d]
    BY <1>1, <1>2, <1>3, <2>1 DEF PartlyWritten
  <2> QED
    BY <1>2, <1>3, <2>1, <2>2 DEF Inductive, Progress
<1>9. LogDescribes'
  BY <1>2, <1>3 DEF Inductive, LogDescribes, Settled
<1> QED
  BY <1>4, <1>5, <1>6, <1>7, <1>8, <1>9 DEF Inductive

-----------------------------------------------------------------------------
LEMMA BeginInductive ==
    ASSUME Inductive, NEW c \in Calls, Begin(c)
    PROVE  Inductive'
<1> DEFINE s == ScopeOf(c)
           rivals == {d \in Calls \ {c} : Writing(d, s)}
<1>1. /\ pc[c] = "check"
      /\ ValidTarget(Current(c).target)
      /\ pc' = [pc EXCEPT ![c] = "write"]
      /\ before' = [before EXCEPT ![c] = traffic[s]]
      /\ left' = [left EXCEPT ![c] = DOMAIN Current(c).target]
      /\ alone' = IF rivals = {} THEN alone \cup {c} ELSE alone \ rivals
      /\ torn' = IF rivals = {} THEN torn ELSE torn \cup {s}
      /\ UNCHANGED <<traffic, log, recovering, incidents, req, pos, after>>
  BY DEF Begin, ScopeOf
<1> HIDE DEF s, rivals
<1>2. /\ s \in Scopes
      /\ \A d \in Calls : ScopeOf(d) \in Scopes
      /\ \A d \in Calls : Current(d)' = Current(d) /\ ScopeOf(d)' = ScopeOf(d)
      /\ ~InFlight(c) /\ InFlight(c)' /\ c \notin alone
      /\ \A d \in Calls \ {c} : InFlight(d)' <=> InFlight(d)
      /\ \A r \in Scopes : ~Writing(c, r) /\ (Writing(c, r)' <=> r = s)
      /\ \A d \in Calls \ {c}, r \in Scopes : Writing(d, r)' <=> Writing(d, r)
  BY <1>1, CurrentFields
  DEF Inductive, TypeOK, AloneIsAlone, Current, ScopeOf, InFlight, Writing, s
<1>3. \A d \in alone : /\ d \in Calls /\ d # c
                       /\ ScopeOf(d) = s => d \in rivals
  BY <1>2 DEF Inductive, TypeOK, AloneIsAlone, InFlight, Writing, ScopeOf, s, rivals
<1>4. TypeOK'
  <2>1. DOMAIN Current(c).target \subseteq Names
    BY CurrentFields DEF Inductive, Names
  <2>2. left' \in [Calls -> SUBSET Names]
    BY <1>1, <2>1 DEF Inductive, TypeOK
  <2>3. \A d \in Calls : left'[d] \subseteq IF pc'[d] = "write"
                                           THEN DOMAIN Current(d)'.target ELSE {}
    BY <1>1, <1>2 DEF Inductive, TypeOK
  <2>4. alone' \subseteq Calls /\ torn' \subseteq Scopes /\ before' \in [Calls -> Rows]
    BY <1>1, <1>2 DEF Inductive, TypeOK
  <2> QED
    BY <1>1, <1>2, <2>2, <2>3, <2>4 DEF Inductive, TypeOK
<1>5. Validated'
  BY <1>1, <1>2 DEF Inductive, Validated
<1>6. AloneIsAlone'
  <2> SUFFICES ASSUME NEW d \in alone'
               PROVE  InFlight(d)' /\ \A e \in Calls : e # d => ~Writing(e, ScopeOf(d))'
    BY DEF AloneIsAlone
  <2>1. CASE d = c
    BY <1>1, <1>2, <2>1 DEF rivals, s
  <2>2. CASE d # c
    <3>1. d \in alone /\ ScopeOf(d) # s /\ d \in Calls
      BY <1>1, <1>3, <2>2 DEF rivals
    <3>2. InFlight(d) /\ \A e \in Calls : e # d => ~Writing(e, ScopeOf(d))
      BY <3>1 DEF Inductive, AloneIsAlone
    <3> QED
      BY <1>2, <2>2, <3>1, <3>2
  <2> QED
    BY <2>1, <2>2
<1>7. UntornIsAlone'
  <2> SUFFICES ASSUME NEW d \in Calls, InFlight(d)', ScopeOf(d)' \notin torn'
               PROVE  d \in alone' /\ before'[d] = log'[ScopeOf(d)'].after
    BY DEF UntornIsAlone
  <2>1. CASE d = c
    <3>1. rivals = {} /\ s \notin torn
      BY <1>1, <1>2, <2>1 DEF s
    <3>2. Settled(s)
      BY <1>2, <3>1 DEF Settled, rivals
    <3>3. log[s].after = traffic[s]
      BY <1>2, <3>2 DEF Inductive, LogDescribes
    <3> QED
      BY <1>1, <1>2, <2>1, <3>1, <3>3 DEF Inductive, TypeOK, s
  <2>2. CASE d # c
    <3>1. d \in alone /\ before[d] = log[ScopeOf(d)].after
      BY <1>1, <1>2, <2>2 DEF Inductive, UntornIsAlone
    <3>2. d \in alone'
      BY <1>1, <1>2, <2>2, <3>1 DEF rivals, Writing, ScopeOf
    <3> QED
      BY <1>1, <1>2, <2>2, <3>1, <3>2
  <2> QED
    BY <2>1, <2>2
<1>8. Progress'
  <2> SUFFICES ASSUME NEW d \in alone'
               PROVE  /\ pc'[d] = "write" => traffic'[ScopeOf(d)'] = PartlyWritten(d)'
                      /\ pc'[d] = "log" => /\ after'[d] = traffic'[ScopeOf(d)']
                                           /\ after'[d] = Overlay(Current(d)'.target, before'[d])
    BY DEF Progress
  <2>1. CASE d = c
    <3>1. traffic[s] \in Rows
      BY <1>2 DEF Inductive, TypeOK
    <3>2. left'[c] = DOMAIN Current(c)'.target /\ before'[c] = traffic[s]
      BY <1>1, <1>2 DEF Inductive, TypeOK
    <3>3. PartlyWritten(c)' = [p \in Providers |-> before'[c][p]]
      BY <3>2 DEF PartlyWritten
    <3>4. PartlyWritten(c)' = traffic[s]
      BY <3>1, <3>2, <3>3 DEF Rows
    <3> QED
      BY <1>1, <1>2, <2>1, <3>4 DEF Inductive, TypeOK, s
  <2>2. CASE d # c
    <3>1. d \in alone /\ d \in Calls
      BY <1>1, <1>3, <2>2
    <3>2. PartlyWritten(d)' = PartlyWritten(d) /\ pc'[d] = pc[d]
      BY <1>1, <1>2, <2>2, <3>1 DEF PartlyWritten
    <3> QED
      BY <1>1, <1>2, <2>2, <3>1, <3>2 DEF Inductive, Progress
  <2> QED
    BY <2>1, <2>2
<1>9. LogDescribes'
  <2>1. \A r \in Scopes : r \notin torn' => r \notin torn
    BY <1>1
  <2>2. \A r \in Scopes : Settled(r)' => Settled(r)
    BY <1>2, <2>1 DEF Settled
  <2> QED
    BY <1>1, <2>1, <2>2 DEF Inductive, LogDescribes
<1> QED
  BY <1>4, <1>5, <1>6, <1>7, <1>8, <1>9 DEF Inductive

-----------------------------------------------------------------------------
LEMMA WriteRowInductive ==
    ASSUME Inductive, NEW c \in Calls, WriteRow(c)
    PROVE  Inductive'
<1> DEFINE s == ScopeOf(c)
           t == Current(c).target
<1>1. PICK p \in left[c] :
        /\ left' = [left EXCEPT ![c] = @ \ {p}]
        /\ traffic' = IF p \in Providers
                      THEN [traffic EXCEPT ![s][p] = t[p]]
                      ELSE traffic
  BY DEF WriteRow, ScopeOf
<1>2. /\ pc[c] = "write"
      /\ UNCHANGED <<log, recovering, incidents, pc, req, pos, before, after, alone, torn>>
  BY DEF WriteRow
<1> HIDE DEF s, t
<1>3. /\ s \in Scopes
      /\ \A d \in Calls : ScopeOf(d) \in Scopes
      /\ p \in DOMAIN t /\ t[p] \in Pct
      /\ \A d \in Calls : Current(d)' = Current(d) /\ ScopeOf(d)' = ScopeOf(d)
      /\ InFlight(c) /\ Writing(c, s)
      /\ \A d \in Calls : InFlight(d)' <=> InFlight(d)
      /\ \A d \in Calls, r \in Scopes : Writing(d, r)' <=> Writing(d, r)
  <2>1. InFlight(c) /\ Writing(c, s) /\ s \in Scopes /\ \A d \in Calls : ScopeOf(d) \in Scopes
    BY <1>2, CurrentFields DEF Inductive, InFlight, Writing, ScopeOf, s
  <2>2. p \in DOMAIN t /\ t[p] \in Pct
    BY <1>1, <2>1, ValidShares DEF Inductive, TypeOK, Validated, t
  <2> QED
    BY <1>2, <2>1, <2>2 DEF Current, ScopeOf, InFlight, Writing
<1>4. traffic[s] \in Rows /\ \A r \in Scopes : r # s => traffic'[r] = traffic[r]
  BY <1>1, <1>3 DEF Inductive, TypeOK
<1>5. TypeOK'
  <2>1. traffic' \in [Scopes -> Rows]
    BY <1>1, <1>3, <1>4 DEF Inductive, TypeOK, Rows
  <2> QED
    BY <1>1, <1>2, <1>3, <2>1 DEF Inductive, TypeOK
<1>6. Validated' /\ AloneIsAlone' /\ UntornIsAlone'
  <2>1. \A d \in alone : d \in Calls
    BY DEF Inductive, TypeOK
  <2> QED
    BY <1>2, <1>3, <2>1 DEF Inductive, Validated, AloneIsAlone, UntornIsAlone
<1>7. Progress'
  <2> SUFFICES ASSUME NEW d \in alone
               PROVE  /\ pc[d] = "write" => traffic'[ScopeOf(d)] = PartlyWritten(d)'
                      /\ pc[d] = "log" => /\ after[d] = traffic'[ScopeOf(d)]
                                          /\ after[d] = Overlay(Current(d).target, before[d])
    <3>1. \A d \in alone : d \in Calls
      BY DEF Inductive, TypeOK
    <3> QED
      BY <1>2, <1>3, <3>1 DEF Progress
  <2>0. d \in Calls
    BY DEF Inductive, TypeOK
  <2>1. CASE d = c
    <3>1. traffic[s] = PartlyWritten(c)
      BY <1>2, <2>1 DEF Inductive, Progress, s
    <3>2. left'[c] = left[c] \ {p}
      BY <1>1 DEF Inductive, TypeOK
    <3>3. \A q \in Providers : traffic'[s][q] = IF q = p THEN t[q] ELSE traffic[s][q]
      BY <1>1, <1>3, <1>4 DEF Inductive, TypeOK, Rows
    <3>4. \A q \in Providers : traffic'[s][q] = PartlyWritten(c)'[q]
      BY <1>2, <1>3, <3>1, <3>2, <3>3 DEF PartlyWritten, t
    <3>5. traffic'[s] \in Rows
      BY <1>3, <1>5 DEF TypeOK
    <3>6. traffic'[s] = PartlyWritten(c)'
      BY <3>4, <3>5 DEF PartlyWritten, Rows
    <3> QED
      BY <1>2, <2>1, <3>6 DEF s
  <2>2. CASE d # c
    <3>1. ScopeOf(d) # s
      BY <1>3, <2>0, <2>2 DEF Inductive, AloneIsAlone
    <3>2. left'[d] = left[d] /\ traffic'[ScopeOf(d)] = traffic[ScopeOf(d)]
      BY <1>1, <1>3, <1>4, <2>0, <2>2, <3>1 DEF Inductive, TypeOK
    <3>3. PartlyWritten(d)' = PartlyWritten(d)
      BY <1>2, <1>3, <2>0, <3>2 DEF PartlyWritten
    <3> QED
      BY <3>2, <3>3 DEF Inductive, Progress
  <2> QED
    BY <2>1, <2>2
<1>8. LogDescribes'
  <2> SUFFICES ASSUME NEW r \in Scopes, Settled(r)'
               PROVE  log[r].after = traffic'[r]
    BY <1>2 DEF Inductive, LogDescribes
  <2>1. r # s /\ Settled(r)
    BY <1>2, <1>3 DEF Settled
  <2> QED
    BY <1>4, <2>1 DEF Inductive, LogDescribes
<1> QED
  BY <1>5, <1>6, <1>7, <1>8 DEF Inductive

-----------------------------------------------------------------------------
LEMMA ReadAfterInductive ==
    ASSUME Inductive, NEW c \in Calls, ReadAfter(c)
    PROVE  Inductive'
<1> DEFINE s == ScopeOf(c)
<1>1. /\ pc[c] = "write" /\ left[c] = {}
      /\ after' = [after EXCEPT ![c] = traffic[s]]
      /\ pc' = [pc EXCEPT ![c] = "log"]
      /\ UNCHANGED <<traffic, log, recovering, incidents, req, pos, left, before, alone, torn>>
  BY DEF ReadAfter, LoopDone, SnapshotAfter, ScopeOf
<1>2. /\ s \in Scopes
      /\ \A d \in Calls : ScopeOf(d) \in Scopes
      /\ \A d \in Calls : Current(d)' = Current(d) /\ ScopeOf(d)' = ScopeOf(d)
      /\ \A d \in Calls : InFlight(d)' <=> InFlight(d)
      /\ \A d \in Calls, r \in Scopes : Writing(d, r)' <=> Writing(d, r)
  BY <1>1, CurrentFields DEF Inductive, TypeOK, Current, ScopeOf, InFlight, Writing
<1> HIDE DEF s
<1>3. TypeOK'
  BY <1>1, <1>2 DEF Inductive, TypeOK
<1>4. Validated' /\ AloneIsAlone' /\ UntornIsAlone'
  <2>1. \A d \in alone : d \in Calls
    BY DEF Inductive, TypeOK
  <2> QED
    BY <1>1, <1>2, <2>1 DEF Inductive, Validated, AloneIsAlone, UntornIsAlone
<1>5. Progress'
  <2> SUFFICES ASSUME NEW d \in alone
               PROVE  /\ pc'[d] = "write" => traffic[ScopeOf(d)] = PartlyWritten(d)
                      /\ pc'[d] = "log" => /\ after'[d] = traffic[ScopeOf(d)]
                                           /\ after'[d] = Overlay(Current(d).target, before[d])
    <3>1. \A d \in alone : d \in Calls
      BY DEF Inductive, TypeOK
    <3>2. \A d \in alone : PartlyWritten(d)' = PartlyWritten(d)
      BY <1>1, <1>2, <3>1 DEF PartlyWritten
    <3> QED
      BY <1>1, <1>2, <3>1, <3>2 DEF Progress
  <2>0. d \in Calls
    BY DEF Inductive, TypeOK
  <2>1. CASE d = c
    <3>1. traffic[s] = PartlyWritten(c)
      BY <1>1, <2>1 DEF Inductive, Progress, s
    <3>2. PartlyWritten(c) = Overlay(Current(c).target, before[c])
      BY <1>1 DEF PartlyWritten, Overlay
    <3> QED
      BY <1>1, <2>1, <3>1, <3>2 DEF Inductive, TypeOK, s
  <2>2. CASE d # c
    BY <1>1, <2>0, <2>2 DEF Inductive, Progress, TypeOK
  <2> QED
    BY <2>1, <2>2
<1>6. LogDescribes'
  BY <1>1, <1>2 DEF Inductive, LogDescribes, Settled
<1> QED
  BY <1>3, <1>4, <1>5, <1>6 DEF Inductive

-----------------------------------------------------------------------------
LEMMA InsertLogInductive ==
    ASSUME Inductive, NEW c \in Calls, InsertLog(c)
    PROVE  Inductive'
<1> DEFINE s == ScopeOf(c)
           row == [before |-> before[c], after |-> after[c], target |-> Current(c).target]
<1>1. /\ pc[c] = "log"
      /\ log' = [log EXCEPT ![s] = row]
      /\ pc' = [pc EXCEPT ![c] = IF HasMore(c) THEN "check" ELSE "mark"]
      /\ pos' = [pos EXCEPT ![c] = IF HasMore(c) THEN @ + 1 ELSE @]
      /\ alone' = alone \ {c}
      /\ torn' = IF c \in alone THEN torn \ {s} ELSE torn
      /\ UNCHANGED <<traffic, recovering, incidents, req, left, before, after>>
  BY DEF InsertLog, ScopeOf
<1>2. /\ s \in Scopes /\ Current(c).target \in Targets
      /\ \A d \in Calls : ScopeOf(d) \in Scopes
      /\ InFlight(c) /\ ~InFlight(c)' /\ Writing(c, s)
      /\ \A d \in Calls \ {c} : Current(d)' = Current(d) /\ ScopeOf(d)' = ScopeOf(d)
      /\ \A d \in Calls \ {c} : InFlight(d)' <=> InFlight(d)
      /\ \A r \in Scopes : ~Writing(c, r)'
      /\ \A d \in Calls \ {c}, r \in Scopes : Writing(d, r)' <=> Writing(d, r)
  BY <1>1, CurrentFields DEF Inductive, TypeOK, Current, ScopeOf, InFlight, Writing
<1>3. c \notin alone => s \in torn
  BY <1>2 DEF Inductive, UntornIsAlone, s
<1>4. c \in alone => /\ after[c] = traffic[s]
                     /\ after[c] = Overlay(Current(c).target, before[c])
  BY <1>1 DEF Inductive, Progress, s
<1>5. TypeOK'
  <2>1. row \in LogRow
    BY <1>2 DEF LogRow, Inductive, TypeOK
  <2>2. req[c] \in Request /\ pos[c] \in DOMAIN req[c].updates
    BY RequestsAssumption DEF Inductive, TypeOK
  <2>3. req[c].updates \in Seq(Update)
    BY <2>2 DEF Request
  <2>4. pos'[c] \in DOMAIN req[c].updates /\ pos'[c] \in Nat \ {0}
    BY <1>1, <2>2, <2>3 DEF HasMore, Inductive, TypeOK
  <2>5. left[c] = {}
    BY <1>1 DEF Inductive, TypeOK
  <2> HIDE DEF row
  <2>6. log' \in [Scopes -> LogRow] /\ pos' \in [Calls -> Nat \ {0}]
    BY <1>1, <1>2, <2>1, <2>4 DEF Inductive, TypeOK
  <2>7. /\ \A d \in Calls : pos'[d] \in DOMAIN req'[d].updates
        /\ \A d \in Calls : left'[d] \subseteq IF pc'[d] = "write"
                                             THEN DOMAIN Current(d)'.target ELSE {}
    BY <1>1, <1>2, <2>4, <2>5 DEF Inductive, TypeOK
  <2> QED
    BY <1>1, <1>2, <2>6, <2>7 DEF Inductive, TypeOK
<1>6. \A r \in Scopes : log'[r] = IF r = s THEN row ELSE log[r]
  BY <1>1, <1>2 DEF Inductive, TypeOK
<1>7. /\ row.before = before[c] /\ row.after = after[c] /\ row.target = Current(c).target
  OBVIOUS
<1> HIDE DEF s, row
<1>8. Validated'
  <2>1. ValidTarget(Current(c).target)
    BY <1>2 DEF Inductive, Validated
  <2> QED
    BY <1>2, <1>6, <1>7, <2>1 DEF Inductive, Validated
<1>9. AloneIsAlone'
  <2>1. \A d \in alone' : d \in alone /\ d \in Calls \ {c}
    BY <1>1 DEF Inductive, TypeOK
  <2> QED
    BY <1>2, <2>1 DEF Inductive, AloneIsAlone
\* A call in flight on the scope of c would have torn it for both.
<1>10. ASSUME NEW d \in Calls, InFlight(d)', ScopeOf(d)' \notin torn'
       PROVE  d \in Calls \ {c} /\ d \in alone /\ ScopeOf(d) # s
  <2>1. d # c
    BY <1>2, <1>10
  <2>2. InFlight(d) /\ ScopeOf(d) \in Scopes
    BY <1>2, <1>10, <2>1
  <2>3. ScopeOf(d) # s
    <3> SUFFICES ASSUME ScopeOf(d) = s PROVE FALSE
      OBVIOUS
    <3>1. Writing(d, s)
      BY <2>2 DEF Writing, InFlight, ScopeOf
    <3>2. c \notin alone
      BY <2>1, <3>1 DEF Inductive, AloneIsAlone, s
    <3> QED
      BY <1>1, <1>2, <1>3, <1>10, <2>1, <3>2
  <2>4. ScopeOf(d) \notin torn
    BY <1>1, <1>2, <1>10, <2>1, <2>3
  <2> QED
    BY <2>1, <2>2, <2>3, <2>4 DEF Inductive, UntornIsAlone
<1>11. UntornIsAlone'
  <2> SUFFICES ASSUME NEW d \in Calls, InFlight(d)', ScopeOf(d)' \notin torn'
               PROVE  d \in alone' /\ before'[d] = log'[ScopeOf(d)'].after
    BY DEF UntornIsAlone
  <2>1. d \in Calls \ {c} /\ d \in alone /\ ScopeOf(d) # s
    BY <1>10
  <2>2. InFlight(d) /\ ScopeOf(d) \in Scopes /\ ScopeOf(d) \notin torn
    BY <1>1, <1>2, <2>1
  <2> QED
    BY <1>1, <1>2, <1>6, <2>1, <2>2 DEF Inductive, UntornIsAlone
<1>12. Progress'
  <2>1. \A d \in alone' : d \in alone /\ d \in Calls \ {c}
    BY <1>1 DEF Inductive, TypeOK
  <2>2. \A d \in alone' : PartlyWritten(d)' = PartlyWritten(d) /\ pc'[d] = pc[d]
    BY <1>1, <1>2, <2>1 DEF PartlyWritten
  <2> QED
    BY <1>1, <1>2, <2>1, <2>2 DEF Inductive, Progress
<1>13. LogDescribes'
  <2> SUFFICES ASSUME NEW r \in Scopes
               PROVE  /\ r \notin torn' =>
                           log'[r].after = Overlay(log'[r].target, log'[r].before)
                      /\ Settled(r)' => log'[r].after = traffic[r]
    BY <1>1 DEF LogDescribes
  <2>1. CASE r = s
    BY <1>1, <1>3, <1>4, <1>6, <1>7, <2>1 DEF Settled
  <2>2. CASE r # s
    <3>1. r \notin torn' => r \notin torn
      BY <1>1, <2>2
    <3>2. ~Writing(c, r)
      BY <1>2, <2>2 DEF Writing, ScopeOf, s
    <3>3. Settled(r)' => Settled(r)
      BY <1>2, <3>1, <3>2 DEF Settled
    <3> QED
      BY <1>6, <2>2, <3>1, <3>3 DEF Inductive, LogDescribes
  <2> QED
    BY <2>1, <2>2
<1> QED
  BY <1>5, <1>8, <1>9, <1>11, <1>12, <1>13 DEF Inductive

-----------------------------------------------------------------------------
LEMMA AbortInductive ==
    ASSUME Inductive, NEW c \in Calls, Abort(c)
    PROVE  Inductive'
<1> DEFINE s == ScopeOf(c)
           wrote == InFlight(c) /\ left[c] # DOMAIN Current(c).target
<1>1. /\ pc' = [pc EXCEPT ![c] = "done"]
      /\ left' = [left EXCEPT ![c] = {}]
      /\ alone' = alone \ {c}
      /\ torn' = IF wrote THEN torn \cup {s} ELSE torn
      /\ UNCHANGED <<traffic, log, recovering, incidents, req, pos, before, after>>
  BY DEF Abort, ScopeOf, InFlight
<1>2. /\ s \in Scopes
      /\ \A d \in Calls : ScopeOf(d) \in Scopes
      /\ \A d \in Calls : Current(d)' = Current(d) /\ ScopeOf(d)' = ScopeOf(d)
      /\ ~InFlight(c)'
      /\ \A d \in Calls \ {c} : InFlight(d)' <=> InFlight(d)
      /\ \A r \in Scopes : ~Writing(c, r)' /\ (Writing(c, r) <=> InFlight(c) /\ r = s)
      /\ \A d \in Calls \ {c}, r \in Scopes : Writing(d, r)' <=> Writing(d, r)
  BY <1>1, CurrentFields DEF Inductive, TypeOK, Current, ScopeOf, InFlight, Writing
<1> HIDE DEF s
\* Gone without having written a row, alone on an untorn scope.
<1>3. ASSUME InFlight(c), s \notin torn'
      PROVE  log[s].after = traffic[s]
  <2>1. s \notin torn /\ left[c] = DOMAIN Current(c).target
    BY <1>1, <1>3
  <2>2. c \in alone /\ before[c] = log[s].after
    BY <1>3, <2>1 DEF Inductive, UntornIsAlone, s
  <2>3. DOMAIN Current(c).target # {}
    BY <1>3, ValidShares DEF Inductive, Validated
  <2>4. pc[c] = "write"
    BY <2>1, <2>3 DEF Inductive, TypeOK
  <2>5. traffic[s] = PartlyWritten(c)
    BY <2>2, <2>4 DEF Inductive, Progress, s
  <2>6. PartlyWritten(c) = [p \in Providers |-> before[c][p]]
    BY <2>1 DEF PartlyWritten
  <2>7. before[c] \in Rows
    BY DEF Inductive, TypeOK
  <2> QED
    BY <2>2, <2>5, <2>6, <2>7 DEF Rows
<1>4. TypeOK'
  <2>1. \A d \in Calls : left'[d] \subseteq IF pc'[d] = "write"
                                           THEN DOMAIN Current(d)'.target ELSE {}
    BY <1>1, <1>2 DEF Inductive, TypeOK
  <2>2. left' \in [Calls -> SUBSET Names] /\ torn' \subseteq Scopes /\ alone' \subseteq Calls
    BY <1>1, <1>2 DEF Inductive, TypeOK
  <2> QED
    BY <1>1, <2>1, <2>2 DEF Inductive, TypeOK
<1>5. Validated'
  BY <1>1, <1>2 DEF Inductive, Validated
<1>6. AloneIsAlone'
  <2>1. \A d \in alone' : d \in alone /\ d \in Calls \ {c}
    BY <1>1 DEF Inductive, TypeOK
  <2> QED
    BY <1>2, <2>1 DEF Inductive, AloneIsAlone
<1>7. UntornIsAlone'
  <2>1. \A r \in Scopes : r \notin torn' => r \notin torn
    BY <1>1
  <2> QED
    BY <1>1, <1>2, <2>1 DEF Inductive, UntornIsAlone
<1>8. Progress'
  <2>1. \A d \in alone' : d \in alone /\ d \in Calls \ {c}
    BY <1>1 DEF Inductive, TypeOK
  <2>2. \A d \in alone' : /\ PartlyWritten(d)' = PartlyWritten(d)
                          /\ pc'[d] = pc[d] /\ left'[d] = left[d]
    BY <1>1, <1>2, <2>1 DEF PartlyWritten, Inductive, TypeOK
  <2> QED
    BY <1>1, <1>2, <2>1, <2>2 DEF Inductive, Progress
<1>9. LogDescribes'
  <2> SUFFICES ASSUME NEW r \in Scopes
               PROVE  /\ r \notin torn' =>
                           log[r].after = Overlay(log[r].target, log[r].before)
                      /\ Settled(r)' => log[r].after = traffic[r]
    BY <1>1 DEF LogDescribes
  <2>1. r \notin torn' => r \notin torn
    BY <1>1
  <2>2. CASE InFlight(c) /\ r = s
    BY <1>3, <2>1, <2>2 DEF Settled, Inductive, LogDescribes
  <2>3. CASE ~(InFlight(c) /\ r = s)
    <3>1. Settled(r)' => Settled(r)
      BY <1>2, <2>1, <2>3 DEF Settled
    <3> QED
      BY <2>1, <3>1 DEF Inductive, LogDescribes
  <2> QED
    BY <2>2, <2>3
<1> QED
  BY <1>4, <1>5, <1>6, <1>7, <1>8, <1>9 DEF Inductive

-----------------------------------------------------------------------------
LEMMA NextInductive == Inductive /\ [Next]_vars => Inductive'
<1> SUFFICES ASSUME Inductive, [Next]_vars PROVE Inductive'
  OBVIOUS
<1>1. CASE UNCHANGED vars
  BY <1>1 DEF vars, Inductive, TypeOK, Validated, AloneIsAlone, UntornIsAlone,
     Progress, LogDescribes, Settled, PartlyWritten, Writing, InFlight, ScopeOf, Current
<1>2. ASSUME NEW c \in Calls, Step(c)
      PROVE  Inductive'
  BY <1>2, OutsideInductive, BeginInductive, WriteRowInductive, ReadAfterInductive,
     InsertLogInductive, AbortInductive
  DEF Step, Outside
<1> QED
  BY <1>1, <1>2 DEF Next

LEMMA SpecInductive == Spec => []Inductive
BY InitInductive, NextInductive, PTL DEF Spec

\* Every reachable state of UpdateRouting's callers is well formed.
THEOREM TypeCorrect == Spec => []TypeOK
<1>1. Inductive => TypeOK
  BY DEF Inductive
<1> QED
  BY <1>1, SpecInductive, PTL

\* A scope that no failed or overlapped call has torn carries exactly 100% of
\* its traffic (validateRoutingPct checked the map that replaced all its rows).
THEOREM SettledSum == Spec => []SettledSumsTo100
<1>1. Inductive => SettledSumsTo100
  <2> SUFFICES ASSUME Inductive, NEW s \in Scopes, Settled(s),
                      DOMAIN log[s].target = Providers
               PROVE  SumFunction(traffic[s]) = 100
    BY DEF SettledSumsTo100
  <2>1. ValidTarget(log[s].target) /\ log[s] \in LogRow
    BY DEF Inductive, Validated, TypeOK
  <2>2. traffic[s] = Overlay(log[s].target, log[s].before)
    BY DEF Inductive, LogDescribes, Settled
  <2>3. traffic[s] = [p \in Providers |-> log[s].target[p]]
    BY <2>2 DEF Overlay
  <2>4. log[s].target = [p \in DOMAIN log[s].target |-> log[s].target[p]]
    BY <2>1, TargetsAssumption DEF LogRow
  <2>5. traffic[s] = log[s].target
    BY <2>3, <2>4
  <2> QED
    BY <2>1, <2>5 DEF ValidTarget
<1> QED
  BY <1>1, SpecInductive, PTL

\* The newest agent_change_log row of such a scope describes its configuration.
THEOREM AuditTrailHolds == Spec => []AuditTrail
<1>1. Inductive => AuditTrail
  BY DEF Inductive, LogDescribes, AuditTrail, Settled
<1> QED
  BY <1>1, SpecInductive, PTL

-----------------------------------------------------------------------------
(***************************************************************************)
(* The refinement.  The mapping reads the configuration off the calls in   *)
(* progress; by the invariant it equals what the newest change log row of  *)
(* an untorn scope says, so only the steps that change log or torn can     *)
(* move the abstract state.                                                *)
(***************************************************************************)
Mapped == [s \in Scopes |-> Config(s)]
Logged == [s \in Scopes |-> IF s \in torn THEN Torn ELSE log[s].after]

LEMMA MappedIsLogged == Inductive => Mapped = Logged
<1> SUFFICES ASSUME Inductive, NEW s \in Scopes, s \notin torn
             PROVE  Config(s) = log[s].after
  BY DEF Mapped, Logged, Config
<1>1. CASE \E c \in Calls : Writing(c, s)
  <2> DEFINE w == CHOOSE c \in Calls : Writing(c, s)
  <2>1. w \in Calls /\ Writing(w, s)
    BY <1>1
  <2>2. Config(s) = before[w]
    BY <1>1 DEF Config
  <2> HIDE DEF w
  <2>3. InFlight(w) /\ ScopeOf(w) = s
    BY <2>1 DEF Writing, InFlight, ScopeOf
  <2> QED
    BY <2>1, <2>2, <2>3 DEF Inductive, UntornIsAlone
<1>2. CASE ~ \E c \in Calls : Writing(c, s)
  <2>1. Settled(s) /\ Config(s) = traffic[s]
    BY <1>2 DEF Settled, Config
  <2> QED
    BY <2>1 DEF Inductive, LogDescribes
<1> QED
  BY <1>1, <1>2

\* A log row written by a call that ran alone is one abstract update.
LEMMA InsertLogApplies ==
    ASSUME Inductive, Mapped = Logged, Mapped' = Logged',
           NEW c \in Calls, InsertLog(c), c \in alone
    PROVE  Atomic!Apply(ScopeOf(c), Current(c).target)
<1> DEFINE s == ScopeOf(c)
           t == Current(c).target
           row == [before |-> before[c], after |-> after[c], target |-> t]
<1>1. /\ pc[c] = "log"
      /\ log' = [log EXCEPT ![s] = row]
      /\ torn' = torn \ {s}
  BY DEF InsertLog, ScopeOf
<1>2. s \in Scopes /\ InFlight(c) /\ before[c] \in Rows /\ after[c] \in Rows
  BY <1>1, CurrentFields DEF Inductive, TypeOK, InFlight, ScopeOf
<1>3. ValidTarget(t) /\ after[c] = Overlay(t, before[c])
  BY <1>1, <1>2 DEF Inductive, Validated, Progress
<1>4. s \notin torn => log[s].after = before[c]
  BY <1>2 DEF Inductive, UntornIsAlone
<1>5. row.after = after[c]
  OBVIOUS
<1> HIDE DEF s, t, row
<1>6. \A r \in Scopes : Mapped'[r] = IF r = s THEN after[c] ELSE Mapped[r]
  BY <1>1, <1>2, <1>5 DEF Inductive, TypeOK, Logged
<1>7. Mapped' = [Mapped EXCEPT ![s] = Mapped'[s]]
  <2>1. Mapped' = [r \in Scopes |-> Mapped'[r]] /\ Mapped = [r \in Scopes |-> Mapped[r]]
    BY DEF Logged
  <2> QED
    BY <1>2, <1>6, <2>1
<1>8. after[c] = Overlay(t, after[c])
  BY <1>2, <1>3 DEF Overlay, Rows
<1>9. Mapped'[s] = Overlay(t, IF Mapped[s] = Torn THEN Mapped'[s] ELSE Mapped[s])
  <2>1. CASE s \in torn
    BY <1>2, <1>6, <1>8, <2>1 DEF Logged
  <2>2. CASE s \notin torn
    <3>1. Mapped[s] = before[c] /\ before[c] # Torn
      BY <1>2, <1>4, <2>2, TornAssumption DEF Logged
    <3> QED
      BY <1>2, <1>3, <1>6, <3>1
  <2> QED
    BY <2>1, <2>2
<1>10. Mapped'[s] \in [Providers -> 0..100]
  BY <1>2, <1>6 DEF Rows, Pct
<1> QED
  BY <1>3, <1>7, <1>9, <1>10 DEF Atomic!Apply, Atomic!Pct, Mapped, s, t

\* What a step of UpdateRouting is to a reader who sees configurations only.
LEMMA StepRefines ==
    ASSUME Inductive, Mapped = Logged, Mapped' = Logged', [Next]_vars
    PROVE  [Atomic!Next]_Mapped
<1> SUFFICES ASSUME Logged' # Logged PROVE Atomic!Next
  OBVIOUS
<1>1. PICK c \in Calls : Step(c)
  BY DEF vars, Logged, Next
<1> DEFINE s == ScopeOf(c)
<1>2. s \in Scopes /\ Current(c).target \in Targets
  BY CurrentFields DEF Inductive, ScopeOf
<1>3. ASSUME log' = log, torn' \in {torn, torn \cup {s}}
      PROVE  Atomic!Next
  <2>1. Mapped' = [Mapped EXCEPT ![s] = Torn]
    BY <1>2, <1>3 DEF Logged
  <2> QED
    BY <1>2, <2>1 DEF Atomic!Next, Atomic!Tear, Mapped
<1>4. CASE InsertLog(c)
  <2>1. CASE c \in alone
    BY <1>2, <1>4, <2>1, InsertLogApplies DEF Atomic!Next
  <2>2. CASE c \notin alone
    <3>1. InFlight(c) /\ s \in torn
      BY <1>2, <1>4, <2>2 DEF Inductive, UntornIsAlone, InFlight, InsertLog
    <3>2. /\ torn' = torn
          /\ \A r \in Scopes : r # s => log'[r] = log[r]
      BY <1>4, <2>2 DEF InsertLog, ScopeOf, Inductive, TypeOK
    <3>3. Logged' = Logged
      BY <3>1, <3>2 DEF Logged
    <3> QED
      BY <3>3
  <2> QED
    BY <2>1, <2>2
<1>5. CASE Begin(c) \/ Abort(c)
  BY <1>3, <1>5 DEF Begin, Abort, ScopeOf
<1>6. CASE ~InsertLog(c) /\ ~Begin(c) /\ ~Abort(c)
  <2>1. UNCHANGED <<log, torn>>
    BY <1>1, <1>6 DEF Step, Enter, Reject, WriteRow, ReadAfter, MarkRecovery, ResolveIncident
  <2> QED
    BY <2>1 DEF Logged
<1> QED
  BY <1>4, <1>5, <1>6

\* To a reader of configurations the row by row writes of UpdateRouting happen
\* at one instant, or tear the scope: the calls implement AtomicRouting.
THEOREM Implements == Spec => ImplementsAtomic
<1>1. Init => Atomic!Init
  <2> SUFFICES ASSUME Init PROVE Mapped = Baseline
    BY DEF Atomic!Init, Mapped
  <2>1. Mapped = Logged
    BY InitInductive, MappedIsLogged
  <2>2. \A s \in Scopes : s \notin torn /\ log[s].after = Baseline[s]
    BY DEF Init
  <2>3. Logged = [s \in Scopes |-> Baseline[s]]
    BY <2>2 DEF Logged
  <2> QED
    BY <2>1, <2>3, BaselineAssumption
<1>2. (Inductive => Mapped = Logged)'
  BY MappedIsLogged, PTL
<1>3. Inductive /\ Inductive' /\ [Next]_vars => [Atomic!Next]_Mapped
  BY <1>2, MappedIsLogged, StepRefines
<1> QED
  BY <1>1, <1>3, SpecInductive, PTL DEF Spec, ImplementsAtomic, Atomic!Spec, Mapped
=============================================================================

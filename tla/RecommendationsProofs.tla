----------------------- MODULE RecommendationsProofs -----------------------
(***************************************************************************)
(* Proofs about Recommendations for any number of SKUs, calls, rows and    *)
(* cycles, whatever the codes of the SKUs.  General says what a call knows *)
(* of its row and a row of its cycle; Inductive adds whom a row in the     *)
(* hand of a call belongs to and what a dismissal has silenced.  Every     *)
(* step leaves each row as it is but for its age, takes away rows that     *)
(* were never dismissed, or adds one with a new id (Carried): all a call   *)
(* has to know of the steps of the others.                                 *)
(***************************************************************************)
EXTENDS Recommendations, WellFoundedInduction, TLAPS

Working(c) == call[c].pc \in {"apply", "cycle", "dismiss", "delete"}

\* The row of a rejection that is about to be deleted has its trace.
HasTrace(c) == \E q \in rows : q.dismissed /\ q.sku = call[c].sku /\ q.id > call[c].row

Local(c) ==
    /\ Working(c) => call[c].sku \in SKUs
    /\ call[c].row <= inserted /\ call[c].seen <= cycle
    /\ \A r \in rows : r.id = call[c].row => ~r.dismissed
    /\ call[c].kind = "scope_reject" => call[c].row = 0
    /\ call[c].kind = "reject" /\ call[c].pc = "delete" => HasTrace(c)

\* A trace is of a cycle before this one, or its rejection is remembered.
Remembered(r) == r.dismissed => r.cycle < cycle \/ (r.cycle = cycle /\ r.sku \in rejected)

General ==
    /\ TypeOK
    /\ \A r \in rows : r.id <= inserted /\ Remembered(r)
    /\ \A c \in Calls : Local(c)

\* The row in the hand of a call is one of its SKU, or the chat has found it by
\* its prefix.
OfItsSKU(c) ==
    Working(c) => \A r \in rows : r.id = call[c].row =>
        call[c].sku = r.sku \/ (call[c].kind \in Chat /\ Covers(call[c].sku, r.sku))

\* The rejection c by id has dismissed the SKU of r and not yet deleted r.
Rejecting(c, r) ==
    /\ call[c].kind = "reject" /\ call[c].sku = r.sku /\ call[c].row = r.id
    /\ call[c].pc \in {"delete", "failed"}

\* The newest dismissal that a hushed SKU covers is of this cycle, and what is
\* pending for it is about to be deleted.
Hushed(s) ==
    /\ cycle # 0
    /\ \E r \in rows : /\ r.dismissed /\ Covers(s, r.sku) /\ r.cycle >= cycle
                       /\ \A q \in rows : q.dismissed /\ Covers(s, q.sku) => q.id <= r.id
    /\ \A r \in PendingOf(s) : \E c \in Calls : Rejecting(c, r)

Inductive ==
    /\ General
    /\ \A c \in Calls : OfItsSKU(c)
    /\ \A s \in hushed : Hushed(s)

-----------------------------------------------------------------------------
(* Rows.                                                                   *)

LEMMA RowFields ==
    ASSUME TypeOK, NEW r \in rows
    PROVE  /\ r.id \in 1..MaxRows /\ r.sku \in SKUs /\ r.dismissed \in BOOLEAN
           /\ r.cycle \in 0..MaxCycles /\ r.fresh \in BOOLEAN
BY DEF TypeOK, Row

LEMMA CallFields ==
    ASSUME TypeOK, NEW c \in Calls
    PROVE  /\ call[c].pc \in {"idle", "apply", "cycle", "dismiss", "delete", "done", "failed"}
           /\ call[c].kind \in Kinds \cup {None} /\ call[c].sku \in SKUs \cup {None}
           /\ call[c].row \in 0..MaxRows /\ call[c].seen \in 0..MaxCycles
<1>1. call[c] \in Call
  BY DEF TypeOK
<1> QED
  BY <1>1 DEF Call

LEMMA Cycles ==
    ASSUME TypeOK
    PROVE  cycle \in Nat /\ 0 <= cycle /\ cycle <= cycle /\ cycle < cycle + 1
BY RecommendationsAssumption DEF TypeOK

\* ORDER BY created_at DESC LIMIT 1 finds a row, whenever there is one.
LEMMA NewestRow ==
    ASSUME TypeOK, NEW S, S \subseteq rows, S # {}
    PROVE  Newest(S) \in S /\ \A q \in S : q.id <= Newest(S).id
<1> DEFINE ages == {MaxRows - r.id : r \in S}
           less == {p \in Nat \X Nat : p[1] < p[2]}
<1>1. IsWellFoundedOn(less, Nat)
  BY NatLessThanWellFounded DEF OpToRel
<1>2. MaxRows \in Nat /\ \A r \in S : r.id \in 1..MaxRows
  BY RowFields, RecommendationsAssumption
<1>3. ages \subseteq Nat /\ ages # {}
  BY <1>2
<1>4. PICK a \in ages : \A b \in ages : <<b, a>> \notin less
  <2> HIDE DEF ages, less
  <2> QED
    BY <1>1, <1>3, WFMin
<1>5. PICK r \in S : a = MaxRows - r.id
  BY <1>4
<1>6. \A q \in S : q.id <= r.id
  <2> SUFFICES ASSUME NEW q \in S PROVE q.id <= r.id
    OBVIOUS
  <2>1. /\ MaxRows - q.id \in Nat /\ MaxRows - r.id \in Nat
        /\ <<MaxRows - q.id, MaxRows - r.id>> \notin less
    BY <1>3, <1>4, <1>5
  <2>2. ~(MaxRows - q.id < MaxRows - r.id)
    BY <2>1
  <2>3. q.id \in 1..MaxRows /\ r.id \in 1..MaxRows /\ MaxRows \in Nat
    BY <1>2
  <2> QED
    BY <2>2, <2>3
<1> QED
  BY <1>6 DEF Newest

\* q is what has become of r.
Like(r, q) ==
    /\ q.id = r.id /\ q.sku = r.sku /\ q.cycle = r.cycle
    /\ q.dismissed <=> r.dismissed
    /\ q.fresh => r.fresh

Carried ==
    /\ inserted' \in {inserted, inserted + 1}
    /\ \A q \in rows' : \/ \E r \in rows : Like(r, q)
                        \/ q.id = inserted + 1 /\ inserted' = inserted + 1
    /\ \A r \in rows : r.dismissed => \E q \in rows' : Like(r, q)

RowsTyped ==
    /\ rows \subseteq Row
    /\ \A r, q \in rows : r.id = q.id => r = q
    /\ inserted \in 0..MaxRows
    /\ \A r \in rows : r.id <= inserted

LEMMA InsertCarries ==
    ASSUME General, NEW s \in SKUs, NEW dismissed \in BOOLEAN, NEW n \in 0..MaxCycles,
           Insert(s, dismissed, n)
    PROVE  /\ Carried /\ RowsTyped'
           /\ \A q \in rows' : q \in rows \/ /\ q.id = inserted + 1 /\ q.sku = s
                                             /\ q.dismissed <=> dismissed
                                             /\ q.cycle = n /\ q.fresh
           /\ \E q \in rows' : q.id = inserted + 1 /\ q.sku = s /\ q.dismissed = dismissed
           /\ rows \subseteq rows' /\ inserted' = inserted + 1 /\ inserted + 1 \in 1..MaxRows
<1> DEFINE new == [id |-> NextId, sku |-> s, dismissed |-> dismissed, cycle |-> n, fresh |-> TRUE]
<1>1. inserted \in 0..MaxRows /\ MaxRows \in Nat /\ inserted < MaxRows
  BY RecommendationsAssumption DEF General, TypeOK, Insert
<1>2. inserted' = inserted + 1 /\ rows' = rows \cup {new}
  BY DEF Insert, NextId
<1>3. inserted + 1 \in 1..MaxRows
  BY <1>1
<1>4. new \in Row
  BY <1>3 DEF Row, NextId
<1>5. /\ new.id = inserted + 1 /\ new.sku = s /\ new.dismissed = dismissed
      /\ new.cycle = n /\ new.fresh
  BY DEF NextId
<1> HIDE DEF new
<1>6. \A r \in rows : r.id \in 1..MaxRows /\ r.id <= inserted /\ Like(r, r)
  BY RowFields DEF General, Like
<1>7. Carried
  BY <1>2, <1>5, <1>6 DEF Carried
<1>8. RowsTyped'
  <2>1. rows' \subseteq Row /\ inserted' \in 0..MaxRows
    BY <1>2, <1>3, <1>4 DEF General, TypeOK
  <2>2. \A r \in rows' : r.id <= inserted'
    BY <1>1, <1>2, <1>5, <1>6
  <2>3. \A r \in rows : r.id # new.id
    BY <1>1, <1>5, <1>6
  <2>4. \A r, q \in rows' : r.id = q.id => r = q
    BY <1>2, <2>3 DEF General, TypeOK
  <2> QED
    BY <2>1, <2>2, <2>4 DEF RowsTyped
<1> QED
  BY <1>2, <1>3, <1>5, <1>7, <1>8

LEMMA RemoveCarries ==
    ASSUME General, rows' \subseteq rows, inserted' = inserted,
           \A r \in rows : r.dismissed => r \in rows'
    PROVE  Carried /\ RowsTyped'
<1>1. \A r \in rows : Like(r, r)
  BY DEF Like
<1> QED
  BY <1>1 DEF Carried, RowsTyped, General, TypeOK

LEMMA AgeCarries ==
    ASSUME General, rows' = {[r EXCEPT !.fresh = FALSE] : r \in rows}, inserted' = inserted
    PROVE  Carried /\ RowsTyped'
<1>1. \A r \in rows : /\ [r EXCEPT !.fresh = FALSE] \in Row
                      /\ Like(r, [r EXCEPT !.fresh = FALSE])
                      /\ [r EXCEPT !.fresh = FALSE].id = r.id
  BY DEF General, TypeOK, Row, Like
<1>2. Carried
  BY <1>1 DEF Carried
<1>3. rows' \subseteq Row /\ \A q \in rows' : q.id <= inserted'
  BY <1>1 DEF General
<1>4. \A q, p \in rows' : q.id = p.id => q = p
  <2> SUFFICES ASSUME NEW q \in rows', NEW p \in rows', q.id = p.id PROVE q = p
    OBVIOUS
  <2>1. PICK r \in rows : q = [r EXCEPT !.fresh = FALSE]
    OBVIOUS
  <2>2. PICK t \in rows : p = [t EXCEPT !.fresh = FALSE]
    OBVIOUS
  <2>3. r.id = t.id
    BY <1>1, <2>1, <2>2
  <2> QED
    BY <2>1, <2>2, <2>3 DEF General, TypeOK
<1> QED
  BY <1>2, <1>3, <1>4 DEF RowsTyped, General, TypeOK

-----------------------------------------------------------------------------
(* What a call keeps while others step.                                    *)

LEMMA LocalKept ==
    ASSUME General, Carried, NEW d \in Calls, call'[d] = call[d],
           cycle' \in {cycle, cycle + 1}
    PROVE  Local(d)'
<1>1. Local(d) /\ inserted \in Nat /\ inserted' \in Nat /\ inserted <= inserted'
  BY RecommendationsAssumption DEF General, TypeOK, Carried
<1>2. call[d].row \in Nat /\ call[d].seen <= cycle'
  <2>1. call[d].row \in Nat /\ call[d].seen \in Nat /\ cycle \in Nat
    BY CallFields, Cycles, RecommendationsAssumption DEF General
  <2> QED
    BY <1>1, <2>1 DEF Local
<1>3. \A r \in rows' : r.id = call[d].row => ~r.dismissed
  BY <1>1, <1>2 DEF Carried, Like, Local
<1>4. HasTrace(d) => HasTrace(d)'
  <2> SUFFICES ASSUME NEW q \in rows, q.dismissed, q.sku = call[d].sku, q.id > call[d].row
               PROVE  HasTrace(d)'
    BY DEF HasTrace
  <2> QED
    BY DEF Carried, Like, HasTrace
<1> QED
  BY <1>1, <1>2, <1>3, <1>4 DEF Local, Working

LEMMA OfItsSKUKept ==
    ASSUME General, Carried, NEW d \in Calls, call'[d] = call[d], OfItsSKU(d)
    PROVE  OfItsSKU(d)'
<1>1. call[d].row \in Nat /\ inserted \in Nat /\ call[d].row <= inserted
  BY CallFields DEF General, TypeOK, Local
<1> QED
  BY <1>1 DEF Carried, Like, OfItsSKU, Working

\* A rejection that has still to delete its row goes on, deletes it, or is lost.
RejectionsGoOn ==
    \A c \in Calls, r \in rows : Rejecting(c, r) =>
        \/ call'[c] = call[c]
        \/ \A q \in rows' : q.id # r.id
        \/ /\ call'[c].kind = call[c].kind /\ call'[c].sku = call[c].sku
           /\ call'[c].row = call[c].row /\ call'[c].pc = "failed"

LEMMA HushedKept ==
    ASSUME General, RowsTyped', Carried, cycle' = cycle, NEW s \in SKUs, Hushed(s),
           \A q \in rows' : q.id = inserted + 1 /\ q.dismissed /\ Covers(s, q.sku)
              => q.cycle >= cycle,
           \A q \in rows' : q.id = inserted + 1 /\ q.sku = s => q.dismissed,
           RejectionsGoOn
    PROVE  Hushed(s)'
<1>1. PICK r \in rows : /\ r.dismissed /\ Covers(s, r.sku) /\ r.cycle >= cycle
                        /\ \A q \in rows : q.dismissed /\ Covers(s, q.sku) => q.id <= r.id
  BY DEF Hushed
<1>2. \E p \in rows' : /\ p.dismissed /\ Covers(s, p.sku) /\ p.cycle >= cycle
                       /\ \A q \in rows' : q.dismissed /\ Covers(s, q.sku) => q.id <= p.id
  <2>1. CASE \E p \in rows' : p.id = inserted + 1 /\ p.dismissed /\ Covers(s, p.sku)
    <3>1. PICK p \in rows' : p.id = inserted + 1 /\ p.dismissed /\ Covers(s, p.sku)
      BY <2>1
    <3>2. \A q \in rows' : q.id <= inserted + 1
      BY DEF RowsTyped, Carried, Row, General, TypeOK
    <3> QED
      BY <3>1, <3>2
  <2>2. CASE ~ \E p \in rows' : p.id = inserted + 1 /\ p.dismissed /\ Covers(s, p.sku)
    <3>1. PICK p \in rows' : Like(r, p)
      BY <1>1 DEF Carried
    <3>2. ASSUME NEW q \in rows', q.dismissed, Covers(s, q.sku)
          PROVE  q.id <= r.id
      <4>1. PICK t \in rows : Like(t, q)
        BY <2>2, <3>2 DEF Carried
      <4> QED
        BY <1>1, <3>2, <4>1 DEF Like
    <3> QED
      BY <1>1, <3>1, <3>2 DEF Like
  <2> QED
    BY <2>1, <2>2
<1>3. ASSUME NEW q \in rows', ~q.dismissed, q.fresh, q.sku = s
      PROVE  \E c \in Calls : Rejecting(c, q)'
  <2>1. PICK t \in rows : Like(t, q)
    BY <1>3 DEF Carried
  <2>2. t \in PendingOf(s)
    BY <1>3, <2>1 DEF Like, PendingOf
  <2>3. PICK c \in Calls : Rejecting(c, t)
    BY <2>2 DEF Hushed
  <2>4. Rejecting(c, q)'
    BY <2>1, <2>3 DEF Rejecting, RejectionsGoOn, Like
  <2> QED
    BY <2>4
<1> QED
  BY <1>2, <1>3 DEF Hushed, PendingOf

-----------------------------------------------------------------------------
(* What is left to show of a step.                                         *)

LEMMA GeneralKept ==
    ASSUME General, Carried, RowsTyped', call' \in [Calls -> Call],
           cycle' \in 0..MaxCycles, turns' \in 0..Turns,
           need' \subseteq SKUs, maintained' \subseteq SKUs, hushed' \subseteq SKUs,
           rejected' \subseteq SKUs, cycle' \in {cycle, cycle + 1},
           cycle' = cycle => rejected \subseteq rejected',
           \A q \in rows' : q.id = inserted + 1 => Remembered(q)',
           \A d \in Calls : call'[d] = call[d] \/ Local(d)'
    PROVE  General'
<1>1. TypeOK'
  BY DEF TypeOK, RowsTyped
<1>2. \A d \in Calls : Local(d)'
  BY LocalKept
<1>3. ASSUME NEW q \in rows' PROVE Remembered(q)'
  <2>1. cycle \in Nat /\ cycle' \in Nat
    BY Cycles DEF General
  <2>2. CASE \E r \in rows : Like(r, q)
    <3>1. PICK r \in rows : Like(r, q)
      BY <2>2
    <3>2. Remembered(r) /\ r.cycle \in Nat
      BY RowFields, RecommendationsAssumption DEF General
    <3> QED
      BY <2>1, <3>1, <3>2 DEF Remembered, Like
  <2> QED
    BY <2>2 DEF Carried
<1> QED
  BY <1>1, <1>2, <1>3 DEF General, RowsTyped

LEMMA InductiveKept ==
    ASSUME Inductive, Carried, General', cycle' = cycle, hushed' \subseteq hushed,
           \A q \in rows' : q.id = inserted + 1 => ~q.dismissed /\ q.sku \notin hushed',
           \A d \in Calls : call'[d] = call[d] \/ OfItsSKU(d)',
           RejectionsGoOn
    PROVE  Inductive'
<1>1. \A d \in Calls : OfItsSKU(d)'
  BY OfItsSKUKept DEF Inductive
<1>2. RowsTyped'
  BY DEF RowsTyped, General, TypeOK
<1>3. ASSUME NEW s \in hushed' PROVE Hushed(s)'
  <2>1. s \in SKUs /\ Hushed(s) /\ General
    BY DEF Inductive, General, TypeOK
  <2> QED
    BY <1>2, <2>1, HushedKept
<1> QED
  BY <1>1, <1>3 DEF Inductive

\* A step that inserts nothing, or a row that is not dismissed.
LEMMA NothingToRemember ==
    ASSUME General, \A q \in rows' : q \in rows \/ ~q.dismissed
    PROVE  \A q \in rows' : q.id = inserted + 1 => Remembered(q)'
<1>1. \A q \in rows : q.id # inserted + 1
  BY RowFields, RecommendationsAssumption DEF General, TypeOK
<1> QED
  BY <1>1 DEF Remembered

LEMMA CallSet ==
    ASSUME TypeOK, NEW c \in Calls, NEW record \in Call, Set(c, record)
    PROVE  /\ call' \in [Calls -> Call] /\ call'[c] = record
           /\ \A d \in Calls : d # c => call'[d] = call[d]
BY DEF TypeOK, Set

LEMMA CallGoes ==
    ASSUME TypeOK, NEW c \in Calls,
           NEW label \in {"idle", "apply", "cycle", "dismiss", "delete", "done", "failed"},
           Goto(c, label)
    PROVE  /\ call' \in [Calls -> Call] /\ call'[c].pc = label
           /\ call'[c].kind = call[c].kind /\ call'[c].sku = call[c].sku
           /\ call'[c].row = call[c].row /\ call'[c].seen = call[c].seen
           /\ \A d \in Calls : d # c => call'[d] = call[d]
<1>1. call[c] \in Call
  BY DEF TypeOK
<1>2. [call[c] EXCEPT !.pc = label] \in Call
  BY <1>1 DEF Call
<1> QED
  BY <1>1, <1>2, CallSet DEF Goto, Call

LEMMA CallEnds ==
    ASSUME TypeOK, NEW c \in Calls, Set(c, Outside("done"))
    PROVE  /\ call' \in [Calls -> Call] /\ call'[c].pc = "done" /\ call'[c].kind = None
           /\ call'[c].row = 0 /\ call'[c].seen = 0
           /\ \A d \in Calls : d # c => call'[d] = call[d]
<1>1. Outside("done") \in Call
  BY RecommendationsAssumption DEF Outside, Call
<1> QED
  BY <1>1, CallSet DEF Outside

-----------------------------------------------------------------------------
(* The steps of a call.  The handler it belongs to matters where two       *)
(* handlers share a step.                                                  *)

LEMMA SameRows ==
    ASSUME General, UNCHANGED <<rows, inserted>>
    PROVE  Carried /\ RowsTyped'
BY RemoveCarries

LEMMA OthersStay ==
    ASSUME General, NEW c \in Calls, \A d \in Calls : d # c => call'[d] = call[d],
           call[c].kind = "reject" => call[c].pc \notin {"delete", "failed"}
    PROVE  RejectionsGoOn
BY DEF RejectionsGoOn, Rejecting

\* The call takes hold of a row that is there, or of none.
LEMMA LoadKeeps ==
    ASSUME General, NEW c \in Calls, call[c].pc = "idle",
           UNCHANGED <<cycle, need, maintained, turns, rows, inserted, hushed, rejected>>,
           NEW k \in Kinds, NEW s \in SKUs, NEW label \in {"apply", "cycle", "delete"},
           NEW n \in 0..MaxRows,
           Set(c, [pc |-> label, kind |-> k, sku |-> s, row |-> n, seen |-> 0]),
           n = 0 \/ \E r \in rows : ~r.dismissed /\ r.id = n,
           k = "scope_reject" => n = 0,
           ~(k = "reject" /\ label = "delete")
    PROVE  /\ General'
           /\ /\ Inductive
              /\ \A r \in rows : r.id = n => s = r.sku \/ (k \in Chat /\ Covers(s, r.sku))
              => Inductive'
<1> DEFINE record == [pc |-> label, kind |-> k, sku |-> s, row |-> n, seen |-> 0]
<1>1. TypeOK /\ Carried /\ RowsTyped'
  BY SameRows DEF General
<1>2. record \in Call
  BY RecommendationsAssumption DEF Call
<1>3. /\ call' \in [Calls -> Call] /\ call'[c] = record
      /\ \A d \in Calls : d # c => call'[d] = call[d]
  BY <1>1, <1>2, CallSet
<1>4. \A r \in rows : r.id = n => ~r.dismissed
  BY <1>1, RowFields DEF TypeOK
<1>5. n <= inserted
  BY <1>1, RecommendationsAssumption DEF General, TypeOK
<1>6. Local(c)'
  BY <1>1, <1>3, <1>4, <1>5, Cycles DEF Local, Working
<1>7. General'
  BY <1>1, <1>3, <1>6, GeneralKept DEF General, TypeOK
<1>8. ASSUME Inductive,
             \A r \in rows : r.id = n => s = r.sku \/ (k \in Chat /\ Covers(s, r.sku))
      PROVE  Inductive'
  <2>1. OfItsSKU(c)'
    BY <1>3, <1>8 DEF OfItsSKU
  <2>2. RejectionsGoOn
    BY <1>3, OthersStay
  <2>3. \A q \in rows' : q.id # inserted + 1
    BY <1>1, RowFields, RecommendationsAssumption DEF General, TypeOK
  <2> QED
    BY <1>1, <1>3, <1>7, <1>8, <2>1, <2>2, <2>3, InductiveKept
<1> QED
  BY <1>7, <1>8

LEMMA LoadByIdKeeps ==
    ASSUME General, NEW c \in Calls, call[c].pc = "idle", NEW k \in Kinds, LoadById(c, k),
           UNCHANGED <<cycle, need, maintained, turns, rejected>>
    PROVE  General' /\ (Inductive => Inductive')
<1>1. UNCHANGED <<rows, inserted, hushed>> /\ k \in ById
  BY DEF LoadById
<1>2. PICK r \in rows : /\ ~r.dismissed
                        /\ Set(c, [pc |-> IF k = "approve" THEN "apply" ELSE "cycle",
                                   kind |-> k, sku |-> r.sku, row |-> r.id, seen |-> 0])
  BY DEF LoadById
<1>3. r.id \in 0..MaxRows /\ r.sku \in SKUs
  BY RowFields, RecommendationsAssumption DEF General
<1>4. k # "scope_reject"
  BY <1>1 DEF ById
<1>5. \A q \in rows : q.id = r.id => q.sku = r.sku
  BY DEF General, TypeOK
<1> QED
  BY <1>1, <1>2, <1>3, <1>4, <1>5, LoadKeeps

LEMMA DismissScopeKeeps ==
    ASSUME General, NEW c \in Calls, call[c].pc = "idle", NEW k \in Kinds, NEW s \in SKUs,
           DismissScope(c, k, s), UNCHANGED <<cycle, need, maintained, turns, rejected>>
    PROVE  General' /\ (Inductive => Inductive')
<1>1. /\ UNCHANGED <<rows, inserted, hushed>>
      /\ Set(c, [pc |-> "cycle", kind |-> k, sku |-> s, row |-> 0, seen |-> 0])
  BY DEF DismissScope
<1>2. 0 \in 0..MaxRows /\ \A r \in rows : r.id # 0
  BY RowFields, RecommendationsAssumption DEF General
<1> QED
  BY <1>1, <1>2, LoadKeeps

LEMMA LatestKeeps ==
    ASSUME General, NEW c \in Calls, call[c].pc = "idle", NEW k \in Kinds, NEW s \in SKUs,
           LatestForScope(c, k, s), UNCHANGED <<cycle, need, maintained, turns, rejected>>
    PROVE  General' /\ (Inductive => Inductive')
<1> DEFINE r == Newest(PendingLike(s))
<1>1. /\ UNCHANGED <<rows, inserted, hushed>> /\ k \in Chat
      /\ Set(c, [pc |-> IF k = "chat_approve" THEN "apply" ELSE "delete",
                 kind |-> k, sku |-> s, row |-> r.id, seen |-> 0])
  BY DEF LatestForScope
<1>2. r \in PendingLike(s)
  BY NewestRow DEF LatestForScope, General, PendingLike
<1> HIDE DEF r
<1>3. r \in rows /\ ~r.dismissed /\ Matches(s, r)
  BY <1>2 DEF PendingLike
<1>4. r.id \in 0..MaxRows
  BY <1>3, RowFields, RecommendationsAssumption DEF General
<1>5. k # "scope_reject" /\ k # "reject"
  BY <1>1 DEF Chat
<1>6. \A q \in rows : q.id = r.id => q = r
  BY <1>3 DEF General, TypeOK
<1>7. Covers(s, r.sku)
  BY <1>3 DEF Matches
<1> QED
  BY <1>1, <1>3, <1>4, <1>5, <1>6, <1>7, LoadKeeps

LEMMA InsertOwnKeeps ==
    ASSUME General, NEW c \in Calls, call[c].pc = "idle", NEW k \in Kinds, NEW s \in SKUs,
           InsertOwn(c, k, s), UNCHANGED <<cycle, need, maintained, turns, rejected>>
    PROVE  General' /\ (Inductive => Inductive')
<1> DEFINE record == [pc |-> "apply", kind |-> k, sku |-> s, row |-> NextId, seen |-> 0]
<1>1. /\ Insert(s, FALSE, 0) /\ Set(c, record) /\ hushed' = hushed \ {s}
      /\ k = "scope_approve"
  BY DEF InsertOwn
<1>2. TypeOK /\ 0 \in 0..MaxCycles
  BY RecommendationsAssumption DEF General
<1>3. /\ Carried /\ RowsTyped' /\ inserted' = inserted + 1 /\ inserted + 1 \in 1..MaxRows
      /\ \A q \in rows' : q \in rows \/ (q.id = inserted + 1 /\ q.sku = s /\ ~q.dismissed)
  BY <1>1, <1>2, InsertCarries
<1>4. record \in Call
  BY <1>2, <1>3, RecommendationsAssumption DEF Call, NextId
<1>5. /\ call' \in [Calls -> Call] /\ call'[c] = record
      /\ \A d \in Calls : d # c => call'[d] = call[d]
  BY <1>1, <1>2, <1>4, CallSet
<1>6. \A q \in rows : q.id # inserted + 1
  BY RowFields, RecommendationsAssumption DEF General, TypeOK
<1>7. Local(c)'
  <2>1. inserted' \in Nat /\ call'[c].row = inserted'
    BY <1>3, <1>5, RecommendationsAssumption DEF NextId
  <2> QED
    BY <1>1, <1>2, <1>3, <1>5, <1>6, <2>1, Cycles DEF Local, Working
<1>8. General'
  BY <1>1, <1>2, <1>3, <1>5, <1>7, GeneralKept, NothingToRemember DEF TypeOK
<1>9. ASSUME Inductive PROVE Inductive'
  <2>1. OfItsSKU(c)'
    BY <1>3, <1>5, <1>6 DEF OfItsSKU, NextId
  <2>2. RejectionsGoOn
    BY <1>5, OthersStay
  <2>3. \A q \in rows' : q.id = inserted + 1 => q.sku = s /\ ~q.dismissed
    BY <1>3, <1>6
  <2> QED
    BY <1>1, <1>3, <1>5, <1>8, <1>9, <2>1, <2>2, <2>3, InductiveKept
<1> QED
  BY <1>8, <1>9
LEMMA BeginKeeps ==
    ASSUME General, NEW c \in Calls, Begin(c)
    PROVE  General' /\ (Inductive => Inductive')
<1>1. PICK k \in Kinds, s \in SKUs :
         LoadById(c, k) \/ InsertOwn(c, k, s) \/ DismissScope(c, k, s) \/ LatestForScope(c, k, s)
  BY DEF Begin
<1>2. call[c].pc = "idle" /\ UNCHANGED <<cycle, need, maintained, turns, rejected>>
  BY DEF Begin
<1> QED
  BY <1>1, <1>2, LoadByIdKeeps, InsertOwnKeeps, DismissScopeKeeps, LatestKeeps

\* The call moves on with the row it has in hand.
LEMMA GoesOnKeeps ==
    ASSUME General, NEW c \in Calls,
           UNCHANGED <<rows, inserted, cycle, turns, need, hushed, rejected>>,
           maintained' \subseteq SKUs, call' \in [Calls -> Call],
           \A d \in Calls : d # c => call'[d] = call[d],
           call'[c].kind = call[c].kind, call'[c].sku = call[c].sku,
           call'[c].row = call[c].row, call'[c].seen <= cycle, call'[c].pc # "idle",
           Working(c)' => Working(c),
           call'[c].kind = "reject" => call'[c].pc # "delete",
           \/ call'[c].pc = "failed"
           \/ call[c].kind = "reject" => call[c].pc \notin {"delete", "failed"}
    PROVE  General' /\ (Inductive => Inductive')
<1>1. Carried /\ RowsTyped'
  BY SameRows
<1>2. Local(c)'
  BY DEF Local, General
<1>3. General'
  BY <1>1, <1>2, GeneralKept DEF General, TypeOK
<1>4. RejectionsGoOn
  BY DEF RejectionsGoOn, Rejecting
<1>5. \A q \in rows' : q.id # inserted + 1
  BY RowFields, RecommendationsAssumption DEF General, TypeOK
<1>6. ASSUME Inductive PROVE OfItsSKU(c)'
  BY <1>6 DEF OfItsSKU, Inductive
<1> QED
  BY <1>1, <1>3, <1>4, <1>5, <1>6, InductiveKept

LEMMA ApplyKeeps ==
    ASSUME General, NEW c \in Calls, Apply(c), call[c].kind # "reject"
    PROVE  General' /\ (Inductive => Inductive')
<1>1. /\ call[c].pc = "apply" /\ Goto(c, "delete")
      /\ maintained' = maintained \cup {call[c].sku}
      /\ UNCHANGED <<rows, inserted, cycle, turns, need, hushed, rejected>>
  BY DEF Apply
<1>2. TypeOK /\ call[c].sku \in SKUs /\ Working(c)
  BY <1>1 DEF General, Local, Working
<1>3. maintained' \subseteq SKUs
  BY <1>1, <1>2 DEF TypeOK
<1>4. /\ call' \in [Calls -> Call] /\ call'[c].pc = "delete"
      /\ call'[c].kind = call[c].kind /\ call'[c].sku = call[c].sku
      /\ call'[c].row = call[c].row /\ call'[c].seen <= cycle
      /\ \A d \in Calls : d # c => call'[d] = call[d]
  BY <1>1, <1>2, CallGoes DEF General, Local
<1> QED
  BY <1>1, <1>2, <1>3, <1>4, GoesOnKeeps, Cycles

LEMMA ReadCycleKeeps ==
    ASSUME General, NEW c \in Calls, ReadCycle(c)
    PROVE  General' /\ (Inductive => Inductive')
<1>1. /\ call[c].pc = "cycle" /\ Set(c, [call[c] EXCEPT !.pc = "dismiss", !.seen = cycle])
      /\ UNCHANGED <<rows, inserted, cycle, need, maintained, turns, hushed, rejected>>
  BY DEF ReadCycle
<1>2. TypeOK /\ Working(c) /\ maintained' \subseteq SKUs
  BY <1>1 DEF General, Working, TypeOK
<1>3. call[c] \in Call /\ cycle \in 0..MaxCycles
  BY <1>2 DEF TypeOK
<1>4. [call[c] EXCEPT !.pc = "dismiss", !.seen = cycle] \in Call
  BY <1>3 DEF Call
<1>5. /\ call' \in [Calls -> Call] /\ \A d \in Calls : d # c => call'[d] = call[d]
      /\ call'[c] = [call[c] EXCEPT !.pc = "dismiss", !.seen = cycle]
  BY <1>1, <1>2, <1>4, CallSet
<1>6. /\ call'[c].pc = "dismiss" /\ call'[c].kind = call[c].kind
      /\ call'[c].sku = call[c].sku /\ call'[c].row = call[c].row /\ call'[c].seen <= cycle
  BY <1>2, <1>3, <1>5, Cycles DEF Call
<1> QED
  BY <1>1, <1>2, <1>5, <1>6, GoesOnKeeps, Cycles

LEMMA LostKeeps ==
    ASSUME General, NEW c \in Calls, Lost(c)
    PROVE  General' /\ (Inductive => Inductive')
<1>1. /\ call[c].pc \notin {"idle", "done", "failed"} /\ Goto(c, "failed")
      /\ UNCHANGED <<rows, inserted, cycle, need, maintained, turns, hushed, rejected>>
  BY DEF Lost
<1>2. TypeOK /\ maintained' \subseteq SKUs
  BY <1>1 DEF General, TypeOK
<1>3. /\ call' \in [Calls -> Call] /\ call'[c].pc = "failed"
      /\ call'[c].kind = call[c].kind /\ call'[c].sku = call[c].sku
      /\ call'[c].row = call[c].row /\ call'[c].seen <= cycle
      /\ \A d \in Calls : d # c => call'[d] = call[d]
  BY <1>1, <1>2, CallGoes DEF General, Local
<1> QED
  BY <1>1, <1>2, <1>3, GoesOnKeeps, Cycles DEF Working

LEMMA RemoveKeeps ==
    ASSUME General, NEW c \in Calls, Remove(c)
    PROVE  General' /\ (Inductive => Inductive')
<1>1. /\ rows' = {r \in rows : r.id # call[c].row} /\ Set(c, Outside("done"))
      /\ UNCHANGED <<inserted, cycle, need, maintained, turns, hushed, rejected>>
  BY DEF Remove
<1>2. TypeOK /\ Local(c)
  BY DEF General
<1>3. Carried /\ RowsTyped'
  <2>1. \A r \in rows : r.dismissed => r \in rows'
    BY <1>1, <1>2 DEF Local
  <2> QED
    BY <1>1, <2>1, RemoveCarries
<1>4. /\ call' \in [Calls -> Call] /\ call'[c].pc = "done" /\ call'[c].kind = None
      /\ call'[c].row = 0 /\ call'[c].seen = 0
      /\ \A d \in Calls : d # c => call'[d] = call[d]
  BY <1>1, <1>2, CallEnds
<1>5. Local(c)'
  <2>1. \A r \in rows' : r.id # 0
    BY <1>1, <1>2, RowFields, RecommendationsAssumption
  <2>2. 0 <= inserted'
    BY <1>1, <1>2, RecommendationsAssumption DEF TypeOK
  <2> QED
    BY <1>1, <1>2, <1>4, <2>1, <2>2, Cycles DEF Local, Working
<1>6. General'
  BY <1>1, <1>2, <1>3, <1>4, <1>5, GeneralKept, NothingToRemember DEF TypeOK
<1>7. RejectionsGoOn
  BY <1>1, <1>4 DEF RejectionsGoOn, Rejecting
<1>8. \A q \in rows' : q.id # inserted + 1
  BY <1>1, RowFields, RecommendationsAssumption DEF General, TypeOK
<1>9. OfItsSKU(c)'
  BY <1>4 DEF OfItsSKU, Working
<1> QED
  BY <1>1, <1>3, <1>4, <1>6, <1>7, <1>8, <1>9, InductiveKept
\* The trace of a rejection is younger than every row, and is hushed only when
\* nothing but the row of the rejection is left for its SKU.
LEMMA DismissKeeps ==
    ASSUME General, NEW c \in Calls, Dismiss(c), call[c].kind \in {"reject", "scope_reject"}
    PROVE  General' /\ (Inductive => Inductive')
<1> DEFINE s == call[c].sku
           alone == {r \in PendingOf(s) : r.id # call[c].row} = {}
<1>1. /\ call[c].pc = "dismiss" /\ Insert(s, TRUE, call[c].seen)
      /\ IF call[c].kind = "reject" THEN Goto(c, "delete") ELSE Set(c, Outside("done"))
      /\ UNCHANGED <<cycle, need, maintained, turns>>
      /\ hushed' = IF call[c].seen # cycle THEN {t \in hushed : ~Covers(t, s)}
                   ELSE IF cycle # 0 /\ alone THEN hushed \cup {s} ELSE hushed
      /\ rejected' = IF call[c].seen = cycle THEN rejected \cup {s} ELSE rejected
  BY DEF Dismiss
<1>2. TypeOK /\ Local(c) /\ s \in SKUs /\ call[c].seen \in 0..MaxCycles /\ call[c].row \in Nat
  BY <1>1, CallFields DEF General, Local, Working
<1>3. /\ Carried /\ RowsTyped' /\ inserted' = inserted + 1 /\ inserted + 1 \in 1..MaxRows
      /\ \A q \in rows' : q \in rows \/ /\ q.id = inserted + 1 /\ q.sku = s
                                        /\ q.dismissed /\ q.cycle = call[c].seen
      /\ \E q \in rows' : q.id = inserted + 1 /\ q.sku = s /\ q.dismissed
  <2>1. General /\ s \in SKUs /\ TRUE \in BOOLEAN /\ Insert(s, TRUE, call[c].seen)
    BY <1>1, <1>2
  <2> HIDE DEF s
  <2>2. /\ Carried /\ RowsTyped' /\ inserted' = inserted + 1 /\ inserted + 1 \in 1..MaxRows
        /\ \A q \in rows' : q \in rows \/ /\ q.id = inserted + 1 /\ q.sku = s
                                          /\ q.dismissed <=> TRUE
                                          /\ q.cycle = call[c].seen /\ q.fresh
        /\ \E q \in rows' : q.id = inserted + 1 /\ q.sku = s /\ q.dismissed = TRUE
    BY <1>2, <2>1, InsertCarries
  <2> QED
    BY <2>2, Zenon
<1>4. \A q \in rows : q.id # inserted + 1
  BY RowFields, RecommendationsAssumption DEF General, TypeOK
<1>5. /\ call' \in [Calls -> Call] /\ \A d \in Calls : d # c => call'[d] = call[d]
      /\ \/ /\ call[c].kind = "reject" /\ call'[c].pc = "delete" /\ call'[c].kind = "reject"
            /\ call'[c].sku = s /\ call'[c].row = call[c].row
         \/ /\ call[c].kind = "scope_reject" /\ call'[c].pc = "done" /\ call'[c].kind = None
            /\ call'[c].row = 0
      /\ call'[c].seen \in {0, call[c].seen}
  <2>1. CASE call[c].kind = "reject"
    BY <1>1, <1>2, <2>1, CallGoes
  <2>2. CASE call[c].kind # "reject"
    BY <1>1, <1>2, <2>2, CallEnds
  <2> QED
    BY <2>1, <2>2
<1>6. call'[c].row \in Nat /\ call'[c].row <= inserted /\ inserted \in Nat
  BY <1>2, <1>5, RecommendationsAssumption DEF Local, TypeOK
<1>7. Local(c)'
  <2>1. call'[c].row <= inserted'
    BY <1>3, <1>6
  <2>2. \A q \in rows' : q.id = call'[c].row => ~q.dismissed
    <3> SUFFICES ASSUME NEW q \in rows', q.id = call'[c].row PROVE ~q.dismissed
      OBVIOUS
    <3>1. q \in rows /\ q.id # 0
      BY <1>2, <1>3, <1>6, RowFields
    <3> QED
      BY <1>2, <1>5, <3>1 DEF Local
  <2>3. call'[c].kind = "reject" /\ call'[c].pc = "delete" => HasTrace(c)'
    BY <1>3, <1>5, <1>6 DEF HasTrace
  <2>4. call'[c].seen <= cycle'
    BY <1>1, <1>2, <1>5, Cycles DEF Local
  <2> QED
    BY <1>2, <1>5, <2>1, <2>2, <2>3, <2>4 DEF Local, Working
<1>8. General'
  <2>1. hushed' \subseteq SKUs /\ rejected' \subseteq SKUs /\ rejected \subseteq rejected'
    BY <1>1, <1>2 DEF TypeOK
  <2>2. \A q \in rows' : q.id = inserted + 1 => Remembered(q)'
    <3>1. call[c].seen < cycle \/ call[c].seen = cycle
      BY <1>2, RecommendationsAssumption DEF Local, TypeOK
    <3> QED
      BY <1>1, <1>3, <1>4, <3>1 DEF Remembered
  <2> HIDE DEF s
  <2> QED
    BY <1>1, <1>2, <1>3, <1>5, <1>7, <2>1, <2>2, GeneralKept DEF TypeOK
<1>9. ASSUME Inductive PROVE Inductive'
  <2>1. RejectionsGoOn
    BY <1>1, <1>5, OthersStay
  <2>2. \A d \in Calls : OfItsSKU(d)'
    <3>1. OfItsSKU(c)'
      <4>1. OfItsSKU(c) /\ Working(c)
        BY <1>1, <1>9 DEF Inductive, Working
      <4> QED
        BY <1>3, <1>5, <1>6, <4>1 DEF OfItsSKU, Working
    <3>2. ASSUME NEW d \in Calls, d # c PROVE OfItsSKU(d)'
      BY <1>3, <1>5, <1>9, <3>2, OfItsSKUKept DEF Inductive
    <3> QED
      BY <3>1, <3>2
  <2>3. ASSUME NEW t \in hushed', t \in hushed PROVE Hushed(t)'
    <3>1. t \in SKUs /\ Hushed(t)
      BY <1>2, <1>9, <2>3 DEF Inductive, TypeOK
    <3>2. ~Covers(t, s) \/ call[c].seen = cycle
      BY <1>1, <2>3
    <3>3. /\ \A q \in rows' : q.id = inserted + 1 /\ q.dismissed /\ Covers(t, q.sku)
               => q.cycle >= cycle
          /\ \A q \in rows' : q.id = inserted + 1 /\ q.sku = t => q.dismissed
      BY <1>2, <1>3, <1>4, <3>2, RecommendationsAssumption DEF TypeOK
    <3>4. cycle' = cycle
      BY <1>1
    <3> HIDE DEF s
    <3> QED
      BY <1>3, <2>1, <3>1, <3>3, <3>4, HushedKept
  <2>4. ASSUME NEW t \in hushed', t \notin hushed PROVE Hushed(t)'
    <3>1. t = s /\ cycle # 0 /\ alone /\ call[c].seen = cycle
      BY <1>1, <2>4
    <3>2. PICK q \in rows' : q.id = inserted + 1 /\ q.sku = s /\ q.dismissed
      BY <1>3
    <3>3. q.cycle >= cycle
      BY <1>2, <1>3, <1>4, <3>1, <3>2, RecommendationsAssumption DEF TypeOK
    <3>4. \A r \in rows' : r.id <= q.id
      BY <1>3, <3>2 DEF RowsTyped
    <3>5. ASSUME NEW r \in rows', ~r.dismissed, r.fresh, r.sku = s
          PROVE  Rejecting(c, r)'
      <4>1. r \in PendingOf(s)
        BY <1>3, <3>5 DEF PendingOf
      <4>2. r.id = call[c].row
        BY <3>1, <4>1
      <4>3. r.id # 0
        BY <1>2, <4>1, RowFields, RecommendationsAssumption DEF PendingOf
      <4> QED
        BY <1>2, <1>5, <3>5, <4>2, <4>3 DEF Rejecting, Local
    <3> QED
      BY <1>1, <3>1, <3>2, <3>3, <3>4, <3>5 DEF Hushed, PendingOf, Covers
  <2> QED
    BY <1>8, <2>2, <2>3, <2>4 DEF Inductive
<1> QED
  BY <1>8, <1>9

-----------------------------------------------------------------------------
(* The steps of the agent and of the world.                                *)

LEMMA RecommendKeeps ==
    ASSUME General, NEW s \in SKUs, Recommend(s)
    PROVE  General' /\ (Inductive => Inductive')
<1>1. /\ cycle < MaxCycles /\ Insert(s, FALSE, cycle + 1) /\ hushed' = hushed \ {s}
      /\ UNCHANGED <<cycle, need, maintained, turns, call, rejected>>
  BY DEF Recommend
<1>2. TypeOK /\ cycle + 1 \in 0..MaxCycles
  BY <1>1, RecommendationsAssumption DEF General, TypeOK
<1>3. /\ Carried /\ RowsTyped'
      /\ \A q \in rows' : q \in rows \/ (q.sku = s /\ ~q.dismissed)
  BY <1>1, <1>2, InsertCarries
<1>4. General'
  BY <1>1, <1>2, <1>3, GeneralKept, NothingToRemember DEF TypeOK
<1>5. \A q \in rows : q.id # inserted + 1
  BY RowFields, RecommendationsAssumption DEF General, TypeOK
<1>6. RejectionsGoOn
  BY <1>1 DEF RejectionsGoOn
<1> QED
  BY <1>1, <1>3, <1>4, <1>5, <1>6, InductiveKept

\* A step without a call that inserts nothing and ends no cycle.
LEMMA OutsideKeeps ==
    ASSUME General, Carried, RowsTyped', inserted' = inserted,
           UNCHANGED <<cycle, call, hushed, rejected>>,
           turns' \in 0..Turns, need' \subseteq SKUs, maintained' \subseteq SKUs
    PROVE  General' /\ (Inductive => Inductive')
<1>1. \A q \in rows' : q.id # inserted + 1
  BY RecommendationsAssumption DEF Carried, Like, General, TypeOK, Row, RowsTyped
<1>2. General'
  BY <1>1, GeneralKept DEF General, TypeOK
<1>3. RejectionsGoOn
  BY DEF RejectionsGoOn
<1> QED
  BY <1>1, <1>2, <1>3, InductiveKept

LEMMA AutoResolveKeeps ==
    ASSUME General, NEW s \in SKUs, AutoResolve(s)
    PROVE  General' /\ (Inductive => Inductive')
<1>1. /\ rows' = rows \ {r \in rows : ~r.dismissed /\ Matches(s, r)}
      /\ UNCHANGED <<inserted, cycle, need, maintained, turns, call, hushed, rejected>>
  BY DEF AutoResolve
<1>2. Carried /\ RowsTyped'
  BY <1>1, RemoveCarries
<1> QED
  BY <1>1, <1>2, OutsideKeeps DEF General, TypeOK

LEMMA WorldKeeps ==
    ASSUME General, World
    PROVE  General' /\ (Inductive => Inductive')
<1>1. turns < Turns /\ turns' = turns + 1 /\ UNCHANGED <<inserted, cycle, call, hushed, rejected>>
  BY DEF World
<1>2. turns' \in 0..Turns /\ need \subseteq SKUs /\ maintained \subseteq SKUs
  BY <1>1, RecommendationsAssumption DEF General, TypeOK
<1>3. \/ UNCHANGED rows /\ need' \subseteq SKUs /\ maintained' \subseteq SKUs
      \/ /\ rows' = {[r EXCEPT !.fresh = FALSE] : r \in rows}
         /\ UNCHANGED <<need, maintained>>
  BY <1>2 DEF World
<1>4. Carried /\ RowsTyped'
  BY <1>1, <1>3, SameRows, AgeCarries
<1> QED
  BY <1>1, <1>2, <1>3, <1>4, OutsideKeeps

LEMMA FinishCycleKeeps ==
    ASSUME General, FinishCycle
    PROVE  General' /\ (Inductive => Inductive')
<1>1. /\ cycle < MaxCycles /\ cycle' = cycle + 1 /\ hushed' = {} /\ rejected' = {}
      /\ UNCHANGED <<rows, inserted, need, maintained, turns, call>>
  BY DEF FinishCycle
<1>2. cycle' \in 0..MaxCycles
  BY <1>1, RecommendationsAssumption DEF General, TypeOK
<1>3. Carried /\ RowsTyped'
  BY <1>1, SameRows
<1>4. General'
  BY <1>1, <1>2, <1>3, GeneralKept DEF General, TypeOK
<1>5. ASSUME Inductive, NEW d \in Calls PROVE OfItsSKU(d)'
  BY <1>1, <1>3, <1>5, OfItsSKUKept DEF Inductive
<1> QED
  BY <1>1, <1>4, <1>5 DEF Inductive

-----------------------------------------------------------------------------
(* Every step.                                                             *)

LEMMA Initially == Init => General /\ Inductive
<1> SUFFICES ASSUME Init PROVE General /\ Inductive
  OBVIOUS
<1>1. /\ rows = {} /\ inserted = 0 /\ cycle = 0 /\ turns = 0
      /\ need \subseteq SKUs /\ maintained = {} /\ hushed = {} /\ rejected = {}
      /\ call = [c \in Calls |-> Outside("idle")]
  BY DEF Init
<1>2. Outside("idle") \in Call
  BY RecommendationsAssumption DEF Outside, Call
<1>3. {MaxCycles, MaxRows, Turns, Losses} \subseteq Nat
  BY RecommendationsAssumption
<1>4. TypeOK
  <2>1. call \in [Calls -> Call]
    BY <1>1, <1>2
  <2>2. MaxCycles \in Nat /\ MaxRows \in Nat /\ Turns \in Nat
    BY <1>3
  <2> QED
    BY <1>1, <2>1, <2>2 DEF TypeOK
<1>5. \A c \in Calls : call[c].pc = "idle" /\ call[c].row = 0
  BY <1>1 DEF Outside
<1>6. \A c \in Calls : Local(c) /\ OfItsSKU(c)
  <2> SUFFICES ASSUME NEW c \in Calls PROVE Local(c) /\ OfItsSKU(c)
    OBVIOUS
  <2>1. call[c].row <= inserted /\ call[c].seen <= cycle
    BY <1>1, <1>5 DEF Outside
  <2> QED
    BY <1>1, <1>5, <2>1 DEF Local, OfItsSKU, Working
<1> QED
  BY <1>1, <1>4, <1>6 DEF General, Inductive

\* The kind of the request tells which handler it is in.
LEMMA HandlerSteps ==
    ASSUME NEW c \in Calls, Step(c)
    PROVE  \/ Begin(c) \/ ReadCycle(c) \/ Remove(c) \/ Lost(c)
           \/ Apply(c) /\ call[c].kind # "reject"
           \/ Dismiss(c) /\ call[c].kind \in {"reject", "scope_reject"}
<1>1. Apply(c) \/ Dismiss(c) => call[c].pc # "idle"
  BY DEF Apply, Dismiss
<1> QED
  BY <1>1 DEF Step, Does, handleRecommendationApprove, handleRecommendationReject,
              handleScopeMaintenanceApprove, handleScopeMaintenanceReject,
              chatApproveScopeMaintenance, chatRejectScopeMaintenance

LEMMA StepKeeps ==
    ASSUME General, [Next]_vars
    PROVE  General' /\ (Inductive => Inductive')
<1>1. CASE UNCHANGED vars
  <2>1. UNCHANGED <<rows, inserted, cycle, need, maintained, turns, call, hushed, rejected>>
    BY <1>1 DEF vars
  <2>2. turns' \in 0..Turns /\ need' \subseteq SKUs /\ maintained' \subseteq SKUs
    BY <2>1 DEF General, TypeOK
  <2> QED
    BY <2>1, <2>2, SameRows, OutsideKeeps
<1>2. ASSUME NEW c \in Calls, Step(c)
      PROVE  General' /\ (Inductive => Inductive')
  BY <1>2, HandlerSteps, BeginKeeps, ApplyKeeps, ReadCycleKeeps, DismissKeeps, RemoveKeeps,
     LostKeeps
<1>3. ASSUME NEW s \in SKUs, Recommend(s) \/ AutoResolve(s)
      PROVE  General' /\ (Inductive => Inductive')
  BY <1>3, RecommendKeeps, AutoResolveKeeps
<1> QED
  BY <1>1, <1>2, <1>3, FinishCycleKeeps, WorldKeeps DEF Next

LEMMA SpecGeneral == Spec => []General
<1>1. General /\ [Next]_vars => General'
  BY StepKeeps
<1> QED
  BY Initially, <1>1, PTL DEF Spec

LEMMA SpecInductive == Spec => []Inductive
<1>1. Inductive /\ [Next]_vars => Inductive'
  BY StepKeeps DEF Inductive
<1> QED
  BY Initially, <1>1, PTL DEF Spec
-----------------------------------------------------------------------------
(* The theorems.                                                           *)

\* Whatever the SKUs, the requests and the bounds, the table and the requests
\* are well typed, and no two recommendations have the same id.
THEOREM TypeCorrect == Spec => []TypeOK
<1>1. General => TypeOK
  BY DEF General
<1> QED
  BY SpecGeneral, <1>1, PTL

\* What may happen to the table in one step.
LEMMA RowsStep ==
    ASSUME [Next]_vars
    PROVE  \/ rows \subseteq rows'
           \/ \E c \in Calls : Remove(c)
           \/ \E s \in SKUs : AutoResolve(s)
           \/ rows' = {[r EXCEPT !.fresh = FALSE] : r \in rows} /\ UNCHANGED call
<1>1. ASSUME NEW c \in Calls, Step(c), ~Remove(c) PROVE rows \subseteq rows'
  <2>1. Begin(c) => rows \subseteq rows'
    BY DEF Begin, LoadById, InsertOwn, DismissScope, LatestForScope, Insert
  <2>2. ReadCycle(c) \/ Lost(c) \/ Apply(c) \/ Dismiss(c) => rows \subseteq rows'
    BY DEF ReadCycle, Lost, Apply, Dismiss, Insert
  <2> QED
    BY <1>1, <2>1, <2>2, HandlerSteps
<1>2. ASSUME NEW s \in SKUs, Recommend(s) PROVE rows \subseteq rows'
  BY <1>2 DEF Recommend, Insert
<1>3. CASE FinishCycle \/ UNCHANGED vars
  BY <1>3 DEF FinishCycle, vars
<1>4. CASE World
  BY <1>4 DEF World
<1> QED
  BY <1>1, <1>2, <1>3, <1>4 DEF Next

\* A request that rejects a recommendation by id deletes it only once the
\* trace of the rejection is in the table, and nothing ever deletes a trace:
\* for any number of requests, whatever the codes, wherever requests die.
THEOREM TraceIsLeft == Spec => RejectLeavesTrace
<1>1. ASSUME General, [Next]_vars, NEW r \in rows, r.dismissed
      PROVE  \E q \in rows' : q.id = r.id
  <2>1. ASSUME NEW c \in Calls, Remove(c) PROVE r \in rows'
    BY <1>1, <2>1 DEF Remove, General, Local
  <2>2. ASSUME NEW s \in SKUs, AutoResolve(s) PROVE r \in rows'
    BY <1>1, <2>2 DEF AutoResolve
  <2>3. CASE rows' = {[t EXCEPT !.fresh = FALSE] : t \in rows}
    <3>1. r \in Row
      BY <1>1 DEF General, TypeOK
    <3>2. [r EXCEPT !.fresh = FALSE].id = r.id
      BY <3>1 DEF Row
    <3> QED
      BY <1>1, <2>3, <3>2
  <2> QED
    BY <1>1, <2>1, <2>2, <2>3, RowsStep
<1>2. ASSUME General, [Next]_vars, NEW c \in Calls, call[c].kind = "reject",
             rows' \subseteq rows, rows' # rows, call'[c] # call[c]
      PROVE  \E q \in rows' : q.dismissed /\ q.sku = call[c].sku /\ q.id > call[c].row
  <2>1. ~ \E s \in SKUs : AutoResolve(s)
    BY <1>2 DEF AutoResolve
  <2>2. PICK d \in Calls : Remove(d)
    BY <1>2, <2>1, RowsStep
  <2>3. d = c
    BY <1>2, <2>2 DEF Remove, Set, General, TypeOK
  <2>4. HasTrace(c) /\ \A r \in rows : r.id = call[c].row => ~r.dismissed
    BY <1>2, <2>2, <2>3 DEF Remove, MayRemove, General, Local
  <2>5. rows' = {r \in rows : r.id # call[c].row}
    BY <2>2, <2>3 DEF Remove
  <2> QED
    BY <2>4, <2>5 DEF HasTrace
<1>3. General /\ [Next]_vars =>
        [/\ \A r \in rows : r.dismissed => \E q \in rows' : q.id = r.id
         /\ \A c \in Calls :
              call[c].kind = "reject" /\ rows' \subseteq rows /\ rows' # rows /\ call'[c] # call[c]
                => \E q \in rows' : q.dismissed /\ q.sku = call[c].sku /\ q.id > call[c].row]_vars
  BY <1>1, <1>2
<1> QED
  BY <1>3, SpecGeneral, PTL DEF Spec, RejectLeavesTrace

\* While maintenance of a SKU is warranted the poll shows it, unless a rejection
\* of this cycle covers it: for any number of requests, rows and cycles, whatever
\* the codes, and however requests and cycles overlap.
THEOREM NoSilenceOutlivesItsCycle == Spec => []SilenceEndsWithCycle
<1>1. ASSUME General, NEW s \in SKUs, Warranted(s), ~Shown(s)
      PROVE  \E t \in rejected : Covers(s, t)
  <2> DEFINE d == DismissedLike(s)
  <2>1. DismissedThisCycle(d)
    BY <1>1 DEF Shown, LiveSuggestion
  <2>2. d \subseteq rows /\ d # {} /\ Newest(d).cycle >= cycle
    BY <2>1 DEF DismissedThisCycle, DismissedLike
  <2>3. Newest(d) \in d
    <3> HIDE DEF d
    <3> QED
      BY <1>1, <2>2, NewestRow DEF General
  <2>4. Newest(d) \in rows /\ Newest(d).dismissed /\ Matches(s, Newest(d))
    BY <2>3 DEF DismissedLike
  <2>5. Remembered(Newest(d)) /\ Newest(d).cycle \in Nat /\ cycle \in Nat
    BY <1>1, <2>4, RowFields, RecommendationsAssumption DEF General, TypeOK
  <2> HIDE DEF d
  <2> QED
    BY <2>2, <2>4, <2>5 DEF Remembered, Matches
<1>2. General => SilenceEndsWithCycle
  BY <1>1 DEF SilenceEndsWithCycle
<1> QED
  BY SpecGeneral, <1>2, PTL

\* A dismissal with nothing left to show keeps the poll silent for the rest of
\* the cycle, whatever is dismissed for SKUs with similar codes, unless one of
\* those read an older cycle.
THEOREM DismissalsHold == Spec => []DismissalHolds
<1>1. ASSUME Inductive, NEW s \in hushed, Shown(s)
      PROVE  \E c \in Calls : /\ call[c].kind = "reject" /\ call[c].sku = s
                              /\ call[c].pc \in {"delete", "failed"}
  <2> DEFINE d == DismissedLike(s)
  <2>1. Hushed(s) /\ s \in SKUs /\ TypeOK
    BY <1>1 DEF Inductive, General, TypeOK
  <2>2. PICK r \in rows : /\ r.dismissed /\ Covers(s, r.sku) /\ r.cycle >= cycle
                          /\ \A q \in rows : q.dismissed /\ Covers(s, q.sku) => q.id <= r.id
    BY <2>1 DEF Hushed
  <2>3. r \in d /\ d \subseteq rows
    BY <2>2 DEF DismissedLike, Matches
  <2>4. Newest(d) \in d /\ r.id <= Newest(d).id
    <3> HIDE DEF d
    <3> QED
      BY <2>1, <2>3, NewestRow
  <2>5. Newest(d) \in rows /\ Newest(d).dismissed /\ Covers(s, Newest(d).sku)
    BY <2>4 DEF DismissedLike, Matches
  <2>6. Newest(d).id <= r.id
    BY <2>2, <2>5
  <2>7. Newest(d) = r
    <3>1. r.id \in Nat /\ Newest(d).id \in Nat
      BY <2>1, <2>2, <2>5, RowFields, RecommendationsAssumption
    <3> HIDE DEF d
    <3> QED
      BY <2>1, <2>2, <2>4, <2>5, <2>6, <3>1 DEF TypeOK
  <2>8. DismissedThisCycle(d)
    BY <2>1, <2>2, <2>3, <2>7 DEF DismissedThisCycle, Hushed
  <2>9. PICK p \in PendingOf(s) : TRUE
    BY <1>1, <2>8 DEF Shown, LiveSuggestion
  <2>10. PICK c \in Calls : Rejecting(c, p)
    BY <2>1, <2>9 DEF Hushed
  <2> QED
    BY <2>9, <2>10 DEF Rejecting, PendingOf
<1>2. Inductive => DismissalHolds
  BY <1>1 DEF DismissalHolds
<1> QED
  BY SpecInductive, <1>2, PTL

\* A recommendation disappears only by a decision on its own SKU, by one in the
\* chat on a SKU that covers it, or because such a SKU recovered.
THEOREM DecisionsStayAlike == Spec => DecisionsReachOnlyAlike
<1>1. ASSUME Inductive, [Next]_vars, NEW r \in rows, \A p \in rows' : p.id # r.id
      PROVE  \/ \E s \in SKUs \ need : Covers(s, r.sku)
             \/ \E c \in Calls : DecidesOn(c, r)
  <2>1. r \notin rows' /\ r \in Row
    BY <1>1 DEF Inductive, General, TypeOK
  <2>2. ASSUME NEW c \in Calls, Remove(c)
        PROVE  DecidesOn(c, r)
    <3>1. call[c].pc = "delete" /\ call[c].row = r.id
      BY <1>1, <2>1, <2>2 DEF Remove, MayRemove
    <3> QED
      BY <1>1, <3>1 DEF Inductive, OfItsSKU, Working, DecidesOn
  <2>3. ASSUME NEW s \in SKUs, AutoResolve(s)
        PROVE  s \notin need /\ Covers(s, r.sku)
    BY <1>1, <2>1, <2>3 DEF AutoResolve, Matches
  <2>4. CASE rows' = {[t EXCEPT !.fresh = FALSE] : t \in rows}
    <3>1. [r EXCEPT !.fresh = FALSE].id = r.id
      BY <2>1 DEF Row
    <3> QED
      BY <1>1, <2>4, <3>1
  <2> QED
    BY <1>1, <2>1, <2>2, <2>3, <2>4, RowsStep
<1>2. Inductive /\ [Next]_vars =>
        [\A r \in {q \in rows : \A p \in rows' : p.id # q.id} :
           \/ \E s \in SKUs \ need : Covers(s, r.sku)
           \/ \E c \in Calls : DecidesOn(c, r)]_vars
  BY <1>1
<1> QED
  BY <1>2, SpecInductive, PTL DEF Spec, DecisionsReachOnlyAlike
=============================================================================

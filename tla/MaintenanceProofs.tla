------------------------- MODULE MaintenanceProofs -------------------------
(***************************************************************************)
(* Proofs about Maintenance for any number of calls, skus, providers and   *)
(* windows.  A window that is over stays over and one that is cancelled    *)
(* stays cancelled, whatever the others do: with that each call can be     *)
(* looked at by itself (Local).  What two of them do to one provider is in *)
(* Reserved: a call between its check and its insert has the provider to   *)
(* itself, or the pair is contested.                                       *)
(***************************************************************************)
EXTENDS Maintenance, WellFoundedInduction, TLAPS

Labels == {"idle", "page", "check", "insert", "rollback", "sweep", "orphans", "late", "count",
           "again", "last", "ids", "route", "cancel", "measure", "extend", "choose", "shift", "drop"}
          \cup Ended

\* Kinds of requests that open windows.
Openers == {"approve", "auto", "batch", "all", "chat", "named"}

IsSpan(s) == s[1] \in Nat /\ s[2] \in Nat /\ s[1] < s[2]

Over(i) == ~rows[i].open \/ rows[i].to <= now

\* Some time is after every window.
Bounded == \E b \in Nat : \A i \in DOMAIN rows : rows[i].to <= b

\* A call asks for a span whenever it is about to use one.
HasSpan(c) ==
    /\ pc[c] \in {"check", "insert"} => req[c].kind \in Openers
    /\ pc[c] # "idle" /\ req[c].kind \in Openers \cup {"extend"} => IsSpan(span[c])
    /\ pc[c] = "extend" => IsSpan(span[c])

\* What a call that undoes its windows has left open.
Undoing(c) ==
    /\ pc[c] \in {"idle", "choose", "shift", "drop"} => opened[c] = {}
    /\ pc[c] = "rollback" /\ c \notin gone => \A i \in opened[c] \ undo[c] : ~rows[i].open
    /\ pc[c] = "failed" /\ c \notin gone => \A i \in opened[c] : ~rows[i].open

EndsMet(c) == \A i \in met[c] : Over(i)

\* What a reopening has ended, by where it stands and what failed it: once two
\* statements have, nothing is known.
Sweeping(c) ==
    /\ pc[c] \in {"idle", "page", "ids", "sweep", "orphans"} => missed[c] = 0
    /\ pc[c] \in {"count", "again"} /\ missed[c] = 0 => EndsMet(c)
    /\ pc[c] \in {"late", "last", "route", "done"} /\ missed[c] <= 1 => EndsMet(c)

Local(c) ==
    /\ HasSpan(c)
    /\ Undoes(req[c].kind) => Undoing(c)
    /\ \A i \in met[c] : rows[i].sku = req[c].sku
    /\ req[c].kind \in Reopenings => Sweeping(c)

\* Nothing is in the way of a call about to insert, and nobody else is.
Free(c) ==
    /\ \A i \in DOMAIN rows : Of(Target(c), rows[i]) /\ rows[i].to > now => ~Meets(rows[i], span[c])
    /\ \A d \in Calls : pc[d] = "insert" /\ Target(d) = Target(c) => d = c

Reserved ==
    /\ DisjointUnlessContested
    /\ \A c \in Calls : pc[c] = "insert" /\ Target(c) \notin contested => Free(c)

\* Every call has its fields.
Fields == DOMAIN span = Calls /\ DOMAIN cur = Calls /\ DOMAIN undo = Calls

Inductive ==
    /\ TypeOK
    /\ Fields
    /\ Bounded
    /\ \A c \in Calls : Local(c)
    /\ Reserved
-----------------------------------------------------------------------------
(* Windows.                                                                *)

LEMMA RowFields ==
    ASSUME TypeOK, NEW i \in DOMAIN rows
    PROVE  /\ rows[i].sku \in SKUs /\ rows[i].provider \in Providers
           /\ rows[i].from \in Nat /\ rows[i].to \in Nat /\ rows[i].from < rows[i].to
           /\ rows[i].open \in BOOLEAN
<1>1. rows[i] \in Row /\ rows[i].from < rows[i].to
  BY DEF TypeOK
<1> QED
  BY <1>1 DEF Row

\* No window is opened or moved.
Weaker ==
    /\ DOMAIN rows' = DOMAIN rows
    /\ \A i \in DOMAIN rows :
         /\ rows'[i] \in Row /\ rows'[i].sku = rows[i].sku /\ rows'[i].provider = rows[i].provider
         /\ rows'[i].from = rows[i].from /\ rows'[i].to = rows[i].to
         /\ rows'[i].open => rows[i].open

\* No window is opened again, and none comes back once it is over.
Onward ==
    /\ DOMAIN rows \subseteq DOMAIN rows'
    /\ \A i \in DOMAIN rows :
         /\ rows'[i].sku = rows[i].sku
         /\ rows'[i].open => rows[i].open
         /\ Over(i) => Over(i)'

LEMMA SameIsWeaker ==
    ASSUME TypeOK, rows' = rows
    PROVE  Weaker
BY DEF Weaker, TypeOK

LEMMA CancelRows ==
    ASSUME TypeOK, NEW ids, rows' = Cancel(ids)
    PROVE  Weaker /\ \A i \in DOMAIN rows : rows'[i].open <=> rows[i].open /\ i \notin ids
<1>1. DOMAIN rows' = DOMAIN rows
  BY DEF Cancel
<1>2. ASSUME NEW i \in DOMAIN rows
      PROVE  /\ rows'[i] \in Row /\ rows'[i].sku = rows[i].sku
             /\ rows'[i].provider = rows[i].provider
             /\ rows'[i].from = rows[i].from /\ rows'[i].to = rows[i].to
             /\ rows'[i].open = (rows[i].open /\ i \notin ids)
  <2> DEFINE o == rows[i].open /\ i \notin ids
  <2>1. rows'[i] = [rows[i] EXCEPT !.open = o]
    BY DEF Cancel
  <2>2. rows[i] \in Row /\ o \in BOOLEAN
    BY RowFields DEF TypeOK
  <2> HIDE DEF o
  <2>3. /\ rows'[i] \in Row /\ rows'[i].sku = rows[i].sku
        /\ rows'[i].provider = rows[i].provider
        /\ rows'[i].from = rows[i].from /\ rows'[i].to = rows[i].to
        /\ rows'[i].open = o
    BY <2>1, <2>2 DEF Row
  <2> QED
    BY <2>3 DEF o
<1>3. \A i \in DOMAIN rows : rows'[i].open <=> rows[i].open /\ i \notin ids
  BY <1>2, Zenon
<1> QED
  BY <1>1, <1>2, <1>3 DEF Weaker

LEMMA WeakerIsOnward ==
    ASSUME TypeOK, Weaker, now' \in Nat, now <= now'
    PROVE  Onward
<1>1. now \in Nat
  BY TimesAssumption DEF TypeOK
<1> QED
  BY <1>1, RowFields DEF Weaker, Onward, Over

\* The first of some times.
LEMMA FirstOf ==
    ASSUME NEW T \in SUBSET Nat, T # {}
    PROVE  \E t \in T : \A u \in T : t <= u
<1> DEFINE less == {p \in Nat \X Nat : p[1] < p[2]}
<1>1. IsWellFoundedOn(less, Nat)
  BY NatLessThanWellFounded DEF OpToRel
<1>2. PICK t \in T : \A u \in T : <<u, t>> \notin less
  <2> HIDE DEF less
  <2> QED
    BY <1>1, WFMin
<1>3. ASSUME NEW u \in T PROVE t <= u
  <2>1. u \in Nat /\ t \in Nat /\ ~(u < t)
    BY <1>2
  <2> QED
    BY <2>1
<1> QED
  BY <1>3

LEMMA MinIsThere ==
    ASSUME NEW T \in SUBSET Nat, T # {}
    PROVE  Min(T) \in T /\ \A u \in T : Min(T) <= u
BY FirstOf DEF Min

LEMMA MaxIsThere ==
    ASSUME NEW T \in SUBSET Nat, T # {}, NEW b \in Nat, \A t \in T : t <= b
    PROVE  Max(T) \in T /\ \A u \in T : u <= Max(T)
<1> DEFINE U == {b - t : t \in T}
<1>1. U \in SUBSET Nat /\ U # {}
  <2>1. ASSUME NEW t \in T PROVE b - t \in Nat
    <3>1. t \in Nat /\ t <= b
      OBVIOUS
    <3> QED
      BY <3>1
  <2> QED
    BY <2>1
<1>2. PICK v \in U : \A w \in U : v <= w
  <2> HIDE DEF U
  <2> QED
    BY <1>1, FirstOf
<1>3. PICK t \in T : v = b - t
  BY <1>2
<1>4. \A u \in T : t >= u
  <2> SUFFICES ASSUME NEW u \in T PROVE t >= u
    OBVIOUS
  <2>1. b - t <= b - u /\ t \in Nat /\ u \in Nat
    BY <1>2, <1>3
  <2> QED
    BY <2>1
<1>5. \E x \in T : \A y \in T : x >= y
  BY <1>4
<1>6. Max(T) \in T /\ \A y \in T : Max(T) >= y
  BY <1>5 DEF Max
<1> QED
  BY <1>6

-----------------------------------------------------------------------------
(* What the steps of one call leave the others.                            *)

Same(d) ==
    /\ pc'[d] = pc[d] /\ span'[d] = span[d] /\ rest'[d] = rest[d] /\ cur'[d] = cur[d]
    /\ opened'[d] = opened[d] /\ undo'[d] = undo[d] /\ view'[d] = view[d]
    /\ met'[d] = met[d] /\ missed'[d] = missed[d]

LEMMA LocalKept ==
    ASSUME Inductive, Onward, gone \subseteq gone', req' = req, NEW d \in Calls, Same(d)
    PROVE  Local(d)'
<1>1. opened[d] \subseteq DOMAIN rows /\ met[d] \subseteq DOMAIN rows /\ Local(d)
  BY DEF Inductive, TypeOK
<1>2. HasSpan(d)'
  BY <1>1 DEF Same, HasSpan, Local
<1>3. Undoes(req[d].kind) => Undoing(d)'
  BY <1>1 DEF Same, Undoing, Local, Onward
<1>4. /\ \A i \in met[d] : rows'[i].sku = req[d].sku
      /\ EndsMet(d) => \A i \in met[d] : Over(i)'
  BY <1>1 DEF Local, Onward, EndsMet
<1>5. req[d].kind \in Reopenings => Sweeping(d)'
  BY <1>1, <1>4 DEF Same, Local, Sweeping, EndsMet
<1> QED
  BY <1>2, <1>3, <1>4, <1>5 DEF Local, Same

\* Whoever stands between check and insert stood there before.
LEMMA ReservedKept ==
    ASSUME Inductive, Weaker, req' = req, now' \in Nat, now <= now',
           contested \subseteq contested',
           \A d \in Calls : pc'[d] = "insert" =>
              pc[d] = "insert" /\ cur'[d] = cur[d] /\ span'[d] = span[d]
    PROVE  Reserved'
<1>1. now \in Nat /\ \A i \in DOMAIN rows : rows[i].to \in Nat
  BY RowFields, TimesAssumption DEF Inductive, TypeOK
<1>2. ASSUME NEW x \in Pairs \ contested'
      PROVE  DisjointAt(x)'
  <2>1. DisjointAt(x)
    BY <1>2 DEF Inductive, Reserved, DisjointUnlessContested
  <2> QED
    BY <1>1, <2>1 DEF DisjointAt, Weaker, Of
<1>3. ASSUME NEW c \in Calls, pc'[c] = "insert", Target(c)' \notin contested'
      PROVE  Free(c)'
  <2>1. Free(c) /\ Target(c)' = Target(c) /\ span'[c] = span[c]
    BY <1>3 DEF Inductive, Reserved, Target
  <2>2. \A d \in Calls : pc'[d] = "insert" => pc[d] = "insert" /\ Target(d)' = Target(d)
    BY DEF Target
  <2>3. \A i \in DOMAIN rows' : Of(Target(c)', rows'[i]) /\ rows'[i].to > now'
                                   => ~Meets(rows'[i], span'[c])
    BY <1>1, <2>1 DEF Free, Weaker, Of, Meets
  <2> QED
    BY <2>1, <2>2, <2>3 DEF Free
<1> QED
  BY <1>2, <1>3 DEF Reserved, DisjointUnlessContested
LEMMA WeakerKeepsRows ==
    ASSUME Inductive, Weaker
    PROVE  /\ DOMAIN rows' \subseteq Ids
           /\ \A i \in DOMAIN rows' : rows'[i] \in Row /\ rows'[i].from < rows'[i].to
           /\ Bounded'
<1>1. DOMAIN rows' = DOMAIN rows /\ DOMAIN rows \subseteq Ids
  BY DEF Weaker, Inductive, TypeOK
<1>2. \A i \in DOMAIN rows : rows'[i] \in Row /\ rows'[i].from < rows'[i].to
  BY RowFields DEF Weaker, Inductive
<1>3. PICK b \in Nat : \A i \in DOMAIN rows : rows[i].to <= b
  BY DEF Inductive, Bounded
<1>4. \A i \in DOMAIN rows' : rows'[i].to <= b
  BY <1>1, <1>3 DEF Weaker
<1> QED
  BY <1>1, <1>2, <1>4 DEF Bounded

\* A step that cancels at most, and goes on to a label that is not "insert".
LEMMA GoingKeeps ==
    ASSUME Inductive, NEW c \in Calls, NEW label \in Labels \ {"idle", "insert", "rollback"},
           Going(c, label), pc[c] # "idle", Weaker,
           UNCHANGED <<now, seq, req, span, cur, opened, undo, view, met, gone, contested>>,
           missed' \in [Calls -> Nat], \A d \in Calls : d # c => missed'[d] = missed[d],
           rest' \in [Calls -> SUBSET Providers], \A d \in Calls : d # c => rest'[d] = rest[d],
           label = "check" => req[c].kind \in Openers,
           label = "extend" => IsSpan(span[c]),
           Undoes(req[c].kind) /\ label \in {"choose", "shift", "drop", "failed"}
              => opened[c] = {},
           req[c].kind \in Reopenings => Sweeping(c)'
    PROVE  Inductive'
<1>1. TypeOK /\ now \in Nat /\ Local(c)
  BY TimesAssumption DEF Inductive, TypeOK
<1>2. /\ pc' \in [Calls -> Labels] /\ pc'[c] = label
      /\ \A d \in Calls : d # c => pc'[d] = pc[d]
  BY <1>1 DEF Going, TypeOK, Labels
<1>3. Onward
  BY <1>1, WeakerIsOnward
<1>4. TypeOK'
  <2>1. DOMAIN rows' = DOMAIN rows
    BY DEF Weaker
  <2>2. \A d \in Calls : pc'[d] = "insert" => cur'[d] \in rest'[d]
    BY <1>1, <1>2 DEF TypeOK
  <2>3. \A d \in Calls : undo'[d] \subseteq opened'[d]
    BY <1>1 DEF TypeOK
  <2> QED
    BY <1>1, <1>2, <2>1, <2>2, <2>3, WeakerKeepsRows DEF TypeOK, Labels
<1>5. Local(c)'
  <2>1. HasSpan(c)'
    BY <1>1, <1>2 DEF HasSpan, Local
  <2>2. Undoes(req[c].kind) => Undoing(c)'
    BY <1>2 DEF Undoing
  <2>3. \A i \in met[c] : rows'[i].sku = req[c].sku
    BY <1>1, <1>3 DEF Local, Onward, TypeOK
  <2> QED
    BY <2>1, <2>2, <2>3 DEF Local
<1>6. ASSUME NEW d \in Calls, d # c PROVE Local(d)'
  <2>1. Same(d)
    BY <1>2, <1>6 DEF Same
  <2> QED
    BY <1>3, <2>1, LocalKept
<1>7. Reserved'
  BY <1>1, <1>2, ReservedKept
<1> QED
  BY <1>4, <1>5, <1>6, <1>7, WeakerKeepsRows DEF Inductive, Fields

\* RowsOnly leaves what the last lemma asks for.
LEMMA RowsOnlyLeaves ==
    ASSUME Inductive, NEW c \in Calls, Others(c)
    PROVE  /\ UNCHANGED <<now, seq, req, span, cur, opened, undo, view, met, gone, contested>>
           /\ rest' = rest /\ rest' \in [Calls -> SUBSET Providers]
           /\ missed \in [Calls -> Nat] /\ met[c] \subseteq DOMAIN rows
BY DEF Others, Inductive, TypeOK

\* A statement counts against its call, or it does not.
LEMMA MissesCounts ==
    ASSUME Inductive, NEW c \in Calls, NEW failed \in BOOLEAN, Misses(c, failed)
    PROVE  /\ missed' \in [Calls -> Nat] /\ \A d \in Calls : d # c => missed'[d] = missed[d]
           /\ ~failed => missed'[c] = missed[c]
           /\ failed /\ req[c].kind \in Reopenings => missed'[c] = missed[c] + 1
BY DEF Misses, Inductive, TypeOK

\* After CancelActiveMaintenanceForSKU every window of the sku is over.
LEMMA SweepEnds ==
    ASSUME TypeOK, NEW s, rows' = Cancel(InEffect(s)), now' = now
    PROVE  Weaker /\ \A i \in DOMAIN rows : rows[i].sku = s => Over(i)'
<1>1. Weaker /\ \A i \in DOMAIN rows : rows'[i].open <=> rows[i].open /\ i \notin InEffect(s)
  BY CancelRows
<1>2. now \in Nat /\ \A i \in DOMAIN rows : rows[i].to \in Nat
  BY RowFields, TimesAssumption DEF TypeOK
<1> QED
  BY <1>1, <1>2 DEF InEffect, Over, Weaker
-----------------------------------------------------------------------------
(* The callers that cancel windows.                                        *)

LEMMA CancelInEffectKeeps ==
    ASSUME Inductive, NEW c \in Calls, ~Undoes(req[c].kind),
           NEW at \in Labels, at # "idle",
           NEW failing \in Labels \ {"idle", "page", "insert", "rollback", "extend"},
           NEW none \in Labels \ {"idle", "page", "insert", "rollback", "extend"},
           NEW some \in Labels \ {"idle", "page", "insert", "rollback", "extend"},
           CancelInEffect(c, at, failing, none, some),
           "check" \in {failing, none, some} => req[c].kind \in Openers,
           req[c].kind \in Reopenings =>
             /\ {none, some} \cap {"ids", "sweep", "orphans"} = {}
             /\ <<at, failing>> \in {<<"orphans", "count">>, <<"again", "last">>,
                                     <<"last", "route">>, <<"late", "count">>} \cup (Labels \X {"failed"})
    PROVE  Inductive'
<1>1. PICK failed \in BOOLEAN :
        /\ failed = FALSE => c \notin gone
        /\ rows' = IF failed THEN rows ELSE Cancel(InEffect(req[c].sku))
        /\ Going(c, IF failed THEN failing ELSE IF rows' = rows THEN none ELSE some)
        /\ Misses(c, failed)
  BY DEF CancelInEffect, Outcomes
<1> DEFINE label == IF failed THEN failing ELSE IF rows' = rows THEN none ELSE some
<1>2. TypeOK /\ Local(c) /\ pc[c] = at /\ Others(c)
  BY DEF Inductive, CancelInEffect
<1>3. /\ UNCHANGED <<now, seq, req, span, cur, opened, undo, view, met, gone, contested>>
      /\ rest' = rest /\ rest' \in [Calls -> SUBSET Providers]
      /\ missed \in [Calls -> Nat] /\ met[c] \subseteq DOMAIN rows
  BY <1>2, RowsOnlyLeaves
<1>4. /\ missed' \in [Calls -> Nat] /\ \A d \in Calls : d # c => missed'[d] = missed[d]
      /\ ~failed => missed'[c] = missed[c]
      /\ failed /\ req[c].kind \in Reopenings => missed'[c] = missed[c] + 1
  BY <1>1, MissesCounts
<1>5. Weaker
  BY <1>1, <1>2, <1>3, SameIsWeaker, SweepEnds
<1>6. pc'[c] = label
  BY <1>1, <1>2 DEF Going, TypeOK
<1>7. req[c].kind \in Reopenings => Sweeping(c)'
  <2> SUFFICES ASSUME req[c].kind \in Reopenings PROVE Sweeping(c)'
    OBVIOUS
  <2>1. CASE failed
    <3>1. \A i \in met[c] : Over(i) => Over(i)'
      BY <1>1, <1>3, <2>1 DEF Over
    <3>2. EndsMet(c) => EndsMet(c)'
      BY <1>3, <3>1 DEF EndsMet
    <3>3. Sweeping(c) /\ missed[c] \in Nat /\ missed'[c] = missed[c] + 1 /\ pc'[c] = failing
      BY <1>2, <1>3, <1>4, <1>6, <2>1 DEF Local
    <3> QED
      BY <1>2, <3>2, <3>3 DEF Sweeping
  <2>2. CASE ~failed
    <3>1. \A i \in DOMAIN rows : rows[i].sku = req[c].sku => Over(i)'
      BY <1>1, <1>2, <1>3, <2>2, SweepEnds
    <3>2. EndsMet(c)'
      BY <1>2, <1>3, <3>1 DEF Local, EndsMet
    <3>3. pc'[c] \notin {"idle", "page", "ids", "sweep", "orphans"}
      BY <1>6, <2>2
    <3> QED
      BY <3>2, <3>3 DEF Sweeping
  <2> QED
    BY <2>1, <2>2
<1>8. label \in Labels \ {"idle", "insert", "rollback", "extend"}
  OBVIOUS
<1>9. label = "check" => req[c].kind \in Openers
  OBVIOUS
<1>10. Going(c, label) /\ pc[c] # "idle"
  BY <1>1, <1>2
<1> HIDE DEF label
<1> QED
  BY <1>3, <1>4, <1>5, <1>7, <1>8, <1>9, <1>10, GoingKeeps

LEMMA ControlKeeps ==
    ASSUME Inductive, NEW c \in Calls, NEW label \in Labels \ {"idle", "insert", "rollback"},
           Going(c, label), ControlOnly(c), pc[c] # "idle",
           label # "check" /\ label # "extend",
           Undoes(req[c].kind) /\ label \in {"choose", "shift", "drop", "failed"}
              => opened[c] = {},
           req[c].kind \in Reopenings => label = "failed" \/ (pc[c] = "route" /\ label = "done")
    PROVE  Inductive'
<1>1. TypeOK /\ Local(c) /\ Others(c) /\ rows' = rows /\ missed' = missed
  BY DEF Inductive, ControlOnly, RowsOnly
<1>2. /\ UNCHANGED <<now, seq, req, span, cur, opened, undo, view, met, gone, contested>>
      /\ rest' = rest /\ rest' \in [Calls -> SUBSET Providers]
      /\ missed' \in [Calls -> Nat] /\ \A d \in Calls : d # c => missed'[d] = missed[d]
  BY <1>1, RowsOnlyLeaves
<1>3. req[c].kind \in Reopenings => Sweeping(c)'
  <2>1. EndsMet(c) => EndsMet(c)'
    BY <1>1, <1>2 DEF EndsMet, Over
  <2>2. pc'[c] = label
    BY <1>1 DEF Going, TypeOK
  <2> QED
    BY <1>1, <2>1, <2>2 DEF Local, Sweeping
<1>4. Weaker
  BY <1>1, SameIsWeaker
<1> QED
  BY <1>2, <1>3, <1>4, GoingKeeps

LEMMA CountKeeps ==
    ASSUME Inductive, NEW c \in Calls, ~Undoes(req[c].kind),
           NEW failing \in {"route", "failed"}, NEW none \in {"route", "failed"},
           NEW some \in {"again", "failed", "measure"},
           CountInEffect(c, failing, none, some)
    PROVE  Inductive'
<1>1. PICK failed \in BOOLEAN :
        /\ Going(c, IF failed THEN failing ELSE IF InEffect(req[c].sku) = {} THEN none ELSE some)
        /\ Misses(c, failed)
  BY DEF CountInEffect, Outcomes
<1> DEFINE label == IF failed THEN failing ELSE IF InEffect(req[c].sku) = {} THEN none ELSE some
<1>2. TypeOK /\ Local(c) /\ pc[c] = "count" /\ Others(c) /\ rows' = rows
  BY DEF Inductive, CountInEffect
<1>3. /\ UNCHANGED <<now, seq, req, span, cur, opened, undo, view, met, gone, contested>>
      /\ rest' = rest /\ rest' \in [Calls -> SUBSET Providers]
      /\ missed \in [Calls -> Nat] /\ met[c] \subseteq DOMAIN rows
  BY <1>2, RowsOnlyLeaves
<1>4. /\ missed' \in [Calls -> Nat] /\ \A d \in Calls : d # c => missed'[d] = missed[d]
      /\ ~failed => missed'[c] = missed[c]
      /\ failed /\ req[c].kind \in Reopenings => missed'[c] = missed[c] + 1
  BY <1>1, MissesCounts
<1>5. Weaker
  BY <1>2, SameIsWeaker
<1>6. pc'[c] = label
  BY <1>1, <1>2 DEF Going, TypeOK
<1>7. req[c].kind \in Reopenings => Sweeping(c)'
  <2> SUFFICES ASSUME req[c].kind \in Reopenings PROVE Sweeping(c)'
    OBVIOUS
  <2>1. Sweeping(c) /\ missed[c] \in Nat
    BY <1>2, <1>3 DEF Local
  <2>2. EndsMet(c) => EndsMet(c)'
    BY <1>2, <1>3 DEF EndsMet, Over
  <2>3. CASE failed
    <3>1. missed'[c] = missed[c] + 1 /\ pc'[c] \in {"route", "failed"}
      BY <1>4, <1>6, <2>3
    <3> QED
      BY <1>2, <2>1, <2>2, <3>1 DEF Sweeping
  <2>4. CASE ~failed /\ InEffect(req[c].sku) = {}
    <3>1. EndsMet(c)
      <4> SUFFICES ASSUME NEW i \in met[c] PROVE Over(i)
        BY DEF EndsMet
      <4>1. i \in DOMAIN rows /\ rows[i].sku = req[c].sku
        BY <1>2, <1>3 DEF Local
      <4>2. rows[i].to \in Nat /\ now \in Nat
        BY <1>2, <4>1, RowFields, TimesAssumption DEF TypeOK
      <4> QED
        BY <2>4, <4>1, <4>2 DEF InEffect, Over
    <3>2. pc'[c] \in {"route", "failed"}
      BY <1>6, <2>4
    <3> QED
      BY <2>2, <3>1, <3>2 DEF Sweeping
  <2>5. CASE ~failed /\ InEffect(req[c].sku) # {}
    <3>1. missed'[c] = missed[c] /\ pc'[c] \in {"again", "failed", "measure"}
      BY <1>4, <1>6, <2>5
    <3> QED
      BY <1>2, <2>1, <2>2, <3>1 DEF Sweeping
  <2> QED
    BY <2>3, <2>4, <2>5
<1>8. label \in {"route", "failed", "again", "measure"}
  OBVIOUS
<1>9. Going(c, label)
  BY <1>1
<1> HIDE DEF label
<1> QED
  BY <1>2, <1>3, <1>4, <1>5, <1>7, <1>8, <1>9, GoingKeeps DEF Labels, Ended

LEMMA RouteKeeps ==
    ASSUME Inductive, NEW c \in Calls, ~Undoes(req[c].kind), Route(c)
    PROVE  Inductive'
<1>1. PICK o \in {"failed", "done"} : Going(c, o)
  BY DEF Route
<1>2. pc[c] = "route" /\ ControlOnly(c)
  BY DEF Route
<1> QED
  BY <1>1, <1>2, ControlKeeps DEF Labels, Ended

LEMMA CancelPageKeeps ==
    ASSUME Inductive, NEW c \in Calls, req[c].kind = "reopen", CancelPage(c)
    PROVE  Inductive'
<1> DEFINE label == IF c \in gone THEN "failed" ELSE "orphans"
<1>1. /\ pc[c] = "ids" /\ Going(c, label) /\ Others(c) /\ missed' = missed
      /\ rows' = IF c \in gone THEN rows ELSE Cancel(view[c])
  BY DEF CancelPage, RowsOnly
<1>2. TypeOK /\ Local(c) /\ ~Undoes(req[c].kind) /\ req[c].kind \in Reopenings
  BY DEF Inductive, Undoes, Reopenings
<1>3. /\ UNCHANGED <<now, seq, req, span, cur, opened, undo, view, met, gone, contested>>
      /\ rest' = rest /\ rest' \in [Calls -> SUBSET Providers] /\ missed' \in [Calls -> Nat]
  BY <1>1, RowsOnlyLeaves
<1>4. Weaker
  BY <1>1, <1>2, SameIsWeaker, CancelRows
<1>5. label \in {"failed", "orphans"} /\ pc'[c] = label
  BY <1>1, <1>2 DEF Going, TypeOK
<1> HIDE DEF label
<1>6. Sweeping(c)'
  BY <1>1, <1>2, <1>5 DEF Local, Sweeping
<1> QED
  BY <1>1, <1>2, <1>3, <1>4, <1>5, <1>6, GoingKeeps DEF Labels, Ended

LEMMA CancelShownKeeps ==
    ASSUME Inductive, NEW c \in Calls, req[c].kind = "cancel", CancelShown(c)
    PROVE  Inductive'
<1> DEFINE shown == {i \in view[c] : rows[i].open}
           label == IF c \in gone THEN "failed" ELSE IF shown = {} THEN "again" ELSE "done"
<1>1. /\ pc[c] = "cancel" /\ Going(c, label) /\ Others(c) /\ missed' = missed
      /\ rows' = IF c \in gone THEN rows ELSE Cancel(shown)
  BY DEF CancelShown, RowsOnly
<1>2. TypeOK
  BY DEF Inductive
<1>3. /\ UNCHANGED <<now, seq, req, span, cur, opened, undo, view, met, gone, contested>>
      /\ rest' = rest /\ rest' \in [Calls -> SUBSET Providers] /\ missed' \in [Calls -> Nat]
  BY <1>1, RowsOnlyLeaves
<1>4. Weaker
  <2> HIDE DEF shown
  <2> QED
    BY <1>1, <1>2, SameIsWeaker, CancelRows
<1>5. label \in {"failed", "again", "done"}
  OBVIOUS
<1>6. ~Undoes(req[c].kind) /\ req[c].kind \notin Reopenings
  BY DEF Undoes, Reopenings
<1> HIDE DEF label, shown
<1> QED
  BY <1>1, <1>3, <1>4, <1>5, <1>6, GoingKeeps DEF Labels, Ended
LEMMA ReopenKeeps ==
    ASSUME Inductive, NEW c \in Calls,
           \/ handleScopeMaintenanceReopenService(c)
           \/ chatReopenService(c)
           \/ tryChatReopenAllServicesReply(c)
    PROVE  Inductive'
<1>1. ~Undoes(req[c].kind) /\ req[c].kind \in Reopenings
  BY DEF handleScopeMaintenanceReopenService, chatReopenService, tryChatReopenAllServicesReply,
         Undoes, Reopenings
<1>2. CASE (CancelPage(c) /\ req[c].kind = "reopen") \/ Route(c)
  BY <1>1, <1>2, CancelPageKeeps, RouteKeeps
<1>3. CASE \/ CountInEffect(c, "route", "route", "again")
           \/ CountInEffect(c, "failed", "route", "failed")
  BY <1>1, <1>3, CountKeeps
<1>4. CASE \/ CancelInEffect(c, "orphans", "count", "count", "count")
           \/ CancelInEffect(c, "again", "last", "last", "last")
           \/ CancelInEffect(c, "last", "route", "route", "route")
  BY <1>1, <1>4, CancelInEffectKeeps DEF Labels, Ended
<1>5. CASE \/ CancelInEffect(c, "sweep", "failed", "late", "count")
           \/ CancelInEffect(c, "sweep", "failed", "failed", "route")
  BY <1>1, <1>5, CancelInEffectKeeps DEF Labels, Ended
<1>6. CASE CancelLate(c)
  <2>1. PICK failing \in {"failed", "count"} : CancelInEffect(c, "late", failing, "count", "count")
    BY <1>6 DEF CancelLate
  <2> QED
    BY <1>1, <2>1, CancelInEffectKeeps DEF Labels, Ended
<1> QED
  BY <1>2, <1>3, <1>4, <1>5, <1>6 DEF handleScopeMaintenanceReopenService, chatReopenService,
                                      tryChatReopenAllServicesReply

LEMMA CancelKeeps ==
    ASSUME Inductive, NEW c \in Calls,
           \/ handleScopeMaintenanceCancel(c)
           \/ handleScopeMaintenanceBatchCancel(c)
           \/ chatSetMaintenanceScopeAll(c)
    PROVE  Inductive'
<1>1. /\ req[c].kind \in {"cancel", "batchCancel", "all"}
      /\ ~Undoes(req[c].kind) /\ req[c].kind \notin Reopenings
  BY DEF handleScopeMaintenanceCancel, handleScopeMaintenanceBatchCancel,
         chatSetMaintenanceScopeAll, Undoes, Reopenings
<1>2. CASE CancelInEffect(c, "again", "failed", "failed", "done")
  BY <1>1, <1>2, CancelInEffectKeeps DEF Labels, Ended
<1>3. CASE CancelInEffect(c, "sweep", "failed", "failed", "done")
  BY <1>1, <1>3, CancelInEffectKeeps DEF Labels, Ended
<1>4. CASE req[c].kind = "all" /\ CancelInEffect(c, "sweep", "check", "check", "check")
  BY <1>1, <1>4, CancelInEffectKeeps DEF Labels, Ended, Openers
<1>5. CASE req[c].kind = "cancel" /\ CancelShown(c)
  BY <1>5, CancelShownKeeps
<1> QED
  BY <1>2, <1>3, <1>4, <1>5 DEF handleScopeMaintenanceCancel, handleScopeMaintenanceBatchCancel,
                               chatSetMaintenanceScopeAll

-----------------------------------------------------------------------------
(* Maintenance by chat.                                                    *)

\* What a named or chosen set of providers is, and where it leads.
LEMMA PicksAre ==
    ASSUME TypeOK, NEW c \in Calls, NEW pick \in Picks(c)
    PROVE  pick.label \in {"check", "shift"} /\ pick.targets \subseteq Providers
<1>1. req[c].targets \subseteq Providers
  BY RequestsAssumption DEF TypeOK
<1> QED
  BY <1>1 DEF Picks, chatMaintenanceTargets

LEMMA ChatKeeps ==
    ASSUME Inductive, NEW c \in Calls, chatSetMaintenanceScope(c)
    PROVE  Inductive'
<1>1. req[c].kind \in {"chat", "named"} /\ TypeOK /\ Local(c)
  BY DEF chatSetMaintenanceScope, Inductive
<1>2. req[c].kind \notin Reopenings /\ Undoes(req[c].kind) /\ req[c].kind \in Openers
  BY <1>1 DEF Reopenings, Undoes, Openers
<1>3. pc[c] \in {"choose", "shift", "drop"} => opened[c] = {}
  BY <1>1, <1>2 DEF Local, Undoing
<1>4. CASE Choose(c)
  <2>1. /\ pc[c] = "choose" /\ rows' = rows
        /\ UNCHANGED <<now, seq, req, span, cur, opened, undo, view, met, missed, gone, contested>>
    BY <1>4 DEF Choose
  <2>2. Weaker
    BY <1>1, <2>1, SameIsWeaker
  <2>3. CASE Going(c, "failed") /\ rest' = rest
    <3>1. rest' \in [Calls -> SUBSET Providers] /\ missed' \in [Calls -> Nat]
      BY <1>1, <2>1, <2>3 DEF TypeOK
    <3> QED
      BY <1>2, <1>3, <2>1, <2>2, <2>3, <3>1, GoingKeeps DEF Labels, Ended
  <2>4. ASSUME NEW pick \in Picks(c), Going(c, pick.label),
               rest' = [rest EXCEPT ![c] = pick.targets]
        PROVE  Inductive'
    <3>1. pick.label \in {"check", "shift"} /\ pick.targets \in SUBSET Providers
      BY <1>1, PicksAre
    <3>2. /\ rest' \in [Calls -> SUBSET Providers] /\ \A d \in Calls : d # c => rest'[d] = rest[d]
          /\ missed' \in [Calls -> Nat]
      BY <1>1, <2>1, <2>4, <3>1 DEF TypeOK
    <3> QED
      BY <1>2, <1>3, <2>1, <2>2, <2>4, <3>1, <3>2, GoingKeeps DEF Labels, Ended
  <2> QED
    BY <1>4, <2>3, <2>4 DEF Choose
<1>5. CASE Shift(c)
  <2>1. PICK o \in {"failed", "drop"} : Going(c, o)
    BY <1>5 DEF Shift
  <2>2. pc[c] = "shift" /\ ControlOnly(c)
    BY <1>5 DEF Shift
  <2> QED
    BY <1>2, <1>3, <2>1, <2>2, ControlKeeps DEF Labels, Ended
<1>6. CASE Drop(c)
  <2> DEFINE ids == {i \in InEffect(req[c].sku) : rows[i].provider \in rest[c]}
  <2>1. /\ pc[c] = "drop" /\ Going(c, "done") /\ Others(c) /\ missed' = missed
        /\ rows' = IF c \in gone THEN rows ELSE Cancel(ids)
    BY <1>6 DEF Drop, RowsOnly
  <2>2. Weaker
    <3> HIDE DEF ids
    <3> QED
      BY <1>1, <2>1, SameIsWeaker, CancelRows
  <2>3. /\ UNCHANGED <<now, seq, req, span, cur, opened, undo, view, met, missed, gone, contested>>
        /\ rest' = rest /\ rest' \in [Calls -> SUBSET Providers] /\ missed' \in [Calls -> Nat]
    BY <2>1, RowsOnlyLeaves
  <2> QED
    BY <1>2, <2>1, <2>2, <2>3, GoingKeeps DEF Labels, Ended
<1> QED
  BY <1>4, <1>5, <1>6 DEF chatSetMaintenanceScope
-----------------------------------------------------------------------------
(* Requests come in.                                                       *)

LEMMA FirstSteps ==
    ASSUME NEW kind \in Kinds, NEW page, NEW first \in FirstStep(kind, page)
    PROVE  /\ first \in {"check", "choose", "sweep", "ids", "cancel", "extend", "count"}
           /\ first = "check" => kind \in Openers
           /\ first = "extend" => kind = "extend"
           /\ kind \in Reopenings => first \in {"sweep", "ids"}
BY DEF FirstStep, Kinds, Reopenings, Openers

LEMMA SpansAre ==
    ASSUME TypeOK, NEW kind \in Openers \cup {"extend"}, NEW s \in SpansFor(kind)
    PROVE  IsSpan(s)
<1>1. now \in Nat /\ Duration \in Nat \ {0} /\ \A t \in Spans : IsSpan(t)
  BY TimesAssumption DEF TypeOK, IsSpan
<1>2. IsSpan(<<now, now + Duration>>)
  BY <1>1 DEF IsSpan
<1>3. SpansFor(kind) \subseteq {<<now, now + Duration>>} \cup Spans
  BY DEF SpansFor, Openers, Reopenings
<1> QED
  BY <1>1, <1>2, <1>3

\* The steps of one call, with what it knows of itself afterwards.
LEMMA OneCall ==
    ASSUME Inductive, NEW c \in Calls, Onward, gone \subseteq gone', req' = req,
           \A d \in Calls : d # c => Same(d),
           TypeOK', Fields', Bounded', Local(c)', Reserved'
    PROVE  Inductive'
<1>1. \A d \in Calls : Local(d)'
  BY LocalKept
<1> QED
  BY <1>1 DEF Inductive

LEMMA LoadPageKeeps ==
    ASSUME Inductive, NEW c \in Calls, LoadPage(c)
    PROVE  Inductive'
<1>1. /\ pc[c] = "idle" /\ req[c].kind \in {"cancel", "reopen"}
      /\ pc' = [pc EXCEPT ![c] = "page"]
      /\ view' = [view EXCEPT ![c] = OnPage(req[c].sku)]
      /\ UNCHANGED <<now, rows, seq, req, span, rest, cur, opened, undo, met, missed, gone,
                     contested>>
  BY DEF LoadPage, Paged
<1>2. /\ TypeOK /\ Fields /\ Local(c) /\ now \in Nat
      /\ ~Undoes(req[c].kind) /\ req[c].kind \notin Openers \cup {"extend"}
  BY <1>1, TimesAssumption DEF Inductive, TypeOK, Undoes, Openers
<1>3. OnPage(req[c].sku) \subseteq DOMAIN rows
  BY DEF OnPage, OpenFor
<1>4. Weaker /\ Onward
  BY <1>1, <1>2, SameIsWeaker, WeakerIsOnward
<1>5. /\ pc' \in [Calls -> Labels] /\ pc'[c] = "page"
      /\ view' \in [Calls -> SUBSET DOMAIN rows] /\ Fields'
      /\ \A d \in Calls : d # c => Same(d)
  BY <1>1, <1>2, <1>3 DEF TypeOK, Labels, Fields, Same
<1>6. TypeOK'
  <2>1. \A d \in Calls : pc'[d] = "insert" => cur'[d] \in rest'[d]
    BY <1>1, <1>2, <1>5 DEF TypeOK, Same
  <2> QED
    BY <1>1, <1>2, <1>5, <2>1 DEF TypeOK, Labels
<1>7. Local(c)'
  <2>1. HasSpan(c)'
    BY <1>1, <1>2, <1>5 DEF HasSpan
  <2>2. req[c].kind \in Reopenings => Sweeping(c)'
    BY <1>1, <1>2, <1>5 DEF Sweeping, Local
  <2> QED
    BY <1>1, <1>2, <2>1, <2>2 DEF Local
<1>8. Reserved'
  BY <1>1, <1>2, <1>4, <1>5, ReservedKept DEF Same
<1> QED
  BY <1>1, <1>4, <1>5, <1>6, <1>7, <1>8, WeakerKeepsRows, OneCall

LEMMA EnterKeeps ==
    ASSUME Inductive, NEW c \in Calls, Enter(c)
    PROVE  Inductive'
<1> DEFINE found == IF req[c].kind \in Reopenings THEN OpenFor(req[c].sku) ELSE {}
<1>1. /\ pc[c] \in {"idle", "page"}
      /\ Undoes(req[c].kind) => pc[c] = "idle"
      /\ UNCHANGED <<now, rows, seq, req, cur, opened, undo, view, missed, gone, contested>>
      /\ rest' = [rest EXCEPT ![c] = IF req[c].kind = "all" THEN Providers ELSE req[c].targets]
      /\ met' = [met EXCEPT ![c] = found]
  BY DEF Enter, Paged, Undoes
<1>2. PICK first \in FirstStep(req[c].kind, view[c]) : pc' = [pc EXCEPT ![c] = first]
  BY DEF Enter
<1>3. PICK s \in SpansFor(req[c].kind) : span' = [span EXCEPT ![c] = s]
  BY DEF Enter
<1>4. /\ TypeOK /\ Local(c) /\ now \in Nat
      /\ req[c] \in Requests /\ req[c].kind \in Kinds /\ req[c].targets \subseteq Providers
  BY RequestsAssumption, TimesAssumption DEF Inductive, TypeOK
<1>5. /\ first \in {"check", "choose", "sweep", "ids", "cancel", "extend", "count"}
      /\ first = "check" => req[c].kind \in Openers
      /\ first = "extend" => req[c].kind = "extend"
      /\ req[c].kind \in Reopenings => first \in {"sweep", "ids"}
  BY <1>2, <1>4, FirstSteps
<1>6. found \subseteq DOMAIN rows /\ \A i \in found : rows[i].sku = req[c].sku
  BY DEF OpenFor
<1> HIDE DEF found
<1>7. Weaker /\ Onward
  BY <1>1, <1>4, SameIsWeaker, WeakerIsOnward
<1>8. TypeOK'
  <2>1. pc' \in [Calls -> Labels] /\ pc'[c] = first /\ \A d \in Calls : d # c => pc'[d] = pc[d]
    BY <1>2, <1>4, <1>5 DEF TypeOK, Labels
  <2>2. rest' \in [Calls -> SUBSET Providers] /\ \A d \in Calls : d # c => rest'[d] = rest[d]
    BY <1>1, <1>4 DEF TypeOK
  <2>3. met' \in [Calls -> SUBSET DOMAIN rows]
    BY <1>1, <1>4, <1>6 DEF TypeOK
  <2>4. \A d \in Calls : pc'[d] = "insert" => cur'[d] \in rest'[d]
    BY <1>1, <1>4, <1>5, <2>1, <2>2 DEF TypeOK
  <2> QED
    BY <1>1, <1>4, <2>1, <2>2, <2>3, <2>4 DEF TypeOK, Labels
<1>9. /\ \A d \in Calls : d # c => Same(d)
      /\ pc'[c] = first /\ met'[c] = found /\ span'[c] = s
      /\ \A d \in Calls : d # c => span'[d] = span[d]
      /\ Fields'
  BY <1>1, <1>2, <1>3, <1>4 DEF Same, TypeOK, Inductive, Fields
<1>10. Local(c)'
  <2>1. HasSpan(c)'
    BY <1>1, <1>4, <1>5, <1>9, SpansAre DEF HasSpan
  <2>2. Undoes(req[c].kind) => Undoing(c)'
    <3>1. Undoes(req[c].kind) => opened'[c] = {}
      BY <1>1, <1>4 DEF Undoing, Local
    <3> QED
      BY <1>5, <1>9, <3>1 DEF Undoing
  <2>3. req[c].kind \in Reopenings => Sweeping(c)'
    <3>1. req[c].kind \in Reopenings => missed'[c] = 0
      BY <1>1, <1>4 DEF Sweeping, Local
    <3> QED
      BY <1>5, <1>9, <3>1 DEF Sweeping
  <2> QED
    BY <1>1, <1>6, <1>9, <2>1, <2>2, <2>3 DEF Local
<1>11. Reserved'
  BY <1>1, <1>4, <1>5, <1>7, <1>9, ReservedKept DEF Same
<1>12. Bounded'
  BY <1>7, WeakerKeepsRows
<1> QED
  BY <1>1, <1>7, <1>8, <1>9, <1>10, <1>11, <1>12, OneCall

-----------------------------------------------------------------------------
(* SetMaintenance.                                                         *)

\* An error sends the call to its rollback, on to the next provider or back.
LEMMA FailsKeeps ==
    ASSUME Inductive, NEW c \in Calls, pc[c] \in {"check", "insert"}, NEW p,
           SetMaintenanceFails(c, p), seq' \in [Processes -> 0..(Wrap - 1)],
           UNCHANGED <<now, rows, req, span, opened, view, met, missed, gone, contested>>
    PROVE  Inductive'
<1> DEFINE label == OnError(c, rest[c] \ {p})
<1>1. /\ pc' = [pc EXCEPT ![c] = label] /\ rest' = [rest EXCEPT ![c] = rest[c] \ {p}]
      /\ cur' = [cur EXCEPT ![c] = None] /\ undo' = [undo EXCEPT ![c] = opened[c]]
  BY DEF SetMaintenanceFails, ToUndo
<1>2. TypeOK /\ Fields /\ Local(c) /\ now \in Nat /\ req[c].kind \in Openers
  BY TimesAssumption DEF Inductive, TypeOK, Local, HasSpan
<1>3. /\ label \in {"rollback", "check", "failed", "done"}
      /\ Undoes(req[c].kind) => label = "rollback"
  <2>1. CASE Undoes(req[c].kind)
    BY <2>1 DEF OnError, Undoes
  <2>2. CASE ~Undoes(req[c].kind) /\ req[c].kind = "all"
    BY <2>2 DEF OnError
  <2>3. CASE ~Undoes(req[c].kind) /\ req[c].kind # "all"
    BY <2>3 DEF OnError
  <2> QED
    BY <2>1, <2>2, <2>3
<1> HIDE DEF label
<1>4. Weaker /\ Onward
  BY <1>2, SameIsWeaker, WeakerIsOnward
<1>5. /\ pc' \in [Calls -> Labels] /\ pc'[c] = label /\ undo'[c] = opened[c]
      /\ rest' \in [Calls -> SUBSET Providers] /\ Fields'
  BY <1>1, <1>2, <1>3 DEF TypeOK, Labels, Ended, Fields
<1>6. /\ \A d \in Calls : d # c => Same(d)
      /\ \A d \in Calls : pc'[d] = "insert" => d # c
  BY <1>1, <1>2, <1>3, <1>5 DEF TypeOK, Same, Fields
<1>7. TypeOK'
  <2>1. \A d \in Calls : pc'[d] = "insert" => cur'[d] \in rest'[d]
    BY <1>2, <1>6 DEF TypeOK, Same
  <2>2. \A d \in Calls : undo'[d] \subseteq opened'[d]
    BY <1>2, <1>5, <1>6 DEF TypeOK, Same
  <2> QED
    BY <1>2, <1>5, <2>1, <2>2 DEF TypeOK, Labels
<1>8. Local(c)'
  <2>1. HasSpan(c)'
    BY <1>2, <1>3, <1>5 DEF HasSpan, Local
  <2>2. Undoes(req[c].kind) => Undoing(c)'
    BY <1>3, <1>5 DEF Undoing
  <2>3. req[c].kind \notin Reopenings
    BY <1>2 DEF Openers, Reopenings
  <2> QED
    BY <1>2, <2>1, <2>2, <2>3 DEF Local
<1>9. Reserved'
  BY <1>2, <1>4, <1>6, ReservedKept DEF Same
<1> QED
  BY <1>4, <1>5, <1>6, <1>7, <1>8, <1>9, WeakerKeepsRows, OneCall

\* The call goes on to insert, with nothing in its way and nobody else there,
\* or the pair is contested.
LEMMA GoesOnKeeps ==
    ASSUME Inductive, NEW c \in Calls, pc[c] = "check", NEW p \in rest[c],
           GoesOnToInsert(c, p), Weaker,
           UNCHANGED <<now, seq, req, span, opened, view, met, missed, gone>>,
           contested \subseteq contested', contested' \subseteq Pairs,
           <<req[c].sku, p>> \notin contested' =>
              /\ ~Rivalled(c, <<req[c].sku, p>>)
              /\ \A i \in DOMAIN rows' :
                   Of(<<req[c].sku, p>>, rows'[i]) => ~Meets(rows'[i], span[c])
    PROVE  Inductive'
<1>1. /\ pc' = [pc EXCEPT ![c] = "insert"] /\ cur' = [cur EXCEPT ![c] = p]
      /\ UNCHANGED <<rest, undo>>
  BY DEF GoesOnToInsert
<1>2. TypeOK /\ Fields /\ Local(c) /\ now \in Nat /\ req[c].kind \in Openers
  BY TimesAssumption DEF Inductive, TypeOK, Local, HasSpan
<1>3. Onward
  BY <1>2, WeakerIsOnward
<1>4. /\ pc' \in [Calls -> Labels] /\ pc'[c] = "insert" /\ cur'[c] = p /\ Fields'
      /\ \A d \in Calls : d # c => Same(d)
  BY <1>1, <1>2 DEF TypeOK, Labels, Fields, Same
<1>5. TypeOK'
  <2>1. \A d \in Calls : pc'[d] = "insert" => cur'[d] \in rest'[d]
    BY <1>1, <1>2, <1>4 DEF TypeOK, Same
  <2>2. DOMAIN rows' = DOMAIN rows
    BY DEF Weaker
  <2> QED
    BY <1>1, <1>2, <1>4, <2>1, <2>2, WeakerKeepsRows DEF TypeOK, Labels
<1>6. Local(c)'
  <2>1. HasSpan(c)' /\ Undoing(c)'
    BY <1>1, <1>2, <1>4 DEF HasSpan, Local, Undoing
  <2>2. req[c].kind \notin Reopenings /\ \A i \in met[c] : rows'[i].sku = req[c].sku
    BY <1>2, <1>3 DEF Openers, Reopenings, Local, Onward, TypeOK
  <2> QED
    BY <2>1, <2>2 DEF Local
<1>7. Reserved'
  <2>1. DisjointUnlessContested'
    <3>1. ASSUME NEW x \in Pairs \ contested' PROVE DisjointAt(x)'
      <4>1. DisjointAt(x)
        BY <3>1 DEF Inductive, Reserved, DisjointUnlessContested
      <4> QED
        BY <4>1 DEF DisjointAt, Weaker, Of
    <3> QED
      BY <3>1 DEF DisjointUnlessContested
  <2>2. ASSUME NEW d \in Calls, pc'[d] = "insert", Target(d)' \notin contested'
        PROVE  Free(d)'
    <3>1. CASE d = c
      <4>1. Target(d)' = <<req[c].sku, p>>
        BY <1>4, <3>1 DEF Target
      <4>2. \A e \in Calls : pc'[e] = "insert" /\ Target(e)' = Target(d)' => e = c
        BY <1>4, <2>2, <4>1 DEF Rivalled, Target, Same
      <4> QED
        BY <2>2, <3>1, <4>1, <4>2 DEF Free
    <3>2. CASE d # c
      <4>1. Same(d) /\ Target(d)' = Target(d) /\ span'[d] = span[d]
        BY <1>4, <3>2 DEF Same, Target
      <4>2. Free(d)
        BY <2>2, <4>1 DEF Inductive, Reserved, Same
      <4>3. \A i \in DOMAIN rows' : Of(Target(d), rows'[i]) /\ rows'[i].to > now
                                       => ~Meets(rows'[i], span[d])
        BY <4>2 DEF Free, Weaker, Of, Meets
      <4>4. \A e \in Calls : pc'[e] = "insert" /\ Target(e)' = Target(d) => e = d
        <5> SUFFICES ASSUME NEW e \in Calls, pc'[e] = "insert", Target(e)' = Target(d)
                     PROVE  e = d
          OBVIOUS
        <5>1. CASE e = c
          <6>1. Target(d) = <<req[c].sku, p>> /\ pc[d] = "insert"
            BY <1>4, <2>2, <4>1, <5>1 DEF Target, Same
          <6>2. Rivalled(c, <<req[c].sku, p>>)
            BY <3>2, <6>1 DEF Rivalled
          <6> QED
            BY <2>2, <4>1, <6>1, <6>2
        <5>2. CASE e # c
          BY <1>4, <4>2, <5>2 DEF Same, Target, Free
        <5> QED
          BY <5>1, <5>2
      <4> QED
        BY <4>1, <4>3, <4>4 DEF Free
    <3> QED
      BY <3>1, <3>2
  <2> QED
    BY <2>1, <2>2 DEF Reserved
<1> QED
  BY <1>3, <1>4, <1>5, <1>6, <1>7, WeakerKeepsRows, OneCall
LEMMA CheckKeeps ==
    ASSUME Inductive, NEW c \in Calls, CheckOverlap(c)
    PROVE  Inductive'
<1>1. pc[c] = "check" /\ UNCHANGED <<now, rows, seq, req, span, opened, view, met, missed, gone>>
  BY DEF CheckOverlap
<1>2. TypeOK
  BY DEF Inductive
<1>3. PICK p \in rest[c] :
         \/ SetMaintenanceFails(c, p) /\ UNCHANGED contested
         \/ /\ Overlapping(<<req[c].sku, p>>, span[c]) = {} /\ GoesOnToInsert(c, p)
            /\ contested' = contested \cup {y \in {<<req[c].sku, p>>} : Rivalled(c, y)}
  BY DEF CheckOverlap
<1>4. CASE SetMaintenanceFails(c, p) /\ UNCHANGED contested
  <2>1. seq' \in [Processes -> 0..(Wrap - 1)]
    BY <1>1, <1>2 DEF TypeOK
  <2> QED
    BY <1>1, <1>4, <2>1, FailsKeeps
<1>5. CASE /\ Overlapping(<<req[c].sku, p>>, span[c]) = {} /\ GoesOnToInsert(c, p)
           /\ contested' = contested \cup {y \in {<<req[c].sku, p>>} : Rivalled(c, y)}
  <2>1. <<req[c].sku, p>> \in Pairs
    BY <1>2, RequestsAssumption DEF TypeOK, Pairs
  <2>2. contested \subseteq contested' /\ contested' \subseteq Pairs
    BY <1>2, <1>5, <2>1 DEF TypeOK
  <2>3. Weaker
    BY <1>1, <1>2, SameIsWeaker
  <2>4. \A i \in DOMAIN rows' : Of(<<req[c].sku, p>>, rows'[i]) => ~Meets(rows'[i], span[c])
    BY <1>1, <1>5 DEF Overlapping
  <2> QED
    BY <1>1, <1>5, <2>2, <2>3, <2>4, GoesOnKeeps
<1> QED
  BY <1>3, <1>4, <1>5

LEMMA ReplaceKeeps ==
    ASSUME Inductive, NEW c \in Calls, ReplaceOverlap(c)
    PROVE  Inductive'
<1>1. pc[c] = "check" /\ UNCHANGED <<now, seq, req, span, opened, view, met, missed, gone>>
  BY DEF ReplaceOverlap
<1>2. TypeOK
  BY DEF Inductive
<1>3. PICK p \in rest[c] :
         /\ GoesOnToInsert(c, p)
         /\ \/ /\ rows' = Cancel(Overlapping(<<req[c].sku, p>>, span[c]))
               /\ contested' = contested \cup {y \in {<<req[c].sku, p>>} : Rivalled(c, y)}
            \/ rows' = rows /\ contested' = contested \cup {<<req[c].sku, p>>}
  BY DEF ReplaceOverlap
<1>4. <<req[c].sku, p>> \in Pairs
  BY <1>2, RequestsAssumption DEF TypeOK, Pairs
<1>5. contested \subseteq contested' /\ contested' \subseteq Pairs
  BY <1>2, <1>3, <1>4 DEF TypeOK
<1>6. Weaker
  BY <1>2, <1>3, SameIsWeaker, CancelRows
<1>7. <<req[c].sku, p>> \notin contested' =>
         \A i \in DOMAIN rows' : Of(<<req[c].sku, p>>, rows'[i]) => ~Meets(rows'[i], span[c])
  <2> SUFFICES ASSUME <<req[c].sku, p>> \notin contested', NEW i \in DOMAIN rows',
                      Of(<<req[c].sku, p>>, rows'[i])
               PROVE  ~Meets(rows'[i], span[c])
    OBVIOUS
  <2>1. rows' = Cancel(Overlapping(<<req[c].sku, p>>, span[c]))
    BY <1>3
  <2>2. i \in DOMAIN rows /\ Of(<<req[c].sku, p>>, rows[i]) /\ rows'[i].open
    BY <1>6 DEF Weaker, Of
  <2>3. i \notin Overlapping(<<req[c].sku, p>>, span[c])
    BY <1>2, <2>1, <2>2, CancelRows
  <2>4. ~Meets(rows[i], span[c])
    BY <2>2, <2>3 DEF Overlapping
  <2> QED
    BY <1>6, <2>2, <2>4 DEF Meets, Weaker
<1>8. <<req[c].sku, p>> \notin contested' => ~Rivalled(c, <<req[c].sku, p>>)
  BY <1>3
<1> QED
  BY <1>1, <1>3, <1>5, <1>6, <1>7, <1>8, GoesOnKeeps

LEMMA InsertKeeps ==
    ASSUME Inductive, NEW c \in Calls, Insert(c)
    PROVE  Inductive'
<1> DEFINE id   == NewId(c)
           left == rest[c] \ {cur[c]}
           row  == [sku |-> req[c].sku, provider |-> cur[c],
                    from |-> span[c][1], to |-> span[c][2], open |-> TRUE]
<1>1. /\ pc[c] = "insert" /\ UNCHANGED <<now, req, span, view, met, missed, gone, contested>>
      /\ seq' = [seq EXCEPT ![ProcessOf[c]] = NextSeq(@)]
  BY DEF Insert
<1>2. /\ TypeOK /\ Fields /\ Local(c) /\ now \in Nat /\ req[c].kind \in Openers
      /\ IsSpan(span[c]) /\ cur[c] \in rest[c] /\ cur[c] \in Providers /\ req[c].sku \in SKUs
  BY <1>1, TimesAssumption, RequestsAssumption DEF Inductive, TypeOK, Local, HasSpan
<1>3. /\ ProcessOf[c] \in Processes /\ NextSeq(seq[ProcessOf[c]]) \in 0..(Wrap - 1)
      /\ seq' \in [Processes -> 0..(Wrap - 1)]
  <2>1. ProcessOf[c] \in Processes /\ seq[ProcessOf[c]] \in Nat /\ Wrap \in Nat \ {0}
    BY <1>2, ProcessesAssumption, TimesAssumption DEF TypeOK
  <2>2. NextSeq(seq[ProcessOf[c]]) \in 0..(Wrap - 1)
    BY <2>1 DEF NextSeq
  <2> QED
    BY <1>1, <1>2, <2>1, <2>2 DEF TypeOK
<1>4. CASE SetMaintenanceFails(c, cur[c]) /\ UNCHANGED <<rows, opened>>
  BY <1>1, <1>3, <1>4, FailsKeeps
<1>5. CASE /\ id \notin DOMAIN rows
           /\ rows' = [i \in DOMAIN rows \cup {id} |-> IF i = id THEN row ELSE rows[i]]
           /\ opened' = [opened EXCEPT ![c] = @ \cup {id}]
           /\ rest' = [rest EXCEPT ![c] = left]
           /\ cur' = [cur EXCEPT ![c] = None]
           /\ pc' = [pc EXCEPT ![c] = IF left = {} THEN "done" ELSE "check"]
           /\ UNCHANGED undo
  <2>1. id \in Ids
    BY <1>2, <1>3 DEF NewId, Ids, TypeOK
  <2>2. /\ row \in Row /\ row.sku = req[c].sku /\ row.provider = cur[c] /\ row.open
        /\ row.from = span[c][1] /\ row.to = span[c][2] /\ row.from < row.to
    BY <1>2 DEF Row, IsSpan
  <2> HIDE DEF id, row
  <2>3. /\ DOMAIN rows' = DOMAIN rows \cup {id} /\ rows'[id] = row
        /\ \A i \in DOMAIN rows : i # id /\ rows'[i] = rows[i]
    BY <1>5
  <2>4. Onward
    BY <1>1, <2>3 DEF Onward, Over
  <2>5. /\ pc'[c] \in {"check", "done"} /\ pc' \in [Calls -> Labels]
        /\ Fields' /\ \A d \in Calls : d # c => Same(d)
    BY <1>1, <1>2, <1>5 DEF TypeOK, Fields, Same, Labels, Ended
  <2>6. TypeOK'
    <3>1. \A i \in DOMAIN rows' : rows'[i] \in Row /\ rows'[i].from < rows'[i].to
      BY <1>2, <2>2, <2>3 DEF TypeOK
    <3>2. /\ opened' \in [Calls -> SUBSET DOMAIN rows'] /\ view' \in [Calls -> SUBSET DOMAIN rows']
          /\ met' \in [Calls -> SUBSET DOMAIN rows']
      BY <1>1, <1>2, <1>5, <2>3 DEF TypeOK
    <3>3. rest' \in [Calls -> SUBSET Providers]
      BY <1>2, <1>5 DEF TypeOK
    <3>4. \A d \in Calls : pc'[d] = "insert" => cur'[d] \in rest'[d]
      BY <1>2, <2>5 DEF TypeOK, Same
    <3>5. \A d \in Calls : undo'[d] \subseteq opened'[d]
      BY <1>2, <1>5 DEF TypeOK
    <3>6. DOMAIN rows' \subseteq Ids
      BY <1>2, <2>1, <2>3 DEF TypeOK
    <3> QED
      BY <1>1, <1>2, <1>3, <2>5, <3>1, <3>2, <3>3, <3>4, <3>5, <3>6 DEF TypeOK, Labels
  <2>7. Bounded'
    <3>1. PICK b \in Nat : \A i \in DOMAIN rows : rows[i].to <= b
      BY DEF Inductive, Bounded
    <3>2. \A i \in DOMAIN rows : rows[i].to \in Nat
      BY <1>2, RowFields
    <3>3. b + row.to \in Nat /\ \A i \in DOMAIN rows' : rows'[i].to <= b + row.to
      BY <1>2, <2>2, <2>3, <3>1, <3>2 DEF IsSpan
    <3> QED
      BY <3>3 DEF Bounded
  <2>8. Local(c)'
    <3>1. HasSpan(c)' /\ Undoing(c)'
      BY <1>1, <1>2, <2>5 DEF HasSpan, Local, Undoing
    <3>2. req[c].kind \notin Reopenings /\ \A i \in met[c] : rows'[i].sku = req[c].sku
      BY <1>2, <2>4 DEF Openers, Reopenings, Local, Onward, TypeOK
    <3> QED
      BY <1>1, <3>1, <3>2 DEF Local
  <2>9. Reserved'
    <3>1. /\ Target(c) = <<req[c].sku, cur[c]>>
          /\ \A x : Of(x, row) => x[1] = req[c].sku /\ x[2] = cur[c]
      BY <2>2 DEF Target, Of
    <3>2. ASSUME NEW x \in Pairs \ contested', NEW i \in DOMAIN rows, Of(x, rows[i]),
                 rows[i].to > now, Of(x, row)
          PROVE  rows[i].to <= row.from \/ row.to <= rows[i].from
      <4>1. x = Target(c)
        BY <3>1, <3>2 DEF Pairs
      <4>2. Free(c)
        BY <1>1, <3>2, <4>1 DEF Inductive, Reserved
      <4>3. ~Meets(rows[i], span[c])
        BY <3>2, <4>1, <4>2 DEF Free
      <4> QED
        BY <1>2, <2>2, <3>2, <4>3, RowFields DEF Meets, IsSpan
    <3>3. ASSUME NEW x \in Pairs \ contested' PROVE DisjointAt(x)'
      <4>1. DisjointAt(x)
        BY <1>1, <3>3 DEF Inductive, Reserved, DisjointUnlessContested
      <4> SUFFICES ASSUME NEW i \in DOMAIN rows', Of(x, rows'[i]), rows'[i].to > now,
                          NEW j \in DOMAIN rows', Of(x, rows'[j]), rows'[j].to > now, i # j
                   PROVE  rows'[i].to <= rows'[j].from \/ rows'[j].to <= rows'[i].from
        BY <1>1 DEF DisjointAt, Of
      <4>2. CASE i = id
        BY <2>3, <3>2, <3>3, <4>2
      <4>3. CASE j = id
        BY <2>3, <3>2, <3>3, <4>3
      <4>4. CASE i # id /\ j # id
        <5>1. i \in DOMAIN rows /\ j \in DOMAIN rows /\ rows'[i] = rows[i] /\ rows'[j] = rows[j]
          BY <2>3, <4>4
        <5> QED
          BY <4>1, <5>1 DEF DisjointAt
      <4> QED
        BY <4>2, <4>3, <4>4
    <3>4. ASSUME NEW d \in Calls, pc'[d] = "insert", Target(d)' \notin contested'
          PROVE  Free(d)'
      <4>1. d # c /\ Same(d)
        BY <2>5, <3>4
      <4>2. pc[d] = "insert" /\ Target(d)' = Target(d) /\ span'[d] = span[d] /\ Free(d)
        BY <1>1, <3>4, <4>1 DEF Same, Target, Inductive, Reserved
      <4>3. Target(d) # Target(c)
        BY <1>1, <4>1, <4>2 DEF Free
      <4>4. ~Of(Target(d), row)
        BY <3>1, <4>3 DEF Target
      <4>5. \A i \in DOMAIN rows' : Of(Target(d), rows'[i]) /\ rows'[i].to > now
                                       => ~Meets(rows'[i], span[d])
        BY <2>3, <4>2, <4>4 DEF Free
      <4>6. \A e \in Calls : pc'[e] = "insert" => pc[e] = "insert" /\ Target(e)' = Target(e)
        BY <1>1, <2>5 DEF Same, Target
      <4> QED
        BY <1>1, <4>2, <4>5, <4>6 DEF Free
    <3> QED
      BY <3>3, <3>4 DEF Reserved, DisjointUnlessContested
  <2> QED
    BY <1>1, <2>4, <2>5, <2>6, <2>7, <2>8, <2>9, OneCall
<1> QED
  BY <1>1, <1>4, <1>5 DEF Insert
LEMMA RollbackKeeps ==
    ASSUME Inductive, NEW c \in Calls, Rollback(c)
    PROVE  Inductive'
<1>1. /\ pc[c] = "rollback"
      /\ UNCHANGED <<now, seq, req, span, rest, cur, opened, view, met, missed, gone, contested>>
      /\ \/ undo[c] = {} /\ pc' = [pc EXCEPT ![c] = "failed"] /\ UNCHANGED <<rows, undo>>
         \/ \E i \in undo[c] : /\ undo' = [undo EXCEPT ![c] = @ \ {i}]
                               /\ rows' = IF c \in gone THEN rows ELSE Cancel({i})
                               /\ UNCHANGED pc
  BY DEF Rollback
<1>2. TypeOK /\ Fields /\ Local(c) /\ now \in Nat
  BY TimesAssumption DEF Inductive, TypeOK
<1>3. Weaker /\ Onward
  <2>1. rows' = rows \/ \E i \in undo[c] : rows' = Cancel({i})
    BY <1>1
  <2>2. Weaker
    BY <1>2, <2>1, SameIsWeaker, CancelRows
  <2> QED
    BY <1>1, <1>2, <2>2, WeakerIsOnward
<1>4. /\ pc'[c] \in {"rollback", "failed"} /\ pc' \in [Calls -> Labels] /\ Fields'
      /\ undo'[c] \subseteq undo[c] /\ \A d \in Calls : d # c => Same(d)
  BY <1>1, <1>2 DEF TypeOK, Labels, Ended, Fields, Same
<1>5. TypeOK'
  <2>1. \A d \in Calls : undo'[d] \subseteq opened'[d]
    BY <1>1, <1>2, <1>4 DEF TypeOK, Same
  <2>2. \A d \in Calls : pc'[d] = "insert" => cur'[d] \in rest'[d]
    BY <1>2, <1>4 DEF TypeOK, Same
  <2>3. DOMAIN rows' = DOMAIN rows
    BY <1>3 DEF Weaker
  <2> QED
    BY <1>1, <1>2, <1>3, <1>4, <2>1, <2>2, <2>3, WeakerKeepsRows DEF TypeOK, Labels
<1>6. Local(c)'
  <2>1. HasSpan(c)'
    BY <1>1, <1>2, <1>4 DEF HasSpan, Local
  <2>2. ASSUME Undoes(req[c].kind) PROVE Undoing(c)'
    <3>1. Undoing(c) /\ opened[c] \subseteq DOMAIN rows
      BY <1>2, <2>2 DEF Local, TypeOK
    <3>2. CASE undo[c] = {} /\ pc' = [pc EXCEPT ![c] = "failed"] /\ UNCHANGED <<rows, undo>>
      BY <1>1, <1>2, <3>1, <3>2 DEF Undoing, TypeOK
    <3>3. ASSUME NEW i \in undo[c], undo' = [undo EXCEPT ![c] = @ \ {i}], UNCHANGED pc,
                 rows' = IF c \in gone THEN rows ELSE Cancel({i})
          PROVE  Undoing(c)'
      <4>1. undo'[c] = undo[c] \ {i}
        BY <1>2, <3>3 DEF Fields
      <4>2. c \notin gone => \A j \in DOMAIN rows : rows'[j].open <=> rows[j].open /\ j # i
        BY <1>2, <3>3, CancelRows
      <4> QED
        BY <1>1, <3>1, <3>3, <4>1, <4>2 DEF Undoing
    <3> QED
      BY <1>1, <3>2, <3>3
  <2>3. Sweeping(c)'
    BY <1>4 DEF Sweeping
  <2>4. \A i \in met[c] : rows'[i].sku = req[c].sku
    BY <1>2, <1>3 DEF Local, Onward, TypeOK
  <2> QED
    BY <1>1, <2>1, <2>2, <2>3, <2>4 DEF Local
<1>7. Reserved'
  BY <1>1, <1>2, <1>3, <1>4, ReservedKept DEF Same
<1> QED
  BY <1>1, <1>3, <1>4, <1>5, <1>6, <1>7, WeakerKeepsRows, OneCall
-----------------------------------------------------------------------------
(* Windows are extended.                                                   *)

LEMMA RetimeRows ==
    ASSUME TypeOK, NEW ids \in SUBSET DOMAIN rows, NEW s, IsSpan(s), rows' = Retime(ids, s)
    PROVE  /\ DOMAIN rows' = DOMAIN rows
           /\ \A i \in DOMAIN rows \ ids : rows'[i] = rows[i]
           /\ \A i \in ids : /\ rows'[i] \in Row /\ rows'[i].sku = rows[i].sku
                             /\ rows'[i].provider = rows[i].provider
                             /\ rows'[i].from = s[1] /\ rows'[i].to = s[2]
                             /\ rows'[i].open = rows[i].open
<1>1. DOMAIN rows' = DOMAIN rows /\ \A i \in DOMAIN rows \ ids : rows'[i] = rows[i]
  BY DEF Retime
<1>2. ASSUME NEW i \in ids
      PROVE  /\ rows'[i] \in Row /\ rows'[i].sku = rows[i].sku
             /\ rows'[i].provider = rows[i].provider
             /\ rows'[i].from = s[1] /\ rows'[i].to = s[2] /\ rows'[i].open = rows[i].open
  <2>1. rows'[i] = [rows[i] EXCEPT !.from = s[1], !.to = s[2]]
    BY DEF Retime
  <2>2. rows[i] \in Row /\ s[1] \in Nat /\ s[2] \in Nat
    BY DEF TypeOK, IsSpan
  <2> QED
    BY <2>1, <2>2 DEF Row
<1> QED
  BY <1>1, <1>2

LEMMA ExtendKeeps ==
    ASSUME Inductive, NEW c \in Calls, handleScopeMaintenanceExtend(c),
           req[c].kind \in {"extend", "extendChat"}
    PROVE  Inductive'
<1> DEFINE s == req[c].sku
           label == IF rows' = rows THEN "failed" ELSE "done"
<1>1. /\ pc[c] = "extend" /\ Going(c, label)
      /\ rows' = IF c \in gone THEN rows ELSE Retime(InEffect(s), span[c])
      /\ contested' = IF c \in gone THEN contested ELSE contested \cup Doubled(s)
      /\ UNCHANGED <<now, seq, req, span, rest, cur, opened, undo, view, met, missed, gone>>
  BY DEF handleScopeMaintenanceExtend
<1>2. /\ TypeOK /\ Fields /\ Local(c) /\ now \in Nat /\ IsSpan(span[c]) /\ s \in SKUs
      /\ ~Undoes(req[c].kind) /\ req[c].kind \notin Reopenings
  BY <1>1, TimesAssumption, RequestsAssumption
     DEF Inductive, TypeOK, Local, HasSpan, Undoes, Reopenings
<1>3. label \in {"failed", "done"}
  OBVIOUS
<1> HIDE DEF label
<1>4. CASE c \in gone
  <2>1. Weaker
    BY <1>1, <1>2, <1>4, SameIsWeaker
  <2>2. rest' \in [Calls -> SUBSET Providers] /\ missed' \in [Calls -> Nat]
    BY <1>1, <1>2 DEF TypeOK
  <2> QED
    BY <1>1, <1>2, <1>3, <1>4, <2>1, <2>2, GoingKeeps DEF Labels, Ended
<1>5. CASE c \notin gone
  <2>1. /\ DOMAIN rows' = DOMAIN rows
        /\ \A i \in DOMAIN rows \ InEffect(s) : rows'[i] = rows[i]
        /\ \A i \in InEffect(s) : /\ rows'[i] \in Row /\ rows'[i].sku = rows[i].sku
                                  /\ rows'[i].provider = rows[i].provider
                                  /\ rows'[i].from = span[c][1] /\ rows'[i].to = span[c][2]
                                  /\ rows'[i].open = rows[i].open
    <3>1. InEffect(s) \in SUBSET DOMAIN rows
      BY DEF InEffect
    <3> QED
      BY <1>1, <1>2, <1>5, <3>1, RetimeRows
  <2>2. \A i \in InEffect(s) : i \in DOMAIN rows /\ rows[i].open /\ rows[i].to > now
    BY DEF InEffect
  <2>3. Onward
    <3>1. \A i \in DOMAIN rows : Over(i) => i \notin InEffect(s)
      BY <1>2, <2>2, RowFields DEF Over
    <3> QED
      BY <1>1, <2>1, <3>1 DEF Onward, Over
  <2>4. /\ pc' \in [Calls -> Labels] /\ pc'[c] = label /\ Fields'
        /\ \A d \in Calls : d # c => Same(d)
    BY <1>1, <1>2, <1>3 DEF Going, TypeOK, Labels, Ended, Fields, Same
  <2>5. Doubled(s) \subseteq Pairs
    BY <1>2 DEF Doubled, Pairs
  <2>6. TypeOK'
    <3>1. \A i \in DOMAIN rows' : rows'[i] \in Row /\ rows'[i].from < rows'[i].to
      BY <1>2, <2>1 DEF TypeOK, IsSpan
    <3>2. \A d \in Calls : pc'[d] = "insert" => cur'[d] \in rest'[d]
      BY <1>1, <1>2, <1>3, <2>4 DEF TypeOK, Same
    <3>3. contested' \subseteq Pairs
      BY <1>1, <1>2, <2>5 DEF TypeOK
    <3> QED
      BY <1>1, <1>2, <2>1, <2>4, <3>1, <3>2, <3>3 DEF TypeOK, Labels
  <2>7. Bounded'
    <3>1. PICK b \in Nat : \A i \in DOMAIN rows : rows[i].to <= b
      BY DEF Inductive, Bounded
    <3>2. \A i \in DOMAIN rows : rows[i].to \in Nat
      BY <1>2, RowFields
    <3>3. b + span[c][2] \in Nat /\ \A i \in DOMAIN rows' : rows'[i].to <= b + span[c][2]
      BY <1>2, <2>1, <3>1, <3>2 DEF IsSpan
    <3> QED
      BY <3>3 DEF Bounded
  <2>8. Local(c)'
    <3>1. HasSpan(c)'
      BY <1>1, <1>2, <1>3, <2>4 DEF HasSpan, Local
    <3>2. \A i \in met[c] : rows'[i].sku = req[c].sku
      BY <1>2, <2>3 DEF Local, Onward, TypeOK
    <3> QED
      BY <1>1, <1>2, <3>1, <3>2 DEF Local
  <2>9. Reserved'
    \* A pair of another sku is as it was, and one of this sku has one window.
    <3>1. ASSUME NEW x, x[1] # s, NEW i \in DOMAIN rows', Of(x, rows'[i])
          PROVE  rows'[i] = rows[i]
      BY <2>1, <3>1 DEF Of, InEffect
    <3>2. ASSUME NEW x, x[1] = s, NEW i \in DOMAIN rows', Of(x, rows'[i]), rows'[i].to > now
          PROVE  i \in InEffect(s) /\ rows[i].provider = x[2]
      <4>1. CASE i \in InEffect(s)
        BY <2>1, <3>2, <4>1 DEF Of
      <4>2. CASE i \notin InEffect(s)
        BY <2>1, <3>2, <4>2 DEF Of, InEffect
      <4> QED
        BY <4>1, <4>2
    <3>3. ASSUME NEW x \in Pairs \ contested' PROVE DisjointAt(x)'
      <4> SUFFICES ASSUME NEW i \in DOMAIN rows', Of(x, rows'[i]), rows'[i].to > now,
                          NEW j \in DOMAIN rows', Of(x, rows'[j]), rows'[j].to > now, i # j
                   PROVE  rows'[i].to <= rows'[j].from \/ rows'[j].to <= rows'[i].from
        BY <1>1 DEF DisjointAt, Of
      <4>1. CASE x[1] # s
        <5>1. rows'[i] = rows[i] /\ rows'[j] = rows[j] /\ i \in DOMAIN rows /\ j \in DOMAIN rows
          BY <2>1, <3>1, <4>1
        <5>2. DisjointAt(x)
          BY <1>1, <3>3 DEF Inductive, Reserved, DisjointUnlessContested
        <5> QED
          BY <5>1, <5>2 DEF DisjointAt
      <4>2. CASE x[1] = s
        <5>1. /\ i \in InEffect(s) /\ rows[i].provider = x[2]
              /\ j \in InEffect(s) /\ rows[j].provider = x[2]
          BY <3>2, <4>2
        <5>2. x \in {s} \X Providers
          BY <3>3, <4>2 DEF Pairs
        <5>3. x \in Doubled(s)
          BY <5>1, <5>2 DEF Doubled
        <5> QED
          BY <1>1, <1>5, <3>3, <5>3
      <4> QED
        BY <4>1, <4>2
    <3>4. ASSUME NEW d \in Calls, pc'[d] = "insert", Target(d)' \notin contested'
          PROVE  Free(d)'
      <4>1. d # c /\ Same(d) /\ pc[d] = "insert" /\ Target(d)' = Target(d) /\ span'[d] = span[d]
        BY <1>1, <1>3, <2>4, <3>4 DEF Same, Target
      <4>2. Free(d)
        BY <1>1, <3>4, <4>1 DEF Inductive, Reserved
      <4>3. Target(d)[1] # s
        <5> SUFFICES ASSUME Target(d)[1] = s PROVE FALSE
          OBVIOUS
        <5>1. cur[d] \in Providers
          BY <1>2, <4>1 DEF TypeOK
        <5>2. Target(d) \in {s} \X Providers
          BY <5>1 DEF Target
        <5>3. Target(d) \in Doubled(s)
          BY <4>1, <5>2 DEF Doubled
        <5> QED
          BY <1>1, <1>5, <3>4, <4>1, <5>3
      <4>4. \A i \in DOMAIN rows' : Of(Target(d), rows'[i]) => rows'[i] = rows[i]
        BY <3>1, <4>3
      <4>5. \A e \in Calls : pc'[e] = "insert" => pc[e] = "insert" /\ Target(e)' = Target(e)
        BY <1>1, <1>3, <2>4 DEF Same, Target
      <4> QED
        BY <1>1, <2>1, <4>1, <4>2, <4>4, <4>5 DEF Free
    <3> QED
      BY <3>3, <3>4 DEF Reserved, DisjointUnlessContested
  <2> QED
    BY <1>1, <2>3, <2>4, <2>6, <2>7, <2>8, <2>9, OneCall
<1> QED
  BY <1>4, <1>5
LEMMA LengthenKeeps ==
    ASSUME Inductive, NEW c \in Calls, Lengthen(c), req[c].kind = "extendChat"
    PROVE  Inductive'
<1> DEFINE open   == OpenFor(req[c].sku)
           starts == {rows[i].from : i \in open}
           ends   == {rows[i].to : i \in open}
           until  == <<Min(starts), Max(ends) + Duration>>
<1>1. /\ pc[c] = "measure"
      /\ UNCHANGED <<now, rows, seq, req, rest, cur, opened, undo, view, met, missed, gone,
                     contested>>
      /\ \/ Going(c, "failed") /\ UNCHANGED span
         \/ open # {} /\ span' = [span EXCEPT ![c] = until] /\ Going(c, "extend")
  BY DEF Lengthen
<1>2. /\ TypeOK /\ Fields /\ Local(c) /\ now \in Nat /\ Duration \in Nat
      /\ ~Undoes(req[c].kind) /\ req[c].kind \notin Reopenings
  BY TimesAssumption DEF Inductive, TypeOK, Undoes, Reopenings
<1>3. Weaker /\ Onward
  BY <1>1, <1>2, SameIsWeaker, WeakerIsOnward
<1>4. CASE Going(c, "failed") /\ UNCHANGED span
  <2>1. rest' \in [Calls -> SUBSET Providers] /\ missed' \in [Calls -> Nat]
    BY <1>1, <1>2 DEF TypeOK
  <2> QED
    BY <1>1, <1>2, <1>3, <1>4, <2>1, GoingKeeps DEF Labels, Ended
<1>5. CASE open # {} /\ span' = [span EXCEPT ![c] = until] /\ Going(c, "extend")
  <2>0. open \subseteq DOMAIN rows
    BY DEF OpenFor
  <2> HIDE DEF open
  <2>1. \A i \in open : rows[i].from \in Nat /\ rows[i].to \in Nat /\ rows[i].from < rows[i].to
    BY <1>2, <2>0, RowFields
  <2>2. PICK b \in Nat : \A i \in DOMAIN rows : rows[i].to <= b
    BY DEF Inductive, Bounded
  <2>3. PICK i \in open : TRUE
    BY <1>5
  <2>4. /\ starts \in SUBSET Nat /\ rows[i].from \in starts
        /\ ends \in SUBSET Nat /\ rows[i].to \in ends /\ \A t \in ends : t <= b
    BY <2>0, <2>1, <2>2, <2>3
  <2> HIDE DEF starts, ends
  <2>5. Min(starts) \in starts /\ Min(starts) <= rows[i].from
    BY <2>4, MinIsThere
  <2>6. Max(ends) \in ends /\ rows[i].to <= Max(ends)
    <3>1. ends # {}
      BY <2>4
    <3> QED
      BY <2>2, <2>4, <3>1, MaxIsThere
  <2>7. IsSpan(until)
    <3>1. Min(starts) \in Nat /\ Max(ends) \in Nat
      BY <2>4, <2>5, <2>6
    <3> QED
      BY <1>2, <2>1, <2>3, <2>5, <2>6, <3>1 DEF IsSpan
  <2> HIDE DEF until
  <2>8. /\ pc' \in [Calls -> Labels] /\ pc'[c] = "extend" /\ span'[c] = until /\ Fields'
        /\ \A d \in Calls : d # c => Same(d)
    BY <1>1, <1>2, <1>5 DEF Going, TypeOK, Labels, Fields, Same
  <2>9. TypeOK'
    <3>1. \A d \in Calls : pc'[d] = "insert" => cur'[d] \in rest'[d]
      BY <1>1, <1>2, <2>8 DEF TypeOK, Same
    <3> QED
      BY <1>1, <1>2, <2>8, <3>1 DEF TypeOK, Labels
  <2>10. Local(c)'
    <3>1. HasSpan(c)'
      BY <2>7, <2>8 DEF HasSpan
    <3> QED
      BY <1>1, <1>2, <3>1 DEF Local
  <2>11. Reserved'
    BY <1>1, <1>2, <1>3, <2>8, ReservedKept DEF Same
  <2> QED
    BY <1>1, <1>3, <2>8, <2>9, <2>10, <2>11, WeakerKeepsRows, OneCall
<1> QED
  BY <1>1, <1>4, <1>5

LEMMA ChatExtendKeeps ==
    ASSUME Inductive, NEW c \in Calls, chatExtendMaintenance(c)
    PROVE  Inductive'
<1>1. req[c].kind = "extendChat" /\ ~Undoes(req[c].kind)
  BY DEF chatExtendMaintenance, Undoes
<1> QED
  BY <1>1, CountKeeps, LengthenKeeps, ExtendKeeps DEF chatExtendMaintenance

-----------------------------------------------------------------------------
(* Clients, processes and time.                                            *)

LEMMA HangUpKeeps ==
    ASSUME Inductive, NEW c \in Calls, HangUp(c)
    PROVE  Inductive'
<1>1. gone' = gone \cup {c} /\ UNCHANGED <<now, rows, seq, callVars, contested>>
  BY DEF HangUp
<1>2. UNCHANGED <<pc, req, span, rest, cur, opened, undo, view, met, missed>>
  BY <1>1 DEF callVars
<1>3. TypeOK /\ now \in Nat
  BY TimesAssumption DEF Inductive, TypeOK
<1>4. Weaker /\ Onward
  BY <1>1, <1>3, SameIsWeaker, WeakerIsOnward
<1>5. TypeOK' /\ Fields'
  BY <1>1, <1>2 DEF Inductive, TypeOK, Fields
<1>6. \A d \in Calls : Local(d)'
  BY <1>1, <1>2, <1>4, LocalKept DEF Same
<1>7. Reserved'
  BY <1>1, <1>2, <1>3, <1>4, ReservedKept
<1> QED
  BY <1>4, <1>5, <1>6, <1>7, WeakerKeepsRows DEF Inductive

LEMMA RestartKeeps ==
    ASSUME Inductive, NEW q \in Processes, Restart(q)
    PROVE  Inductive'
<1>1. /\ pc' = [c \in Calls |-> IF ProcessOf[c] = q /\ InFlight(c) THEN "dead" ELSE pc[c]]
      /\ seq' = [seq EXCEPT ![q] = 0]
      /\ UNCHANGED <<now, rows, req, span, rest, cur, opened, undo, view, met, missed, gone,
                     contested>>
  BY DEF Restart
<1>2. TypeOK /\ now \in Nat
  BY TimesAssumption DEF Inductive, TypeOK
<1>3. Weaker /\ Onward
  BY <1>1, <1>2, SameIsWeaker, WeakerIsOnward
<1>4. \A c \in Calls : pc'[c] = pc[c] \/ (InFlight(c) /\ pc'[c] = "dead")
  BY <1>1
<1>5. TypeOK' /\ Fields'
  <2>1. seq' \in [Processes -> 0..(Wrap - 1)]
    BY <1>1, <1>2, TimesAssumption DEF TypeOK
  <2>2. pc' \in [Calls -> Labels]
    BY <1>1, <1>2 DEF TypeOK, Labels, Ended
  <2> QED
    BY <1>1, <1>2, <1>4, <2>1, <2>2 DEF TypeOK, Labels, Fields, Inductive
<1>6. ASSUME NEW d \in Calls PROVE Local(d)'
  <2>1. CASE pc'[d] = pc[d]
    BY <1>1, <1>3, <2>1, LocalKept DEF Same
  <2>2. CASE InFlight(d) /\ pc'[d] = "dead"
    <3>1. Local(d) /\ pc[d] # "idle"
      BY <2>2 DEF Inductive, InFlight
    <3> QED
      BY <1>1, <1>3, <2>2, <3>1 DEF Local, HasSpan, Undoing, Sweeping, Onward, Inductive, TypeOK
  <2> QED
    BY <1>4, <2>1, <2>2
<1>7. Reserved'
  BY <1>1, <1>2, <1>3, <1>4, ReservedKept
<1> QED
  BY <1>3, <1>5, <1>6, <1>7, WeakerKeepsRows DEF Inductive

LEMMA TickKeeps ==
    ASSUME Inductive, Tick
    PROVE  Inductive'
<1>1. now < Horizon /\ now' = now + 1 /\ UNCHANGED <<rows, seq, callVars, gone, contested>>
  BY DEF Tick
<1>2. UNCHANGED <<pc, req, span, rest, cur, opened, undo, view, met, missed>>
  BY <1>1 DEF callVars
<1>3. TypeOK /\ now' \in 0..Horizon /\ now' \in Nat /\ now <= now'
  BY <1>1, TimesAssumption DEF Inductive, TypeOK
<1>4. Weaker /\ Onward
  BY <1>1, <1>3, SameIsWeaker, WeakerIsOnward
<1>5. TypeOK' /\ Fields'
  BY <1>1, <1>2, <1>3 DEF Inductive, TypeOK, Fields
<1>6. \A d \in Calls : Local(d)'
  BY <1>1, <1>2, <1>4, LocalKept DEF Same
<1>7. Reserved'
  BY <1>1, <1>2, <1>3, <1>4, ReservedKept
<1> QED
  BY <1>4, <1>5, <1>6, <1>7, WeakerKeepsRows DEF Inductive

-----------------------------------------------------------------------------
(* Every step.                                                             *)

LEMMA Initially == Init => Inductive
<1> SUFFICES ASSUME Init PROVE Inductive
  OBVIOUS
<1>1. /\ now = 0 /\ rows = [i \in {} |-> None] /\ seq = [q \in Processes |-> 0]
      /\ pc = [c \in Calls |-> "idle"]
      /\ req \in {f \in [Calls -> Requests] : \A c \in Calls : f[c] \in MayAsk[c]}
      /\ span = [c \in Calls |-> None] /\ rest = [c \in Calls |-> {}]
      /\ cur = [c \in Calls |-> None] /\ opened = [c \in Calls |-> {}]
      /\ undo = [c \in Calls |-> {}] /\ view = [c \in Calls |-> {}]
      /\ met = [c \in Calls |-> {}] /\ missed = [c \in Calls |-> 0]
      /\ gone = {} /\ contested = {}
  BY DEF Init
<1>2. DOMAIN rows = {}
  BY <1>1
<1>3. TypeOK /\ Fields
  <2>1. now \in 0..Horizon /\ seq \in [Processes -> 0..(Wrap - 1)]
    BY <1>1, TimesAssumption
  <2>2. pc \in [Calls -> Labels] /\ \A c \in Calls : pc[c] # "insert"
    BY <1>1 DEF Labels
  <2> QED
    BY <1>1, <1>2, <2>1, <2>2 DEF TypeOK, Fields, Labels
<1>4. Bounded
  <2>1. 0 \in Nat /\ \A i \in DOMAIN rows : rows[i].to <= 0
    BY <1>2
  <2> QED
    BY <2>1 DEF Bounded
<1>5. \A c \in Calls : Local(c)
  BY <1>1 DEF Local, HasSpan, Undoing, Sweeping
<1>6. Reserved
  BY <1>1, <1>2 DEF Reserved, DisjointUnlessContested, DisjointAt
<1> QED
  BY <1>3, <1>4, <1>5, <1>6 DEF Inductive

LEMMA StepKeeps ==
    ASSUME Inductive, [Next]_vars
    PROVE  Inductive'
<1>1. CASE UNCHANGED vars
  <2>1. UNCHANGED <<now, rows, seq, gone, contested, pc, req, span, rest, cur, opened, undo,
                    view, met, missed>>
    BY <1>1 DEF vars, callVars
  <2>2. TypeOK' /\ Fields' /\ Bounded' /\ \A c \in Calls : Local(c)'
    BY <2>1 DEF Inductive, TypeOK, Fields, Bounded, Local, HasSpan, Undoing, Over,
                   Sweeping, EndsMet
  <2>3. Weaker /\ now \in Nat
    BY <2>1, SameIsWeaker, TimesAssumption DEF Inductive, TypeOK
  <2>4. Reserved'
    BY <2>1, <2>3, ReservedKept
  <2> QED
    BY <2>2, <2>4 DEF Inductive
<1>2. ASSUME NEW c \in Calls, Step(c) PROVE Inductive'
  <2>1. CASE LoadPage(c) \/ Enter(c) \/ SetMaintenance(c) \/ Rollback(c) \/ HangUp(c)
    BY <2>1, LoadPageKeeps, EnterKeeps, CheckKeeps, ReplaceKeeps, InsertKeeps, RollbackKeeps,
       HangUpKeeps DEF SetMaintenance
  <2>2. CASE \/ handleScopeMaintenanceReopenService(c) \/ handleScopeMaintenanceCancel(c)
             \/ handleScopeMaintenanceBatchCancel(c) \/ chatSetMaintenanceScopeAll(c)
             \/ chatReopenService(c) \/ tryChatReopenAllServicesReply(c)
    BY <2>2, ReopenKeeps, CancelKeeps
  <2>3. CASE \/ req[c].kind = "extend" /\ handleScopeMaintenanceExtend(c)
             \/ chatSetMaintenanceScope(c) \/ chatExtendMaintenance(c)
    BY <2>3, ExtendKeeps, ChatKeeps, ChatExtendKeeps
  <2> QED
    BY <1>2, <2>1, <2>2, <2>3 DEF Step
<1> QED
  BY <1>1, <1>2, RestartKeeps, TickKeeps DEF Next

LEMMA SpecInductive == Spec => []Inductive
<1>1. Inductive /\ [Next]_vars => Inductive'
  BY StepKeeps
<1> QED
  BY Initially, <1>1, PTL DEF Spec

-----------------------------------------------------------------------------
(* The theorems.                                                           *)

\* The table and the calls are well typed, whatever is asked and lost.
THEOREM TypeCorrect == Spec => []TypeOK
<1>1. Inductive => TypeOK
  BY DEF Inductive
<1> QED
  BY SpecInductive, <1>1, PTL

\* Windows of one provider for one sku never overlap, for any number of
\* callers, except where two of them stood between check and insert at once, an
\* extension moved several windows, or a replacement lost its error.
THEOREM WindowsDisjoint == Spec => []DisjointUnlessContested
<1>1. Inductive => DisjointUnlessContested
  BY DEF Inductive, Reserved
<1> QED
  BY SpecInductive, <1>1, PTL

\* An approval or a chat command that returns an error to a caller who is still
\* there has left no window of its own open, whatever the others did meanwhile.
THEOREM ErrorLeavesNothing == Spec => []AllOrNothing
<1>1. Inductive => AllOrNothing
  BY DEF Inductive, Local, Undoing, AllOrNothing
<1> QED
  BY SpecInductive, <1>1, PTL

\* A reopening that went on to the routing after at most one failure has ended
\* every window that was open when it came in, on its page or not.
THEOREM ReopeningEnds == Spec => []ReopenEndsWindows
<1>1. Inductive => ReopenEndsWindows
  <2> SUFFICES ASSUME Inductive, NEW c \in Calls, req[c].kind \in Reopenings,
                      pc[c] \in {"route", "done"}, missed[c] <= 1, NEW i \in met[c]
               PROVE  ~rows[i].open \/ rows[i].to <= now
    BY DEF ReopenEndsWindows
  <2>1. EndsMet(c)
    BY DEF Inductive, Local, Sweeping
  <2> QED
    BY <2>1 DEF EndsMet, Over
<1> QED
  BY SpecInductive, <1>1, PTL
=============================================================================

-------------------------- MODULE ChatTurnsProofs --------------------------
(***************************************************************************)
(* Proofs about ChatTurns for any number of turns, sessions and messages,  *)
(* any length of the history and any number of restarts.                   *)
(*                                                                         *)
(* What the runs check of the cache is not inductive: it says nothing of a *)
(* turn between its query and its store.  Refreshed adds that the map such *)
(* a turn holds has a correction for every heard text that counts, and     *)
(* that stays so because a goroutine is through only once it had the lock. *)
(***************************************************************************)
EXTENDS ChatTurns, SequenceTheorems, WellFoundedInduction, TLAPS

Refreshed ==
    \A t \in Turns :
        LET map == turn[t].loaded
        IN  /\ \A m \in DOMAIN map : <<m, map[m]>> \in learned
            /\ turn[t].pc = "store" => Heard(settled) \subseteq DOMAIN map

CacheInv == TypeOK /\ Refreshed /\ CorrectionsReachTurns

-----------------------------------------------------------------------------
\* A correction of a text is a text.
LEMMA AppliedIsText ==
    ASSUME NEW map \in Maps, NEW m \in Text
    PROVE  Applied(map, m) \in Text
BY DEF Applied, Maps

LEMMA NoMapIsMap == NoMap \in Maps /\ DOMAIN NoMap = {}
<1>1. NoMap \in [{} -> Text] /\ DOMAIN NoMap = {}
  BY DEF NoMap
<1> QED
  BY <1>1 DEF Maps

\* A map of corrections holds some of them, one for every heard text.
LEMMA MapsOfAreMaps ==
    ASSUME NEW pairs, pairs \subseteq Text \X Text, NEW map \in MapsOf(pairs)
    PROVE  /\ map \in Maps /\ DOMAIN map = Heard(pairs)
           /\ \A m \in DOMAIN map : <<m, map[m]>> \in pairs
<1>1. Heard(pairs) \subseteq Text
  BY DEF Heard
<1>2. /\ map \in [Heard(pairs) -> Text] /\ DOMAIN map = Heard(pairs)
      /\ \A m \in DOMAIN map : <<m, map[m]>> \in pairs
  BY DEF MapsOf
<1> QED
  BY <1>1, <1>2 DEF Maps

\* A cut history is a history, not longer than the limit.
LEMMA TrimmedIsShort ==
    ASSUME NEW S, NEW h \in Seq(S)
    PROVE  /\ Trimmed(h) \in Seq(S)
           /\ Len(Trimmed(h)) <= HistoryLimit
<1>1. HistoryLimit \in Nat
  BY ChatAssumption
<1>2. CASE Len(h) <= HistoryLimit
  BY <1>1, <1>2 DEF Trimmed
<1>3. CASE Len(h) > HistoryLimit
  <2> DEFINE a == Len(h) - HistoryLimit + 1
  <2>1. a \in 1..(Len(h) + 1) /\ Len(h) \in Nat
    BY <1>1, <1>3
  <2>2. SubSeq(h, a, Len(h)) \in Seq(S)
    BY <2>1
  <2>3. Len(SubSeq(h, a, Len(h))) = Len(h) - a + 1
    BY <2>1
  <2> QED
    BY <1>1, <1>3, <2>1, <2>2, <2>3 DEF Trimmed
<1> QED
  BY <1>1, <1>2, <1>3

\* Of one turn that moves, the others keep their state.
LEMMA GoesTyped ==
    ASSUME TypeOK, NEW t \in Turns, NEW v \in Turn, Goes(t, v)
    PROVE  /\ turn' \in [Turns -> Turn]
           /\ turn'[t] = v
           /\ \A u \in Turns \ {t} : turn'[u] = turn[u]
BY DEF TypeOK, Goes

\* What Corrects does to the turn and its goroutine.
LEMMA CorrectsTyped ==
    ASSUME TypeOK, NEW t \in Turns, turn[t].said \in Text, NEW map \in Maps, Corrects(t, map)
    PROVE  /\ turn' \in [Turns -> Turn]
           /\ turn'[t].pc = "retry" /\ turn'[t].loaded = NoMap
           /\ turn'[t].session = turn[t].session
           /\ \A u \in Turns \ {t} : turn'[u] = turn[u]
           /\ learning' \in [Turns -> [steps : Steps, pair : Text \X Text]]
           /\ UNCHANGED <<history, marking, learned, log, expired, restarts, settled, downvoted>>
<1> DEFINE m == Applied(map, turn[t].said)
           v == [turn[t] EXCEPT !.pc = "retry", !.said = m, !.stt = None, !.loaded = NoMap]
<1>1. Goes(t, v)
  BY DEF Corrects
<1>2. m \in Text /\ NoMap \in Maps
  BY AppliedIsText, NoMapIsMap
<1> HIDE DEF m
<1>3. turn[t] \in Turn
  BY DEF TypeOK
<1>4. v \in Turn /\ v.pc = "retry" /\ v.loaded = NoMap /\ v.session = turn[t].session
  BY <1>2, <1>3 DEF Turn, Text
<1>5. /\ turn' \in [Turns -> Turn] /\ turn'[t] = v
      /\ \A u \in Turns \ {t} : turn'[u] = turn[u]
  BY <1>1, <1>4, GoesTyped
<1>6. learning' \in [Turns -> [steps : Steps, pair : Text \X Text]]
  <2> DEFINE job == IF turn[t].stt \in {None, turn[t].said} THEN NoJob
                    ELSE [steps |-> CorrectionJob, pair |-> <<turn[t].stt, turn[t].said>>]
  <2>1. job \in [steps : Steps, pair : Text \X Text]
    BY <1>3 DEF NoJob, CorrectionJob, Steps, Turn, Text
  <2>2. learning' = [learning EXCEPT ![t] = job]
    BY DEF Corrects
  <2> QED
    BY <2>1, <2>2 DEF TypeOK
<1>7. UNCHANGED <<history, marking, learned, log, expired, restarts, settled, downvoted>>
  BY DEF Corrects
<1> QED
  BY <1>4, <1>5, <1>6, <1>7

LEMMA CacheInit == Init => CacheInv
<1> SUFFICES ASSUME Init PROVE CacheInv
  OBVIOUS
<1>1. turn \in [Turns -> Turn]
  BY NoMapIsMap DEF Init, Idle, Turn, Text
<1>2. learning \in [Turns -> [steps : Steps, pair : Text \X Text]]
  BY DEF Init, NoJob, Steps, Text
<1>3. \A t \in Turns : writer = t <=> turn[t].pc \in {"query", "store"}
  BY ChatAssumption DEF Init, Idle
<1>4. TypeOK
  <2>1. history \in [Sessions -> Seq({"user", "assistant"} \X Turns)]
    BY DEF Init
  <2>2. \A s \in Sessions : Len(history[s]) <= HistoryLimit
    BY ChatAssumption DEF Init
  <2>3. log \in Seq(Row) /\ Len(log) = 0
    BY DEF Init
  <2>4. marking \in [Turns -> 0..Len(log)] /\ expired \in 0..Len(log)
    BY <2>3 DEF Init
  <2>5. restarts \in 0..Restarts
    BY ChatAssumption DEF Init
  <2>6. /\ learned \subseteq Text \X Text /\ corrections \in Maps
        /\ settled \subseteq learned
        /\ fresh \in BOOLEAN /\ writer \in Turns \cup {None} /\ downvoted \subseteq DOMAIN log
    BY NoMapIsMap, ChatAssumption DEF Init, Text
  <2> QED
    BY <1>1, <1>2, <1>3, <2>1, <2>2, <2>3, <2>4, <2>5, <2>6 DEF TypeOK
<1>5. Refreshed /\ CorrectionsReachTurns
  BY NoMapIsMap DEF Init, Idle, Refreshed, CorrectionsReachTurns
<1> QED
  BY <1>4, <1>5 DEF CacheInv

-----------------------------------------------------------------------------
(* The voice cache.                                                        *)

LEMMA ReceiveStep ==
    ASSUME CacheInv, NEW t \in Turns, Receive(t)
    PROVE  CacheInv'
<1>1. PICK s \in Sessions \cup {None}, m \in Messages, stt \in Messages \cup {None},
           voice \in BOOLEAN :
        Goes(t, [Idle EXCEPT !.pc = IF voice THEN "voice" ELSE "retry",
                             !.session = s, !.said = m, !.stt = stt])
  BY DEF Receive
<1> DEFINE v == [Idle EXCEPT !.pc = IF voice THEN "voice" ELSE "retry",
                             !.session = s, !.said = m, !.stt = stt]
<1>2. v \in Turn /\ v.pc \in {"voice", "retry"} /\ v.loaded = NoMap
  BY NoMapIsMap DEF Idle, Turn, Text
<1>3. /\ turn' \in [Turns -> Turn] /\ turn'[t] = v
      /\ \A u \in Turns \ {t} : turn'[u] = turn[u]
  BY <1>1, <1>2, GoesTyped DEF CacheInv
<1>4. turn[t].pc = "idle" /\ UNCHANGED <<history, cache, learning, marking, learned, log, expired,
                                        restarts, settled, downvoted>>
  BY DEF Receive, At
<1>5. TypeOK'
  BY <1>2, <1>3, <1>4 DEF CacheInv, TypeOK, cache
<1>6. Refreshed' /\ CorrectionsReachTurns'
  BY <1>2, <1>3, <1>4, NoMapIsMap DEF CacheInv, Refreshed, CorrectionsReachTurns, cache
<1> QED
  BY <1>5, <1>6 DEF CacheInv

\* A turn that is served without touching the cache.
LEMMA ServedStep ==
    ASSUME CacheInv, NEW t \in Turns, turn[t].pc \in {"voice", "stale"}, writer = None,
           Corrects(t, corrections), UNCHANGED cache
    PROVE  CacheInv'
<1>1. turn[t].said \in Text /\ corrections \in Maps
  BY DEF CacheInv, TypeOK, Turn
<1>2. /\ turn' \in [Turns -> Turn]
      /\ turn'[t].pc = "retry" /\ turn'[t].loaded = NoMap
      /\ \A u \in Turns \ {t} : turn'[u] = turn[u]
      /\ learning' \in [Turns -> [steps : Steps, pair : Text \X Text]]
      /\ UNCHANGED <<history, marking, learned, log, expired, restarts, settled, downvoted>>
  BY <1>1, CorrectsTyped DEF CacheInv
<1>3. TypeOK'
  BY <1>2 DEF CacheInv, TypeOK, cache
<1>4. Refreshed' /\ CorrectionsReachTurns'
  BY <1>2, NoMapIsMap DEF CacheInv, Refreshed, CorrectionsReachTurns, cache
<1> QED
  BY <1>3, <1>4 DEF CacheInv

LEMMA UseCacheStep ==
    ASSUME CacheInv, NEW t \in Turns, UseCache(t)
    PROVE  CacheInv'
<1>1. CASE fresh
  BY <1>1, ServedStep DEF UseCache, At
<1>2. CASE ~fresh
  <2> DEFINE v == [turn[t] EXCEPT !.pc = "stale"]
  <2>1. turn[t] \in Turn /\ turn[t].pc = "voice"
    BY DEF CacheInv, TypeOK, UseCache, At
  <2>2. v \in Turn /\ v.pc = "stale" /\ v.loaded = turn[t].loaded
    BY <2>1 DEF Turn
  <2>3. /\ turn' \in [Turns -> Turn] /\ turn'[t] = v
        /\ \A u \in Turns \ {t} : turn'[u] = turn[u]
    BY <1>2, <2>2, GoesTyped DEF CacheInv, UseCache
  <2>4. UNCHANGED <<history, cache, learning, marking, learned, log, expired, restarts, settled,
                    downvoted>>
    BY <1>2 DEF UseCache
  <2>5. TypeOK'
    BY <2>1, <2>2, <2>3, <2>4 DEF CacheInv, TypeOK, cache
  <2>6. Refreshed' /\ CorrectionsReachTurns'
    BY <2>2, <2>3, <2>4 DEF CacheInv, Refreshed, CorrectionsReachTurns, cache
  <2> QED
    BY <2>5, <2>6 DEF CacheInv
<1> QED
  BY <1>1, <1>2

LEMMA LockStep ==
    ASSUME CacheInv, NEW t \in Turns, Lock(t)
    PROVE  CacheInv'
<1>1. CASE fresh
  BY <1>1, ServedStep DEF Lock, At, cache
<1>2. CASE ~fresh
  <2> DEFINE v == [turn[t] EXCEPT !.pc = "query"]
  <2>1. turn[t] \in Turn /\ writer = None
    BY DEF CacheInv, TypeOK, Lock
  <2>2. v \in Turn /\ v.pc = "query" /\ v.loaded = turn[t].loaded
    BY <2>1 DEF Turn
  <2>3. /\ turn' \in [Turns -> Turn] /\ turn'[t] = v
        /\ \A u \in Turns \ {t} : turn'[u] = turn[u]
    BY <1>2, <2>2, GoesTyped DEF CacheInv, Lock
  <2>4. writer' = t /\ UNCHANGED <<corrections, fresh, history, learning, marking, learned, log,
                                   expired, restarts, settled, downvoted>>
    BY <1>2 DEF Lock
  <2>5. \A u \in Turns : turn[u].pc \notin {"query", "store"}
    BY <2>1, ChatAssumption DEF CacheInv, TypeOK
  <2>6. TypeOK'
    BY <2>2, <2>3, <2>4, <2>5 DEF CacheInv, TypeOK
  <2>7. Refreshed' /\ CorrectionsReachTurns'
    BY <2>2, <2>3, <2>4 DEF CacheInv, Refreshed, CorrectionsReachTurns
  <2> QED
    BY <2>6, <2>7 DEF CacheInv
<1> QED
  BY <1>1, <1>2

\* The turn lets go of the lock, with what it holds in the cache or not.
LEMMA ReleaseStep ==
    ASSUME CacheInv, NEW t \in Turns, turn[t].pc \in {"query", "store"},
           NEW map \in Maps, Corrects(t, map), writer' = None,
           \A m \in DOMAIN map : <<m, map[m]>> \in learned,
           \/ UNCHANGED <<corrections, fresh>>
           \/ corrections' = map /\ fresh' = TRUE /\ Heard(settled) \subseteq DOMAIN map
    PROVE  CacheInv'
<1>1. turn[t].said \in Text /\ writer = t
  BY DEF CacheInv, TypeOK, Turn
<1>2. /\ turn' \in [Turns -> Turn]
      /\ turn'[t].pc = "retry" /\ turn'[t].loaded = NoMap
      /\ \A u \in Turns \ {t} : turn'[u] = turn[u]
      /\ learning' \in [Turns -> [steps : Steps, pair : Text \X Text]]
      /\ UNCHANGED <<history, marking, learned, log, expired, restarts, settled, downvoted>>
  BY <1>1, CorrectsTyped DEF CacheInv
<1>3. \A u \in Turns : turn'[u].pc \notin {"query", "store"}
  BY <1>1, <1>2 DEF CacheInv, TypeOK
<1>4. TypeOK'
  BY <1>2, <1>3, ChatAssumption DEF CacheInv, TypeOK
<1>5. Refreshed' /\ CorrectionsReachTurns'
  BY <1>2, NoMapIsMap DEF CacheInv, Refreshed, CorrectionsReachTurns
<1> QED
  BY <1>4, <1>5 DEF CacheInv

LEMMA QueryStep ==
    ASSUME CacheInv, NEW t \in Turns, Query(t)
    PROVE  CacheInv'
<1>1. CASE writer' = None /\ Corrects(t, corrections) /\ UNCHANGED <<corrections, fresh>>
  <2>1. /\ corrections \in Maps /\ turn[t].pc = "query"
        /\ \A m \in DOMAIN corrections : <<m, corrections[m]>> \in learned
    BY DEF CacheInv, TypeOK, CorrectionsReachTurns, Query, At
  <2> QED
    BY <1>1, <2>1, ReleaseStep
<1>2. ASSUME NEW map \in MapsOf(learned),
             Goes(t, [turn[t] EXCEPT !.pc = "store", !.loaded = map]),
             UNCHANGED <<cache, history, learning, marking, learned, log, expired, restarts,
                         settled, downvoted>>
      PROVE  CacheInv'
  <2> DEFINE v == [turn[t] EXCEPT !.pc = "store", !.loaded = map]
  <2>1. turn[t] \in Turn /\ turn[t].pc = "query" /\ learned \subseteq Text \X Text
    BY DEF CacheInv, TypeOK, Query, At
  <2>2. /\ map \in Maps /\ DOMAIN map = Heard(learned)
        /\ \A m \in DOMAIN map : <<m, map[m]>> \in learned
    BY <2>1, MapsOfAreMaps
  <2>3. v \in Turn /\ v.pc = "store" /\ v.loaded = map
    BY <2>1, <2>2 DEF Turn
  <2>4. /\ turn' \in [Turns -> Turn] /\ turn'[t] = v
        /\ \A u \in Turns \ {t} : turn'[u] = turn[u]
    BY <1>2, <2>3, GoesTyped DEF CacheInv
  <2>5. TypeOK'
    BY <1>2, <2>1, <2>3, <2>4 DEF CacheInv, TypeOK, cache
  <2>6. Heard(settled) \subseteq DOMAIN map
    BY <2>2 DEF CacheInv, TypeOK, Heard
  <2>7. Refreshed' /\ CorrectionsReachTurns'
    BY <1>2, <2>2, <2>3, <2>4, <2>6 DEF CacheInv, Refreshed, CorrectionsReachTurns, cache
  <2> QED
    BY <2>5, <2>7 DEF CacheInv
<1> QED
  BY <1>1, <1>2 DEF Query

LEMMA StoreStep ==
    ASSUME CacheInv, NEW t \in Turns, Store(t)
    PROVE  CacheInv'
<1> DEFINE map == turn[t].loaded
<1>1. /\ turn[t].pc = "store" /\ map \in Maps
      /\ \A m \in DOMAIN map : <<m, map[m]>> \in learned
      /\ Heard(settled) \subseteq DOMAIN map
  BY DEF CacheInv, TypeOK, Turn, Refreshed, Store, At
<1> QED
  BY <1>1, ReleaseStep DEF Store

\* The goroutine: what it learns counts once it has dropped the cache.
LEMMA LearnStep ==
    ASSUME CacheInv, NEW t \in Turns, Learn(t)
    PROVE  CacheInv'
<1> DEFINE job  == learning[t]
           left == Tail(job.steps)
<1>1. job.steps \in Steps /\ job.pair \in Text \X Text /\ job.steps # <<>>
  BY DEF CacheInv, TypeOK, Learn
<1>2. UNCHANGED <<turn, history, corrections, writer, marking, log, expired, restarts, downvoted>>
  BY DEF Learn
<1>3. CASE job.steps = <<"upsert", "invalidate">>
  <2>1. Head(job.steps) = "upsert" /\ left = <<"invalidate">> /\ left # <<>>
    BY <1>3
  <2>2. /\ learned' \in {learned, learned \cup {job.pair}} /\ UNCHANGED <<fresh, settled>>
        /\ learning' = [learning EXCEPT ![t] = [job EXCEPT !.steps = left]]
    BY <2>1 DEF Learn
  <2>3. [job EXCEPT !.steps = left] \in [steps : Steps, pair : Text \X Text]
    <3>1. job \in [steps : Steps, pair : Text \X Text]
      BY DEF CacheInv, TypeOK
    <3>2. left \in Steps
      BY <2>1 DEF Steps
    <3> QED
      BY <3>1, <3>2
  <2>4. learning' \in [Turns -> [steps : Steps, pair : Text \X Text]]
    BY <2>2, <2>3 DEF CacheInv, TypeOK
  <2>5. TypeOK'
    BY <1>1, <1>2, <2>2, <2>4 DEF CacheInv, TypeOK
  <2>6. Refreshed' /\ CorrectionsReachTurns'
    BY <1>2, <2>2 DEF CacheInv, Refreshed, CorrectionsReachTurns
  <2> QED
    BY <2>5, <2>6 DEF CacheInv
<1>4. CASE job.steps = <<"invalidate">>
  <2>1. Head(job.steps) = "invalidate" /\ left = <<>>
    BY <1>4
  <2>2. /\ writer = None /\ fresh' = FALSE /\ learned' = learned
        /\ settled' = settled \cup ({job.pair} \cap learned)
        /\ learning' = [learning EXCEPT ![t] = NoJob]
    BY <2>1 DEF Learn
  <2>3. NoJob \in [steps : Steps, pair : Text \X Text]
    BY DEF NoJob, Steps, Text
  <2>4. learning' \in [Turns -> [steps : Steps, pair : Text \X Text]]
    BY <2>2, <2>3 DEF CacheInv, TypeOK
  <2>5. \A u \in Turns : turn[u].pc # "store"
    BY <2>2, ChatAssumption DEF CacheInv, TypeOK
  <2>6. TypeOK'
    BY <1>2, <2>2, <2>4 DEF CacheInv, TypeOK
  <2>7. Refreshed' /\ CorrectionsReachTurns'
    BY <1>2, <2>2, <2>5 DEF CacheInv, Refreshed, CorrectionsReachTurns
  <2> QED
    BY <2>6, <2>7 DEF CacheInv
<1> QED
  BY <1>1, <1>3, <1>4 DEF Steps

-----------------------------------------------------------------------------
(* Steps that leave the cache alone.                                       *)

\* Some rows of a log have a newest one.
LEMMA NewestIsNewest ==
    ASSUME NEW n \in Nat, NEW rows, rows \subseteq 1..n, rows # {}
    PROVE  Newest(rows) \in rows /\ \A j \in rows : j <= Newest(rows)
<1> DEFINE ages == {n - i : i \in rows}
           less == {p \in Nat \X Nat : p[1] < p[2]}
<1>1. IsWellFoundedOn(less, Nat)
  BY NatLessThanWellFounded DEF OpToRel
<1>2. ages \subseteq Nat /\ ages # {}
  <2>1. \A i \in rows : n - i \in Nat
    OBVIOUS
  <2>2. PICK i \in rows : TRUE
    OBVIOUS
  <2>3. n - i \in ages
    BY <2>2
  <2> QED
    BY <2>1, <2>3
<1>3. PICK a \in ages : \A b \in ages : <<b, a>> \notin less
  <2> HIDE DEF ages, less
  <2> QED
    BY <1>1, <1>2, WFMin
<1>4. PICK i \in rows : a = n - i
  BY <1>3
<1>5. \A j \in rows : j <= i
  <2> SUFFICES ASSUME NEW j \in rows PROVE j <= i
    OBVIOUS
  <2>1. n - j \in Nat /\ n - i \in Nat /\ <<n - j, n - i>> \notin less
    BY <1>3, <1>4
  <2>2. ~(n - j < n - i)
    BY <2>1
  <2>3. i \in Int /\ j \in Int
    OBVIOUS
  <2> QED
    BY <2>2, <2>3
<1> QED
  BY <1>5 DEF Newest

\* A turn that goes on, keeps out of the lock and what it had loaded.
LEMMA MovesTyped ==
    ASSUME CacheInv, NEW t \in Turns, turn[t].pc \notin {"query", "store"},
           NEW l \in {"reply", "success", "error", "no_op", "done"},
           Goes(t, [turn[t] EXCEPT !.pc = l]), UNCHANGED <<cache, learned, settled>>
    PROVE  /\ turn' \in [Turns -> Turn]
           /\ \A u \in Turns : writer' = u <=> turn'[u].pc \in {"query", "store"}
           /\ Refreshed' /\ CorrectionsReachTurns'
<1> DEFINE v == [turn[t] EXCEPT !.pc = l]
<1>1. turn[t] \in Turn
  BY DEF CacheInv, TypeOK
<1>2. v \in Turn /\ v.pc = l /\ v.loaded = turn[t].loaded
  BY <1>1 DEF Turn
<1>3. /\ turn' \in [Turns -> Turn] /\ turn'[t] = v
      /\ \A u \in Turns \ {t} : turn'[u] = turn[u]
  BY <1>2, GoesTyped DEF CacheInv
<1>4. \A u \in Turns : writer' = u <=> turn'[u].pc \in {"query", "store"}
  BY <1>2, <1>3 DEF CacheInv, TypeOK, cache
<1>5. Refreshed' /\ CorrectionsReachTurns'
  BY <1>2, <1>3 DEF CacheInv, Refreshed, CorrectionsReachTurns, cache
<1> QED
  BY <1>3, <1>4, <1>5

LEMMA RetryStep ==
    ASSUME CacheInv, NEW t \in Turns, detectAndMarkRetry(t)
    PROVE  CacheInv'
<1> DEFINE rows == Recent(turn[t].session)
<1>1. /\ turn' \in [Turns -> Turn]
      /\ \A u \in Turns : writer' = u <=> turn'[u].pc \in {"query", "store"}
      /\ Refreshed' /\ CorrectionsReachTurns'
  BY MovesTyped DEF detectAndMarkRetry, At, cache
<1>2. marking' \in [Turns -> 0..Len(log)]
  <2>1. Len(log) \in Nat /\ DOMAIN log = 1..Len(log) /\ marking \in [Turns -> 0..Len(log)]
    BY DEF CacheInv, TypeOK
  <2>2. rows # {} => Newest(rows) \in 1..Len(log)
    <3>1. rows \subseteq 1..Len(log)
      BY <2>1 DEF Recent
    <3> HIDE DEF rows
    <3> QED
      BY <2>1, <3>1, NewestIsNewest
  <2>3. PICK i \in 0..Len(log) : marking' = [marking EXCEPT ![t] = i]
    <3> HIDE DEF rows
    <3>1. \/ marking' = [marking EXCEPT ![t] = 0]
          \/ rows # {} /\ marking' = [marking EXCEPT ![t] = Newest(rows)]
      BY DEF detectAndMarkRetry, rows
    <3> QED
      BY <2>1, <2>2, <3>1
  <2> QED
    BY <2>1, <2>3
<1>3. UNCHANGED <<history, cache, learning, learned, log, expired, restarts, settled, downvoted>>
  BY DEF detectAndMarkRetry
<1> QED
  BY <1>1, <1>2, <1>3 DEF CacheInv, TypeOK, cache

\* The reply: what of it enters the history is cut to the limit.
LEMMA ReplyStep ==
    ASSUME CacheInv, NEW t \in Turns, chatAgentReply(t)
    PROVE  CacheInv'
<1>1. PICK result \in {"success", "error", "no_op"} :
        /\ Goes(t, [turn[t] EXCEPT !.pc = result])
        /\ \/ UNCHANGED history
           \/ result = "success" /\ Append2(t)
  BY DEF chatAgentReply
<1>2. turn[t].pc = "reply" /\ UNCHANGED <<cache, learning, marking, learned, log, expired,
                                         restarts, settled, downvoted>>
  BY DEF chatAgentReply, At
<1>3. /\ turn' \in [Turns -> Turn]
      /\ \A u \in Turns : writer' = u <=> turn'[u].pc \in {"query", "store"}
      /\ Refreshed' /\ CorrectionsReachTurns'
  BY <1>1, <1>2, MovesTyped
<1> DEFINE Msg == {"user", "assistant"} \X Turns
           s   == turn[t].session
<1>4. /\ history' \in [Sessions -> Seq(Msg)]
      /\ \A u \in Sessions : Len(history'[u]) <= HistoryLimit
  <2>1. history \in [Sessions -> Seq(Msg)] /\ \A u \in Sessions : Len(history[u]) <= HistoryLimit
    BY DEF CacheInv, TypeOK
  <2>2. CASE UNCHANGED history
    BY <2>1, <2>2
  <2>3. CASE Append2(t) /\ history' # history
    <3> DEFINE h == history[s] \o <<<<"user", t>>, <<"assistant", t>>>>
    <3>1. s \in Sessions
      BY <2>3 DEF CacheInv, TypeOK, Turn, Append2
    <3>2. <<<<"user", t>>, <<"assistant", t>>>> \in Seq(Msg)
      OBVIOUS
    <3>3. h \in Seq(Msg)
      BY <2>1, <3>1, <3>2, ConcatProperties
    <3>4. Trimmed(h) \in Seq(Msg) /\ Len(Trimmed(h)) <= HistoryLimit
      <4> HIDE DEF h, Msg
      <4> QED
        BY <3>3, TrimmedIsShort
    <3>5. history' = [history EXCEPT ![s] = Trimmed(h)]
      BY <2>3, <3>1 DEF Append2
    <3> QED
      BY <2>1, <3>1, <3>4, <3>5
  <2> QED
    BY <1>1, <2>2, <2>3
<1>5. TypeOK'
  BY <1>2, <1>3, <1>4 DEF CacheInv, TypeOK, cache
<1> QED
  BY <1>3, <1>5 DEF CacheInv

LEMMA PersistStep ==
    ASSUME CacheInv, NEW t \in Turns, persistChatTurn(t)
    PROVE  CacheInv'
<1>1. /\ turn[t].pc \in {"success", "error", "no_op"} /\ Goes(t, [turn[t] EXCEPT !.pc = "done"])
      /\ UNCHANGED <<history, cache, learning, marking, learned, expired, restarts, settled,
                     downvoted>>
  BY DEF persistChatTurn
<1>2. /\ turn' \in [Turns -> Turn]
      /\ \A u \in Turns : writer' = u <=> turn'[u].pc \in {"query", "store"}
      /\ Refreshed' /\ CorrectionsReachTurns'
  BY <1>1, MovesTyped
<1>3. CASE UNCHANGED log
  BY <1>1, <1>2, <1>3 DEF CacheInv, TypeOK, cache
<1>4. CASE log' # log
  <2> DEFINE row == [turn |-> t, session |-> turn[t].session, said |-> turn[t].said,
                     result |-> turn[t].pc]
  <2>1. log' = Append(log, row) /\ turn[t].session # None
    BY <1>4 DEF persistChatTurn
  <2>2. row \in Row /\ log \in Seq(Row)
    BY <1>1, <2>1 DEF CacheInv, TypeOK, Turn, Row, Results
  <2>3. log' \in Seq(Row) /\ Len(log') = Len(log) + 1 /\ Len(log) \in Nat
    BY <2>1, <2>2
  <2>4. DOMAIN log = 1..Len(log) /\ DOMAIN log' = 1..Len(log')
    BY <2>2, <2>3
  <2>5. /\ marking' \in [Turns -> 0..Len(log')] /\ expired' \in 0..Len(log')
        /\ downvoted' \subseteq DOMAIN log'
    BY <1>1, <2>3, <2>4 DEF CacheInv, TypeOK
  <2>6. TypeOK'
    BY <1>1, <1>2, <2>3, <2>5 DEF CacheInv, TypeOK, cache
  <2> QED
    BY <1>2, <2>6 DEF CacheInv
<1> QED
  BY <1>2, <1>3, <1>4 DEF CacheInv

\* A row that gets its result anew stays in its place.
LEMMA WrongRouteTyped ==
    ASSUME TypeOK, NEW i \in DOMAIN log, WrongRoute(i) \/ UNCHANGED log
    PROVE  log' \in Seq(Row) /\ Len(log') = Len(log) /\ DOMAIN log' = DOMAIN log
<1>1. log \in Seq(Row) /\ log[i] \in Row
  BY DEF TypeOK
<1>2. CASE WrongRoute(i)
  <2>1. [log[i] EXCEPT !.result = "wrong_route"] \in Row
    BY <1>1 DEF Row, Results
  <2>2. log' = [log EXCEPT ![i] = [log[i] EXCEPT !.result = "wrong_route"]]
    BY <1>2 DEF WrongRoute
  <2> QED
    BY <1>1, <2>1, <2>2
<1> QED
  BY <1>1, <1>2

LEMMA MarkStep ==
    ASSUME CacheInv, NEW t \in Turns, Mark(t)
    PROVE  CacheInv'
<1>1. /\ marking' = [marking EXCEPT ![t] = 0]
      /\ UNCHANGED <<turn, history, cache, learning, learned, expired, restarts, settled,
                     downvoted>>
  BY DEF Mark
<1>2. marking[t] \in DOMAIN log
  BY DEF CacheInv, TypeOK, Mark
<1>3. log' \in Seq(Row) /\ Len(log') = Len(log) /\ DOMAIN log' = DOMAIN log
  BY <1>2, WrongRouteTyped DEF CacheInv, Mark
<1>4. Len(log) \in Nat
  BY DEF CacheInv, TypeOK
<1>5. marking' \in [Turns -> 0..Len(log')]
  BY <1>1, <1>3, <1>4 DEF CacheInv, TypeOK
<1>6. TypeOK'
  BY <1>1, <1>3, <1>5 DEF CacheInv, TypeOK, cache
<1>7. Refreshed' /\ CorrectionsReachTurns'
  BY <1>1 DEF CacheInv, Refreshed, CorrectionsReachTurns, cache
<1> QED
  BY <1>6, <1>7 DEF CacheInv

LEMMA FeedbackStep == CacheInv /\ handleChatFeedback => CacheInv'
<1> SUFFICES ASSUME CacheInv, handleChatFeedback PROVE CacheInv'
  OBVIOUS
<1>1. UNCHANGED <<turn, history, cache, learning, marking, learned, expired, restarts, settled>>
  BY DEF handleChatFeedback
<1>2. PICK i \in DOMAIN log : downvoted' = downvoted \cup {i} /\ (WrongRoute(i) \/ UNCHANGED log)
  BY DEF handleChatFeedback
<1>3. log' \in Seq(Row) /\ Len(log') = Len(log) /\ DOMAIN log' = DOMAIN log
  BY <1>2, WrongRouteTyped DEF CacheInv
<1>4. TypeOK'
  BY <1>1, <1>2, <1>3 DEF CacheInv, TypeOK, cache
<1>5. Refreshed' /\ CorrectionsReachTurns'
  BY <1>1 DEF CacheInv, Refreshed, CorrectionsReachTurns, cache
<1> QED
  BY <1>4, <1>5 DEF CacheInv

\* Time passes, for the cache or for the log.
LEMMA TimeStep == CacheInv /\ (Expire \/ Minute) => CacheInv'
<1> SUFFICES ASSUME CacheInv, Expire \/ Minute PROVE CacheInv'
  OBVIOUS
<1>1. CASE Expire
  BY <1>1 DEF Expire, CacheInv, TypeOK, Refreshed, CorrectionsReachTurns
<1>2. CASE Minute
  <2>1. Len(log) \in Nat /\ expired' \in 0..Len(log)
    BY <1>2 DEF Minute, CacheInv, TypeOK
  <2>2. TypeOK'
    BY <1>2, <2>1 DEF Minute, CacheInv, TypeOK, cache
  <2>3. Refreshed' /\ CorrectionsReachTurns'
    BY <1>2 DEF Minute, CacheInv, Refreshed, CorrectionsReachTurns, cache
  <2> QED
    BY <2>2, <2>3 DEF CacheInv
<1> QED
  BY <1>1, <1>2

LEMMA RestartStep == CacheInv /\ Restart => CacheInv'
<1> SUFFICES ASSUME CacheInv, Restart PROVE CacheInv'
  OBVIOUS
<1> DEFINE Down(t) == IF At(t, "idle") THEN Idle
                      ELSE [turn[t] EXCEPT !.pc = "done", !.stt = None, !.loaded = NoMap]
<1>1. turn' = [t \in Turns |-> Down(t)]
  BY DEF Restart
<1>2. ASSUME NEW t \in Turns
      PROVE  Down(t) \in Turn /\ Down(t).pc \in {"idle", "done"} /\ Down(t).loaded = NoMap
  <2>1. turn[t] \in Turn
    BY DEF CacheInv, TypeOK
  <2>2. Idle \in Turn /\ Idle.pc = "idle" /\ Idle.loaded = NoMap
    BY NoMapIsMap DEF Idle, Turn, Text
  <2>3. [turn[t] EXCEPT !.pc = "done", !.stt = None, !.loaded = NoMap] \in Turn
    BY <2>1, NoMapIsMap DEF Turn, Text
  <2> QED
    BY <2>1, <2>2, <2>3 DEF Turn
<1>3. /\ turn' \in [Turns -> Turn]
      /\ \A t \in Turns : turn'[t].pc \in {"idle", "done"} /\ turn'[t].loaded = NoMap
  BY <1>1, <1>2
<1>4. learning' \in [Turns -> [steps : Steps, pair : Text \X Text]]
  BY DEF Restart, NoJob, Steps, Text
<1>5. marking' \in [Turns -> 0..Len(log)]
  <2>1. Len(log) \in Nat
    BY DEF CacheInv, TypeOK
  <2>2. marking' = [t \in Turns |-> 0]
    BY DEF Restart
  <2>3. 0 \in 0..Len(log)
    BY <2>1
  <2> QED
    BY <2>2, <2>3
<1>6. /\ history' \in [Sessions -> Seq({"user", "assistant"} \X Turns)]
      /\ \A s \in Sessions : Len(history'[s]) <= HistoryLimit
  <2>1. history' = [s \in Sessions |-> <<>>]
    BY DEF Restart
  <2>2. HistoryLimit \in Nat /\ <<>> \in Seq({"user", "assistant"} \X Turns)
    BY ChatAssumption
  <2> QED
    BY <2>1, <2>2
<1>7. restarts' \in 0..Restarts
  <2>1. restarts \in 0..Restarts /\ Restarts \in Nat
    BY ChatAssumption DEF CacheInv, TypeOK
  <2>2. restarts < Restarts /\ restarts' = restarts + 1
    BY DEF Restart
  <2> QED
    BY <2>1, <2>2
<1>8. writer' = None /\ corrections' = NoMap /\ fresh' = FALSE
      /\ UNCHANGED <<learned, log, expired, settled, downvoted>>
  BY DEF Restart
<1>9. \A t \in Turns : writer' = t <=> turn'[t].pc \in {"query", "store"}
  BY <1>3, <1>8, ChatAssumption
<1>10. TypeOK'
  BY <1>3, <1>4, <1>5, <1>6, <1>7, <1>8, <1>9, NoMapIsMap DEF CacheInv, TypeOK
<1>11. Refreshed' /\ CorrectionsReachTurns'
  BY <1>3, <1>8, NoMapIsMap DEF Refreshed, CorrectionsReachTurns
<1> QED
  BY <1>10, <1>11 DEF CacheInv

-----------------------------------------------------------------------------
LEMMA CacheNext == CacheInv /\ [Next]_vars => CacheInv'
<1> SUFFICES ASSUME CacheInv, [Next]_vars PROVE CacheInv'
  OBVIOUS
<1>1. ASSUME NEW t \in Turns, handleChatPost(t) PROVE CacheInv'
  BY <1>1, ReceiveStep, UseCacheStep, LockStep, QueryStep, StoreStep, RetryStep, ReplyStep,
     PersistStep DEF handleChatPost, getVoiceCorrections
<1>2. ASSUME NEW t \in Turns, Learn(t) \/ Mark(t) PROVE CacheInv'
  BY <1>2, LearnStep, MarkStep
<1>3. CASE handleChatFeedback
  BY <1>3, FeedbackStep
<1>4. CASE Expire \/ Minute
  BY <1>4, TimeStep
<1>5. CASE Restart
  BY <1>5, RestartStep
<1>6. CASE UNCHANGED vars
  <2>1. TypeOK'
    BY <1>6 DEF vars, cache, CacheInv, TypeOK
  <2>2. Refreshed' /\ CorrectionsReachTurns'
    BY <1>6 DEF vars, cache, CacheInv, Refreshed, CorrectionsReachTurns
  <2> QED
    BY <2>1, <2>2 DEF CacheInv
<1> QED
  BY <1>1, <1>2, <1>3, <1>4, <1>5, <1>6 DEF Next

LEMMA SpecCacheInv == Spec => []CacheInv
BY CacheInit, CacheNext, PTL DEF Spec

\* Every reachable state of the chat is well formed: in particular no history
\* is longer than its limit and only the holder of the lock refreshes the cache.
THEOREM TypeCorrect == Spec => []TypeOK
<1>1. CacheInv => TypeOK
  BY DEF CacheInv
<1> QED
  BY <1>1, SpecCacheInv, PTL

\* A cache that counts as fresh has a correction for every heard text of which
\* the goroutine of a correction is through, and only learned ones, for any
\* number of turns that refresh it and goroutines that drop it.
THEOREM CorrectionsReach == Spec => []CorrectionsReachTurns
<1>1. CacheInv => CorrectionsReachTurns
  BY DEF CacheInv
<1> QED
  BY <1>1, SpecCacheInv, PTL

-----------------------------------------------------------------------------
(* Histories.                                                              *)

\* What the history keeps of a message: who spoke, in which turn.
Message == {"user", "assistant"} \X Turns

\* Whole turns; that the length is even makes it inductive.
Whole(h) ==
    /\ Len(h) % 2 = 0
    /\ \A i \in DOMAIN h : IF i % 2 = 1 THEN h[i][1] = "user"
                           ELSE h[i] = <<"assistant", h[i - 1][2]>>

\* One more turn.
LEMMA WholeAppended ==
    ASSUME NEW h \in Seq(Message), Whole(h), NEW t \in Turns
    PROVE  Whole(h \o <<<<"user", t>>, <<"assistant", t>>>>)
<1> DEFINE p == <<<<"user", t>>, <<"assistant", t>>>>
           n == Len(h)
           g == h \o p
<1>1. n \in Nat /\ n % 2 = 0 /\ DOMAIN h = 1..n
  BY DEF Whole
<1>2. p \in Seq(Message) /\ Len(p) = 2
  BY DEF Message
<1>3. Len(g) = n + 2 /\ DOMAIN g = 1..(n + 2)
  BY <1>1, <1>2
<1>4. /\ \A i \in 1..n : g[i] = h[i]
      /\ g[n + 1] = <<"user", t>> /\ g[n + 2] = <<"assistant", t>>
  BY <1>1, <1>2
<1>5. ASSUME NEW i \in 1..(n + 2)
      PROVE  IF i % 2 = 1 THEN g[i][1] = "user" ELSE g[i] = <<"assistant", g[i - 1][2]>>
  <2> HIDE DEF g
  <2>1. CASE i \in 1..n
    <3>1. i % 2 # 1 => i - 1 \in 1..n
      BY <1>1, <2>1
    <3> QED
      BY <1>1, <1>4, <2>1, <3>1 DEF Whole
  <2>2. CASE i = n + 1
    <3>1. i % 2 = 1
      BY <1>1, <2>2
    <3> QED
      BY <1>4, <2>2, <3>1
  <2>3. CASE i = n + 2
    <3>1. i % 2 # 1 /\ i - 1 = n + 1
      BY <1>1, <2>3
    <3> QED
      BY <1>4, <2>3, <3>1
  <2> QED
    BY <1>1, <2>1, <2>2, <2>3
<1>6. Len(g) % 2 = 0
  BY <1>1, <1>3
<1> HIDE DEF g
<1>7. Whole(g)
  BY <1>3, <1>5, <1>6 DEF Whole
<1> QED
  BY <1>7 DEF g

\* The cut takes whole turns, as the limit is even.
LEMMA TrimmedIsWhole ==
    ASSUME NEW h \in Seq(Message), Whole(h)
    PROVE  Whole(Trimmed(h))
<1>1. HistoryLimit \in Nat /\ HistoryLimit % 2 = 0
  BY ChatAssumption
<1>2. CASE Len(h) <= HistoryLimit
  BY <1>1, <1>2 DEF Trimmed
<1>3. CASE Len(h) > HistoryLimit
  <2> DEFINE d == Len(h) - HistoryLimit
             g == SubSeq(h, d + 1, Len(h))
  <2>1. Len(h) \in Nat /\ d \in Nat /\ d % 2 = 0 /\ DOMAIN h = 1..Len(h)
    <3>1. Len(h) % 2 = 0
      BY DEF Whole
    <3>2. Len(h) \in Nat /\ DOMAIN h = 1..Len(h)
      OBVIOUS
    <3>3. d \in Nat
      BY <1>1, <1>3, <3>2
    <3> DEFINE n == Len(h)
    <3> HIDE DEF n
    <3>4. (n - HistoryLimit) % 2 = 0
      BY <1>1, <3>1, <3>2 DEF n
    <3> QED
      BY <3>2, <3>3, <3>4 DEF n
  <2>2. /\ Len(g) = HistoryLimit /\ DOMAIN g = 1..HistoryLimit
        /\ \A i \in 1..HistoryLimit : g[i] = h[i + d]
    BY <1>1, <2>1
  <2>3. Trimmed(h) = g
    BY <1>3 DEF Trimmed
  <2>4. ASSUME NEW i \in 1..HistoryLimit
        PROVE  IF i % 2 = 1 THEN g[i][1] = "user" ELSE g[i] = <<"assistant", g[i - 1][2]>>
    <3>1. i + d \in DOMAIN h /\ (i + d) % 2 = i % 2
      BY <1>1, <2>1
    <3>2. i % 2 # 1 => i - 1 \in 1..HistoryLimit /\ (i - 1) + d = (i + d) - 1
      BY <1>1, <2>1
    <3> HIDE DEF g, d
    <3> QED
      BY <2>2, <3>1, <3>2 DEF Whole
  <2> HIDE DEF g, d
  <2>5. Whole(g)
    BY <1>1, <2>2, <2>4 DEF Whole
  <2> QED
    BY <2>3, <2>5
<1> QED
  BY <1>1, <1>2, <1>3

HistoryInv == TypeOK /\ \A s \in Sessions : Whole(history[s])

LEMMA HistoryNext == CacheInv /\ HistoryInv /\ [Next]_vars => HistoryInv'
<1> SUFFICES ASSUME CacheInv, HistoryInv, [Next]_vars PROVE HistoryInv'
  OBVIOUS
<1>1. TypeOK'
  BY CacheNext DEF CacheInv
<1>2. CASE UNCHANGED history
  BY <1>1, <1>2 DEF HistoryInv
<1>3. CASE \E t \in Turns : Append2(t) /\ history' # history
  <2>1. PICK t \in Turns : Append2(t) /\ history' # history
    BY <1>3
  <2> DEFINE s == turn[t].session
             h == history[s] \o <<<<"user", t>>, <<"assistant", t>>>>
  <2>2. s \in Sessions /\ history \in [Sessions -> Seq(Message)]
    BY <2>1 DEF HistoryInv, TypeOK, Turn, Append2, Message
  <2>3. history' = [history EXCEPT ![s] = Trimmed(h)]
    BY <2>1 DEF Append2
  <2>4. h \in Seq(Message)
    <3>1. <<<<"user", t>>, <<"assistant", t>>>> \in Seq(Message)
      BY DEF Message
    <3> QED
      BY <2>2, <3>1, ConcatProperties
  <2>5. Whole(h)
    BY <2>2, WholeAppended DEF HistoryInv
  <2>6. Whole(Trimmed(h))
    <3> HIDE DEF h
    <3> QED
      BY <2>4, <2>5, TrimmedIsWhole
  <2> QED
    BY <1>1, <2>2, <2>3, <2>6 DEF HistoryInv
<1>4. CASE Restart
  <2>1. history' = [s \in Sessions |-> <<>>]
    BY <1>4 DEF Restart
  <2>2. Whole(<<>>)
    BY DEF Whole
  <2> QED
    BY <1>1, <2>1, <2>2 DEF HistoryInv
<1>5. \/ UNCHANGED history
      \/ \E t \in Turns : Append2(t) /\ history' # history
      \/ Restart
  <2>1. ASSUME NEW t \in Turns, getVoiceCorrections(t) PROVE UNCHANGED history
    BY <2>1 DEF getVoiceCorrections, UseCache, Lock, Query, Store, Corrects
  <2>2. ASSUME NEW t \in Turns, handleChatPost(t)
        PROVE  UNCHANGED history \/ (Append2(t) /\ history' # history)
    BY <2>1, <2>2 DEF handleChatPost, Receive, detectAndMarkRetry, chatAgentReply, persistChatTurn
  <2>3. ASSUME NEW t \in Turns, Learn(t) \/ Mark(t) PROVE UNCHANGED history
    BY <2>3 DEF Learn, Mark
  <2>4. handleChatFeedback \/ Expire \/ Minute \/ UNCHANGED vars => UNCHANGED history
    BY DEF handleChatFeedback, Expire, Minute, vars
  <2> QED
    BY <2>2, <2>3, <2>4 DEF Next
<1> QED
  BY <1>2, <1>3, <1>4, <1>5

\* A session's history consists of whole turns, question before answer, for any
\* even limit and however many turns of the session run at a time.
THEOREM WholeTurns == Spec => []HistoryOfWholeTurns
<1>1. Init => HistoryInv
  <2> SUFFICES ASSUME Init PROVE HistoryInv
    OBVIOUS
  <2>1. TypeOK
    BY CacheInit DEF CacheInv
  <2>2. \A s \in Sessions : history[s] = <<>>
    BY DEF Init
  <2>3. Whole(<<>>)
    BY DEF Whole
  <2> QED
    BY <2>1, <2>2, <2>3 DEF HistoryInv
<1>2. HistoryInv => HistoryOfWholeTurns
  <2> SUFFICES ASSUME HistoryInv, NEW s \in Sessions, NEW i \in DOMAIN history[s]
               PROVE  IF i % 2 = 1 THEN history[s][i][1] = "user" /\ i < Len(history[s])
                      ELSE history[s][i] = <<"assistant", history[s][i - 1][2]>>
    BY DEF HistoryOfWholeTurns
  <2>1. Whole(history[s]) /\ history[s] \in Seq(Message)
    BY DEF HistoryInv, TypeOK, Message
  <2> DEFINE h == history[s]
  <2>2. i \in 1..Len(h) /\ Len(h) \in Nat
    BY <2>1
  <2>3. i % 2 = 1 => i < Len(h)
    <3>1. Len(h) % 2 = 0
      BY <2>1 DEF Whole
    <3> DEFINE n == Len(h)
    <3>2. n \in Nat /\ i \in 1..n /\ n % 2 = 0
      BY <2>2, <3>1
    <3> HIDE DEF n
    <3>3. i % 2 = 1 => i < n
      <4>1. SUFFICES ASSUME i % 2 = 1, i >= n PROVE FALSE
        BY <3>2
      <4>2. i = n
        BY <3>2, <4>1
      <4> QED
        BY <3>2, <4>1, <4>2
    <3> QED
      BY <3>3 DEF n
  <2> QED
    BY <2>1, <2>3 DEF Whole
<1> QED
  BY <1>1, <1>2, HistoryNext, SpecCacheInv, PTL DEF Spec

-----------------------------------------------------------------------------
(* Marks.                                                                  *)

\* A turn that looked for a retry; it changes neither its session nor its text.
Looked == {"reply", "success", "error", "no_op", "done"}

\* Turn t went on, in the session of row i, with a similar message.
Repeats(t, i) ==
    /\ turn[t].pc \in Looked /\ t # log[i].turn
    /\ turn[t].session = log[i].session /\ <<turn[t].said, log[i].said>> \in Similar
    /\ \A j \in DOMAIN log : log[j].turn = t => j > i

LoggedIsDone == \A i \in DOMAIN log : turn[log[i].turn].pc = "done"

MarkInv ==
    /\ LoggedIsDone
    /\ \A t \in Turns : marking[t] # 0 => Repeats(t, marking[t])
    /\ \A i \in DOMAIN log \ downvoted :
         log[i].result = "wrong_route" => \E t \in Turns : Repeats(t, i)

\* What every step keeps of the turns and of the log.
TurnsGoOn ==
    \A t \in Turns :
        /\ turn[t].pc \in Looked => /\ turn'[t].pc \in Looked
                                    /\ turn'[t].session = turn[t].session
                                    /\ turn'[t].said = turn[t].said
        /\ turn[t].pc = "done" => turn'[t].pc = "done"

RowsStay ==
    /\ DOMAIN log \subseteq DOMAIN log'
    /\ \A i \in DOMAIN log : /\ log'[i].turn = log[i].turn
                             /\ log'[i].session = log[i].session
                             /\ log'[i].said = log[i].said

RowsAreNewer ==
    \A j \in DOMAIN log' \ DOMAIN log :
        /\ \A i \in DOMAIN log : j > i
        /\ turn'[log'[j].turn].pc = "done" /\ log'[j].result # "wrong_route"

LEMMA RepeatsLasts ==
    ASSUME TurnsGoOn, RowsStay, RowsAreNewer, NEW t \in Turns, NEW i \in DOMAIN log, Repeats(t, i)
    PROVE  Repeats(t, i)'
<1>1. /\ turn'[t].pc \in Looked /\ t # log'[i].turn
      /\ turn'[t].session = log'[i].session /\ <<turn'[t].said, log'[i].said>> \in Similar
  BY DEF TurnsGoOn, RowsStay, Repeats
<1>2. \A j \in DOMAIN log' : log'[j].turn = t => j > i
  BY DEF RowsStay, RowsAreNewer, Repeats
<1> QED
  BY <1>1, <1>2 DEF Repeats

LEMMA LoggedStays ==
    ASSUME TypeOK, TurnsGoOn, RowsStay, RowsAreNewer, LoggedIsDone
    PROVE  LoggedIsDone'
<1> SUFFICES ASSUME NEW i \in DOMAIN log' PROVE turn'[log'[i].turn].pc = "done"
  BY DEF LoggedIsDone
<1>1. CASE i \in DOMAIN log
  <2>1. log \in Seq(Row)
    BY DEF TypeOK
  <2>2. log[i] \in Row
    BY <1>1, <2>1
  <2>3. log[i].turn \in Turns
    BY <2>2 DEF Row
  <2> QED
    BY <1>1, <2>3 DEF TurnsGoOn, RowsStay, LoggedIsDone
<1>2. CASE i \notin DOMAIN log
  BY <1>2 DEF RowsAreNewer
<1> QED
  BY <1>1, <1>2

\* A turn that has not looked yet, or that goes on with what it looked with.
LEMMA OneGoesOn ==
    ASSUME TypeOK, NEW t \in Turns, NEW v, Goes(t, v),
           \/ turn[t].pc \notin Looked
           \/ /\ turn[t].pc # "done" /\ v.pc \in Looked
              /\ v.session = turn[t].session /\ v.said = turn[t].said
    PROVE  TurnsGoOn /\ turn'[t] = v /\ \A u \in Turns \ {t} : turn'[u] = turn[u]
<1>1. turn'[t] = v /\ \A u \in Turns \ {t} : turn'[u] = turn[u]
  BY DEF TypeOK, Goes
<1>2. "done" \in Looked
  BY DEF Looked
<1> QED
  BY <1>1, <1>2 DEF TurnsGoOn

LEMMA LogUntouched ==
    ASSUME UNCHANGED log
    PROVE  RowsStay /\ RowsAreNewer
BY DEF RowsStay, RowsAreNewer

\* A row that gets its result anew is the row it was.
LEMMA RowMarked ==
    ASSUME TypeOK, NEW i \in DOMAIN log, WrongRoute(i) \/ UNCHANGED log
    PROVE  /\ RowsStay /\ RowsAreNewer
           /\ \A j \in DOMAIN log' : j # i => log'[j] = log[j]
<1>1. log \in Seq(Row) /\ log[i] \in Row
  BY DEF TypeOK
<1>2. CASE WrongRoute(i)
  <2>1. log' = [log EXCEPT ![i] = [log[i] EXCEPT !.result = "wrong_route"]]
    BY <1>2 DEF WrongRoute
  <2>2. DOMAIN log' = DOMAIN log
    BY <2>1
  <2>3. \A j \in DOMAIN log : j # i => log'[j] = log[j]
    BY <2>1
  <2>4. /\ log'[i].turn = log[i].turn /\ log'[i].session = log[i].session
        /\ log'[i].said = log[i].said
    BY <1>1, <2>1 DEF Row
  <2> QED
    BY <2>2, <2>3, <2>4 DEF RowsStay, RowsAreNewer
<1>3. CASE UNCHANGED log
  BY <1>3, LogUntouched
<1> QED
  BY <1>2, <1>3

LEMMA TurnsUntouched ==
    ASSUME UNCHANGED turn
    PROVE  TurnsGoOn
BY DEF TurnsGoOn

\* The steps up to the look for a retry.
LEMMA EarlyGoesOn ==
    ASSUME TypeOK, NEW t \in Turns, Receive(t) \/ getVoiceCorrections(t)
    PROVE  TurnsGoOn /\ UNCHANGED <<log, marking, downvoted>>
<1>1. turn[t].pc \notin Looked
  BY DEF Receive, getVoiceCorrections, UseCache, Lock, Query, Store, At, Looked
<1>2. \E v : Goes(t, v)
  BY DEF Receive, getVoiceCorrections, UseCache, Lock, Query, Store, Corrects
<1>3. UNCHANGED <<log, marking, downvoted>>
  BY DEF Receive, getVoiceCorrections, UseCache, Lock, Query, Store, Corrects
<1> QED
  BY <1>1, <1>2, <1>3, OneGoesOn

\* The look itself: who is marked has been repeated.
LEMMA LookMarks ==
    ASSUME TypeOK, LoggedIsDone, NEW t \in Turns, detectAndMarkRetry(t)
    PROVE  /\ TurnsGoOn /\ UNCHANGED <<log, downvoted>>
           /\ \A u \in Turns \ {t} : marking'[u] = marking[u]
           /\ marking'[t] # 0 => Repeats(t, marking[t])'
<1> DEFINE v    == turn[t]
           rows == Recent(v.session)
<1>1. v \in Turn /\ v.pc = "retry" /\ log \in Seq(Row)
  BY DEF TypeOK, detectAndMarkRetry, At
<1>2. Goes(t, [v EXCEPT !.pc = "reply"]) /\ UNCHANGED <<log, downvoted>>
  BY DEF detectAndMarkRetry
<1>3. TurnsGoOn /\ turn'[t] = [v EXCEPT !.pc = "reply"]
  <2>1. v.pc \notin Looked
    BY <1>1 DEF Looked
  <2> QED
    BY <1>2, <2>1, OneGoesOn
<1>4. turn'[t].pc = "reply" /\ turn'[t].session = v.session /\ turn'[t].said = v.said
  BY <1>1, <1>3 DEF Turn
<1>5. \A u \in Turns \ {t} : marking'[u] = marking[u]
  BY DEF TypeOK, detectAndMarkRetry
<1>6. ASSUME marking'[t] # 0
      PROVE  Repeats(t, marking[t])'
  <2>1. marking'[t] = Newest(rows) /\ rows # {} /\ <<v.said, log[Newest(rows)].said>> \in Similar
    BY <1>6 DEF TypeOK, detectAndMarkRetry, DetectRetrySignal
  <2>2. rows \subseteq 1..Len(log) /\ Len(log) \in Nat
    BY <1>1 DEF Recent
  <2>3. Newest(rows) \in rows
    <3> HIDE DEF rows
    <3> QED
      BY <2>1, <2>2, NewestIsNewest
  <2>4. PICK i \in rows : marking'[t] = i /\ <<v.said, log[i].said>> \in Similar
    BY <2>1, <2>3
  <2>5. i \in DOMAIN log /\ log[i].session = v.session
    BY <2>4 DEF Recent
  <2>6. \A j \in DOMAIN log : log[j].turn # t
    BY <1>1 DEF LoggedIsDone
  <2>7. \A j \in DOMAIN log' : log'[j].turn # t
    BY <1>2, <2>6
  <2>8. /\ turn'[t].pc \in Looked /\ t # log'[i].turn
        /\ turn'[t].session = log'[i].session /\ <<turn'[t].said, log'[i].said>> \in Similar
    BY <1>2, <1>4, <2>4, <2>5, <2>6 DEF Looked
  <2> HIDE DEF rows, v
  <2> QED
    BY <2>4, <2>7, <2>8 DEF Repeats
<1> QED
  BY <1>2, <1>3, <1>5, <1>6

\* The reply, and the row it leaves.
LEMMA LateGoesOn ==
    ASSUME TypeOK, NEW t \in Turns, chatAgentReply(t) \/ persistChatTurn(t)
    PROVE  /\ TurnsGoOn /\ RowsStay /\ RowsAreNewer /\ UNCHANGED <<marking, downvoted>>
           /\ \A j \in DOMAIN log : log'[j] = log[j]
<1>1. turn[t] \in Turn /\ log \in Seq(Row)
  BY DEF TypeOK
<1>2. CASE chatAgentReply(t)
  <2>1. PICK l \in {"success", "error", "no_op"} : Goes(t, [turn[t] EXCEPT !.pc = l])
    BY <1>2 DEF chatAgentReply
  <2>2. turn[t].pc = "reply" /\ UNCHANGED <<log, marking, downvoted>>
    BY <1>2 DEF chatAgentReply, At
  <2> DEFINE v == [turn[t] EXCEPT !.pc = l]
  <2>3. v.pc \in Looked /\ v.session = turn[t].session /\ v.said = turn[t].said
    BY <1>1 DEF Turn, Looked
  <2>4. TurnsGoOn
    BY <2>1, <2>2, <2>3, OneGoesOn
  <2> QED
    BY <2>2, <2>4, LogUntouched
<1>3. CASE persistChatTurn(t)
  <2> DEFINE v == [turn[t] EXCEPT !.pc = "done"]
             row == [turn |-> t, session |-> turn[t].session, said |-> turn[t].said,
                     result |-> turn[t].pc]
  <2>1. /\ turn[t].pc \in {"success", "error", "no_op"} /\ Goes(t, v)
        /\ UNCHANGED <<marking, downvoted>> /\ (UNCHANGED log \/ log' = Append(log, row))
    BY <1>3 DEF persistChatTurn
  <2>2. v.pc = "done" /\ v.pc \in Looked /\ v.session = turn[t].session /\ v.said = turn[t].said
    BY <1>1 DEF Turn, Looked
  <2>3. TurnsGoOn /\ turn'[t] = v
    BY <2>1, <2>2, OneGoesOn
  <2>4. CASE UNCHANGED log
    BY <2>1, <2>3, <2>4, LogUntouched
  <2>5. CASE log' = Append(log, row)
    <3> DEFINE n == Len(log)
    <3>1. n \in Nat /\ DOMAIN log = 1..n /\ DOMAIN log' = 1..(n + 1)
      BY <1>1, <2>5
    <3>2. log'[n + 1] = row /\ \A j \in 1..n : log'[j] = log[j]
      BY <1>1, <2>5
    <3> HIDE DEF n
    <3>3. row.turn = t /\ row.result = turn[t].pc
      OBVIOUS
    <3>4. \A j \in DOMAIN log' \ DOMAIN log : j = n + 1 /\ \A i \in DOMAIN log : j > i
      BY <3>1
    <3>5. turn'[log'[n + 1].turn].pc = "done" /\ log'[n + 1].result # "wrong_route"
      <4>1. log'[n + 1].turn = t /\ log'[n + 1].result = turn[t].pc
        BY <3>2, <3>3
      <4>2. turn'[t].pc = "done" /\ turn[t].pc # "wrong_route"
        BY <2>1, <2>2, <2>3
      <4> QED
        BY <4>1, <4>2
    <3>6. RowsAreNewer
      BY <3>4, <3>5 DEF RowsAreNewer
    <3>7. RowsStay
      BY <3>1, <3>2 DEF RowsStay
    <3> QED
      BY <2>1, <2>3, <3>1, <3>2, <3>6, <3>7
  <2> QED
    BY <2>1, <2>4, <2>5
<1> QED
  BY <1>2, <1>3

LEMMA RestartGoesOn ==
    ASSUME TypeOK, Restart
    PROVE  /\ TurnsGoOn /\ UNCHANGED <<log, downvoted>>
           /\ \A t \in Turns : marking'[t] = 0
<1>1. UNCHANGED <<log, downvoted>> /\ \A t \in Turns : marking'[t] = 0
  BY DEF Restart
<1>2. ASSUME NEW t \in Turns, turn[t].pc \in Looked
      PROVE  turn'[t].pc = "done" /\ turn'[t].session = turn[t].session
             /\ turn'[t].said = turn[t].said
  <2>1. turn[t] \in Turn /\ turn[t].pc # "idle"
    BY <1>2 DEF TypeOK, Looked
  <2>2. turn'[t] = [turn[t] EXCEPT !.pc = "done", !.stt = None, !.loaded = NoMap]
    BY <2>1 DEF Restart, At
  <2> QED
    BY <2>1, <2>2 DEF Turn
<1> QED
  BY <1>1, <1>2 DEF TurnsGoOn, Looked

\* Marks, old and new, stand.
LEMMA MarksStand ==
    ASSUME TypeOK, MarkInv, TurnsGoOn, RowsStay, RowsAreNewer,
           \A t \in Turns : \/ marking'[t] \in {0, marking[t]}
                            \/ marking'[t] # 0 => Repeats(t, marking[t])',
           downvoted \subseteq downvoted',
           \A i \in DOMAIN log \ downvoted' :
             \/ log'[i].result = log[i].result
             \/ \E t \in Turns : marking[t] = i
    PROVE  MarkInv'
<1>1. LoggedIsDone'
  BY LoggedStays DEF MarkInv
<1>2. ASSUME NEW t \in Turns, marking'[t] # 0
      PROVE  Repeats(t, marking[t])'
  <2>1. CASE marking'[t] = marking[t]
    <3>1. PICK i \in DOMAIN log : i = marking[t]
      BY <1>2, <2>1 DEF TypeOK
    <3>2. Repeats(t, i)
      BY <1>2, <2>1, <3>1 DEF MarkInv
    <3>3. Repeats(t, i)'
      BY <3>2, RepeatsLasts
    <3> QED
      BY <2>1, <3>1, <3>3 DEF Repeats
  <2> QED
    BY <1>2, <2>1
<1>3. ASSUME NEW i \in DOMAIN log' \ downvoted', log'[i].result = "wrong_route"
      PROVE  \E t \in Turns : Repeats(t, i)'
  <2>1. i \in DOMAIN log \ downvoted
    BY <1>3 DEF RowsAreNewer
  <2>2. PICK t \in Turns : Repeats(t, i)
    <3>1. CASE log'[i].result = log[i].result
      BY <1>3, <2>1, <3>1 DEF MarkInv
    <3>2. CASE \E t \in Turns : marking[t] = i
      <4>1. PICK t \in Turns : marking[t] = i
        BY <3>2
      <4>2. i # 0
        BY <2>1 DEF TypeOK
      <4> QED
        BY <4>1, <4>2 DEF MarkInv
    <3> QED
      BY <1>3, <2>1, <3>1, <3>2
  <2>3. Repeats(t, i)'
    BY <2>1, <2>2, RepeatsLasts
  <2> QED
    BY <2>3
<1> QED
  BY <1>1, <1>2, <1>3 DEF MarkInv

LEMMA MarkNext == CacheInv /\ MarkInv /\ [Next]_vars => MarkInv'
<1> SUFFICES ASSUME TypeOK, MarkInv, [Next]_vars PROVE MarkInv'
  BY DEF CacheInv
<1>1. ASSUME NEW t \in Turns, Receive(t) \/ getVoiceCorrections(t) PROVE MarkInv'
  BY <1>1, EarlyGoesOn, LogUntouched, MarksStand
<1>2. ASSUME NEW t \in Turns, detectAndMarkRetry(t) PROVE MarkInv'
  <2>1. LoggedIsDone
    BY DEF MarkInv
  <2> QED
    BY <1>2, <2>1, LookMarks, LogUntouched, MarksStand
<1>3. ASSUME NEW t \in Turns, chatAgentReply(t) \/ persistChatTurn(t) PROVE MarkInv'
  BY <1>3, LateGoesOn, MarksStand
<1>4. ASSUME NEW t \in Turns, Mark(t) PROVE MarkInv'
  <2>1. /\ UNCHANGED <<turn, downvoted>> /\ marking' = [marking EXCEPT ![t] = 0]
        /\ WrongRoute(marking[t]) \/ UNCHANGED log
    BY <1>4 DEF Mark
  <2>2. PICK i \in DOMAIN log : i = marking[t]
    BY <1>4 DEF Mark, TypeOK
  <2>3. RowsStay /\ RowsAreNewer /\ \A j \in DOMAIN log' : j # i => log'[j] = log[j]
    BY <2>1, <2>2, RowMarked
  <2>4. \A u \in Turns : marking'[u] \in {0, marking[u]}
    BY <2>1 DEF TypeOK
  <2>5. \A j \in DOMAIN log : log'[j].result = log[j].result \/ marking[t] = j
    BY <2>2, <2>3 DEF RowsStay
  <2> QED
    BY <2>1, <2>3, <2>4, <2>5, TurnsUntouched, MarksStand
<1>5. ASSUME NEW t \in Turns, Learn(t) PROVE MarkInv'
  <2>1. UNCHANGED <<turn, log, marking, downvoted>>
    BY <1>5 DEF Learn
  <2> QED
    BY <2>1, TurnsUntouched, LogUntouched, MarksStand
<1>6. CASE handleChatFeedback
  <2>1. UNCHANGED <<turn, marking>>
    BY <1>6 DEF handleChatFeedback
  <2>2. PICK i \in DOMAIN log : downvoted' = downvoted \cup {i} /\ (WrongRoute(i) \/ UNCHANGED log)
    BY <1>6 DEF handleChatFeedback
  <2>3. RowsStay /\ RowsAreNewer /\ \A j \in DOMAIN log' : j # i => log'[j] = log[j]
    BY <2>2, RowMarked
  <2>4. \A j \in DOMAIN log \ downvoted' : log'[j].result = log[j].result
    BY <2>2, <2>3 DEF RowsStay
  <2> QED
    BY <2>1, <2>2, <2>3, <2>4, TurnsUntouched, MarksStand
<1>7. CASE Expire \/ Minute \/ UNCHANGED vars
  <2>1. UNCHANGED <<turn, log, marking, downvoted>>
    BY <1>7 DEF Expire, Minute, vars
  <2> QED
    BY <2>1, TurnsUntouched, LogUntouched, MarksStand
<1>8. CASE Restart
  BY <1>8, RestartGoesOn, LogUntouched, MarksStand
<1> QED
  BY <1>1, <1>2, <1>3, <1>4, <1>5, <1>6, <1>7, <1>8 DEF Next, handleChatPost

\* What is marked as misunderstood was repeated in its session or voted down,
\* for any number of turns and whatever minutes and restarts lie between.
THEOREM MarksAreRepeated == Spec => []MarkedIsRepeated
<1>1. Init => MarkInv
  <2> SUFFICES ASSUME Init PROVE MarkInv
    OBVIOUS
  <2>1. DOMAIN log = {} /\ \A t \in Turns : marking[t] = 0
    BY DEF Init
  <2> QED
    BY <2>1 DEF MarkInv, LoggedIsDone
<1>2. MarkInv => MarkedIsRepeated
  BY DEF MarkInv, MarkedIsRepeated, Repeats
<1> QED
  BY <1>1, <1>2, MarkNext, SpecCacheInv, PTL DEF Spec
=============================================================================

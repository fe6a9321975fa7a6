----------------------------- MODULE ChatTurns -----------------------------
(***************************************************************************)
(* POST /chat and what its turns share: the history of a session and the   *)
(* cache of voice corrections in the memory of the process, the tables of  *)
(* corrections and of interactions in the database.  A turn leaves         *)
(* goroutines behind that outlive its answer: one that learns a correction *)
(* and drops the cache, one that marks an earlier turn as misunderstood.   *)
(*                                                                         *)
(* A message is its normalised text; no text contains another, so that a   *)
(* correction replaces whole messages. Of the commands a turn executes     *)
(* only the kind of reply is kept (Maintenance, ScopePlans and             *)
(* Recommendations have the commands). chat_sessions, chat_messages and    *)
(* chat_intent_stats are written and never read here, and left out.        *)
(***************************************************************************)
EXTENDS Integers, Sequences, FiniteSets

CONSTANTS
    Turns,        \* turns, over all sessions
    Sessions, Messages,
    Similar,      \* pairs of messages that share most of their words
    Learned,      \* corrections of earlier days
    HistoryLimit, \* 40 messages
    Restarts,     \* bound: restarts of the process
    Downvotes,    \* bound: messages voted down
    None

ASSUME ChatAssumption ==
    /\ {HistoryLimit, Restarts, Downvotes} \subseteq Nat /\ HistoryLimit % 2 = 0
    /\ Similar \subseteq Messages \X Messages /\ Learned \subseteq Messages \X Messages
    /\ \A m \in Messages : <<m, m>> \in Similar
    /\ \A m, n \in Messages : <<m, n>> \in Similar => <<n, m>> \in Similar
    /\ None \notin Sessions \cup Messages \cup Turns

VARIABLES
    \* of the process
    turn,        \* per turn: control and what it works with
    history,     \* chatSessions: messages of a session
    corrections, \* voiceCorrectionsCache.corrections: the correction of a heard text
    fresh,       \* loadedAt is within the ttl
    writer,      \* turn that holds voiceCorrectionsCache.mu for writing
    learning,    \* goroutine of recordVoiceCorrection, per turn: steps and what it learns
    marking,     \* goroutine of detectAndMarkRetry, per turn: row to mark
    \* of the database
    learned,     \* chat_voice_corrections
    log,         \* chat_interaction_log
    \* of the world and of the past
    expired,     \* rows of the log older than a minute
    restarts,
    settled,     \* corrections whose goroutine is through
    downvoted    \* rows that a user voted down

cache == <<corrections, fresh, writer>>
vars  == <<turn, history, cache, learning, marking, learned, log, expired, restarts, settled,
           downvoted>>

Results == {"success", "error", "no_op", "wrong_route"}
Text    == Messages \cup {None}
NoMap   == [m \in {} |-> None]
Idle    == [pc |-> "idle", session |-> None, said |-> None, stt |-> None,
            loaded |-> NoMap]
NoJob   == [steps |-> <<>>, pair |-> <<None, None>>]

Init ==
    /\ turn = [t \in Turns |-> Idle]
    /\ history = [s \in Sessions |-> <<>>]
    /\ corrections = NoMap /\ fresh = FALSE /\ writer = None
    /\ learning = [t \in Turns |-> NoJob]
    /\ marking = [t \in Turns |-> 0]
    /\ learned = Learned /\ log = <<>>
    /\ expired = 0 /\ restarts = 0 /\ settled = Learned /\ downvoted = {}

At(t, label) == turn[t].pc = label
Goes(t, v) == turn' = [turn EXCEPT ![t] = v]

Heard(pairs) == {p[1] : p \in pairs}

\* GetVoiceCorrections: of the corrections of one heard text the map keeps the
\* last row, the one with the fewest hits; which one that is is left open.
MapsOf(pairs) ==
    {f \in [Heard(pairs) -> Text] : \A m \in Heard(pairs) : <<m, f[m]>> \in pairs}

\* ApplyVoiceCorrections.
Applied(map, m) == IF m \in DOMAIN map THEN map[m] ELSE m

-----------------------------------------------------------------------------
(* The voice cache.                                                        *)

\* A voice message comes with its transcript, where the client has one.
Receive(t) ==
    /\ At(t, "idle")
    /\ \E s \in Sessions \cup {None}, m \in Messages, stt \in Messages \cup {None},
          voice \in BOOLEAN :
         /\ ~voice => stt = None
         /\ Goes(t, [Idle EXCEPT !.pc = IF voice THEN "voice" ELSE "retry",
                                 !.session = s, !.said = m, !.stt = stt])
    /\ UNCHANGED <<history, cache, learning, marking, learned, log, expired, restarts, settled,
                   downvoted>>

\* Mutant of CorrectionJob: the cache is dropped first.
InvalidateFirst == <<"invalidate", "upsert">>

\* The goroutine of recordVoiceCorrection.
CorrectionJob == <<"upsert", "invalidate">>

\* The corrected text, and the goroutine that learns from the transcript.
Corrects(t, map) ==
    LET v == turn[t]
    IN  /\ Goes(t, [v EXCEPT !.pc = "retry", !.said = Applied(map, v.said), !.stt = None,
                             !.loaded = NoMap])
        /\ learning' = [learning EXCEPT ![t] =
             IF v.stt \in {None, v.said} THEN NoJob
             ELSE [steps |-> CorrectionJob, pair |-> <<v.stt, v.said>>]]
        /\ UNCHANGED <<history, marking, learned, log, expired, restarts, settled, downvoted>>

\* getVoiceCorrections, the way of the readers.
UseCache(t) ==
    /\ At(t, "voice") /\ writer = None
    /\ IF fresh THEN Corrects(t, corrections)
       ELSE /\ Goes(t, [turn[t] EXCEPT !.pc = "stale"])
            /\ UNCHANGED <<history, learning, marking, learned, log, expired, restarts, settled,
                           downvoted>>
    /\ UNCHANGED cache

\* The way of the one that refreshes: somebody else may have done it meanwhile.
Lock(t) ==
    /\ At(t, "stale") /\ writer = None
    /\ IF fresh
       THEN Corrects(t, corrections) /\ UNCHANGED cache
       ELSE /\ writer' = t
            /\ Goes(t, [turn[t] EXCEPT !.pc = "query"])
            /\ UNCHANGED <<corrections, fresh, history, learning, marking, learned, log, expired,
                           restarts, settled, downvoted>>

\* When GetVoiceCorrections fails the turn does with what there is.
Query(t) ==
    /\ At(t, "query")
    /\ \/ /\ \E map \in MapsOf(learned) :
               Goes(t, [turn[t] EXCEPT !.pc = "store", !.loaded = map])
          /\ UNCHANGED <<cache, history, learning, marking, learned, log, expired, restarts,
                         settled, downvoted>>
       \/ /\ writer' = None
          /\ Corrects(t, corrections)
          /\ UNCHANGED <<corrections, fresh>>

Store(t) ==
    /\ At(t, "store")
    /\ corrections' = turn[t].loaded
    /\ fresh' = TRUE /\ writer' = None
    /\ Corrects(t, turn[t].loaded)

\* The ttl of five minutes is over.
Expire ==
    /\ fresh /\ writer = None
    /\ fresh' = FALSE
    /\ UNCHANGED <<turn, history, corrections, writer, learning, marking, learned, log, expired,
                   restarts, settled, downvoted>>

\* recordVoiceCorrection: UpsertVoiceCorrection may fail, the cache is dropped
\* all the same.
Learn(t) ==
    LET job  == learning[t]
        left == Tail(job.steps)
    IN  /\ job.steps # <<>>
        /\ learning' = [learning EXCEPT ![t] =
                          IF left = <<>> THEN NoJob ELSE [job EXCEPT !.steps = left]]
        /\ IF Head(job.steps) = "upsert"
           THEN /\ learned' \in {learned, learned \cup {job.pair}}
                /\ UNCHANGED fresh
           ELSE /\ writer = None
                /\ fresh' = FALSE
                /\ UNCHANGED learned
        /\ settled' = IF left = <<>> THEN settled \cup ({job.pair} \cap learned') ELSE settled
        /\ UNCHANGED <<turn, history, corrections, writer, marking, log, expired, restarts,
                       downvoted>>

-----------------------------------------------------------------------------
(* Retries.                                                                *)

\* Mutant of Recent: the newest turn of anybody.
RecentOfAnybody(s) == {i \in DOMAIN log : i > expired}

\* FindRecentInteraction: rows of the session within the last minute.
Recent(s) == {i \in DOMAIN log : i > expired /\ log[i].session = s}

Newest(rows) == CHOOSE i \in rows : \A j \in rows : j <= i

\* DetectRetrySignal.
DetectRetrySignal(m, n) == <<m, n>> \in Similar

detectAndMarkRetry(t) ==
    LET v    == turn[t]
        rows == Recent(v.session)
    IN  /\ At(t, "retry")
        /\ Goes(t, [v EXCEPT !.pc = "reply"])
        /\ marking' = [marking EXCEPT ![t] =
             IF v.session # None /\ rows # {} /\ DetectRetrySignal(v.said, log[Newest(rows)].said)
             THEN Newest(rows) ELSE 0]
        /\ UNCHANGED <<history, cache, learning, learned, log, expired, restarts, settled,
                       downvoted>>

WrongRoute(i) == log' = [log EXCEPT ![i].result = "wrong_route"]

\* MarkInteractionWrongRoute, which may fail.
Mark(t) ==
    /\ marking[t] # 0
    /\ \/ WrongRoute(marking[t])
       \/ UNCHANGED log
    /\ marking' = [marking EXCEPT ![t] = 0]
    /\ UNCHANGED <<turn, history, cache, learning, learned, expired, restarts, settled, downvoted>>

\* handleChatFeedback: of the ratings only "down" marks the turn.
handleChatFeedback ==
    /\ Cardinality(downvoted) < Downvotes
    /\ \E i \in DOMAIN log \ downvoted :
         /\ downvoted' = downvoted \cup {i}
         /\ WrongRoute(i) \/ UNCHANGED log
    /\ UNCHANGED <<turn, history, cache, learning, marking, learned, expired, restarts, settled>>

Minute ==
    /\ expired < Len(log)
    /\ expired' = expired + 1
    /\ UNCHANGED <<turn, history, cache, learning, marking, learned, log, restarts, settled,
                   downvoted>>

-----------------------------------------------------------------------------
(* The reply.                                                              *)

\* Mutant of Trimmed: one message too few is kept.
TrimmedBelow(h) == IF Len(h) > HistoryLimit THEN SubSeq(h, Len(h) - HistoryLimit + 2, Len(h)) ELSE h

\* Mutant of Trimmed: the history grows.
Uncut(h) == h

Trimmed(h) == IF Len(h) > HistoryLimit THEN SubSeq(h, Len(h) - HistoryLimit + 1, Len(h)) ELSE h

\* chatSessionAppend.
Append2(t) ==
    LET s == turn[t].session
    IN  history' = IF s = None THEN history
                   ELSE [history EXCEPT ![s] =
                           Trimmed(@ \o <<<<"user", t>>, <<"assistant", t>>>>)]

\* chatAgentReply: a direct or a model's reply enters the history; the stub
\* and the refusal after six rounds of tools do not, nor does an error.
chatAgentReply(t) ==
    /\ At(t, "reply")
    /\ \E result \in {"success", "error", "no_op"} :
         /\ Goes(t, [turn[t] EXCEPT !.pc = result])
         /\ \/ UNCHANGED history
            \/ result = "success" /\ Append2(t)
    /\ UNCHANGED <<cache, learning, marking, learned, log, expired, restarts, settled, downvoted>>

\* persistChatTurn, with a context of its own; a failed insert is only noted.
persistChatTurn(t) ==
    LET v == turn[t]
    IN  /\ v.pc \in {"success", "error", "no_op"}
        /\ Goes(t, [v EXCEPT !.pc = "done"])
        /\ \/ UNCHANGED log
           \/ /\ v.session # None
              /\ log' = Append(log, [turn |-> t, session |-> v.session, said |-> v.said,
                                     result |-> v.pc])
        /\ UNCHANGED <<history, cache, learning, marking, learned, expired, restarts, settled,
                       downvoted>>

\* The process goes down: turns, goroutines, histories and the cache are gone.
Restart ==
    /\ restarts < Restarts
    /\ restarts' = restarts + 1
    /\ turn' = [t \in Turns |-> IF At(t, "idle") THEN Idle
                             ELSE [turn[t] EXCEPT !.pc = "done", !.stt = None, !.loaded = NoMap]]
    /\ history' = [s \in Sessions |-> <<>>]
    /\ corrections' = NoMap /\ fresh' = FALSE /\ writer' = None
    /\ learning' = [t \in Turns |-> NoJob] /\ marking' = [t \in Turns |-> 0]
    /\ UNCHANGED <<learned, log, expired, settled, downvoted>>

getVoiceCorrections(t) == UseCache(t) \/ Lock(t) \/ Query(t) \/ Store(t)

handleChatPost(t) ==
    \/ Receive(t) \/ getVoiceCorrections(t) \/ detectAndMarkRetry(t)
    \/ chatAgentReply(t) \/ persistChatTurn(t)

Next ==
    \/ \E t \in Turns : handleChatPost(t) \/ Learn(t) \/ Mark(t)
    \/ handleChatFeedback \/ Expire \/ Minute \/ Restart

Spec == Init /\ [][Next]_vars

-----------------------------------------------------------------------------
Maps  == UNION {[S -> Text] : S \in SUBSET Text}
Steps == {<<>>, <<"invalidate">>, <<"upsert", "invalidate">>}
Turn  == [pc : {"idle", "voice", "stale", "query", "store", "retry", "reply", "success", "error",
                "no_op", "done"},
          session : Sessions \cup {None}, said : Text, stt : Text, loaded : Maps]
Row   == [turn : Turns, session : Sessions, said : Text, result : Results]

TypeOK ==
    /\ turn \in [Turns -> Turn]
    /\ history \in [Sessions -> Seq({"user", "assistant"} \X Turns)]
    /\ \A s \in Sessions : Len(history[s]) <= HistoryLimit
    /\ learned \subseteq Text \X Text /\ settled \subseteq learned
    /\ corrections \in Maps
    /\ fresh \in BOOLEAN
    /\ writer \in Turns \cup {None}
    /\ \A t \in Turns : writer = t <=> turn[t].pc \in {"query", "store"}
    /\ learning \in [Turns -> [steps : Steps, pair : Text \X Text]]
    /\ log \in Seq(Row)
    /\ marking \in [Turns -> 0..Len(log)]
    /\ expired \in 0..Len(log) /\ restarts \in 0..Restarts
    /\ downvoted \subseteq DOMAIN log

\* chat_turn.go:118-182: once the goroutine of a correction is through, a turn
\* that is served from the cache finds a correction of that heard text, however
\* the turns that refresh the cache and the goroutines that drop it interleave;
\* the cache holds only what was learned.  Where one text was learned with two
\* corrections it need not be the one that was learned last.
CorrectionsReachTurns ==
    /\ fresh => Heard(settled) \subseteq DOMAIN corrections
    /\ \A m \in DOMAIN corrections : <<m, corrections[m]>> \in learned

\* chat_agent.go:34-45: a history consists of whole turns, the question before
\* its answer, also after it was cut and with several turns at a time.
HistoryOfWholeTurns ==
    \A s \in Sessions : LET h == history[s] IN
        \A i \in DOMAIN h :
            IF i % 2 = 1 THEN h[i][1] = "user" /\ i < Len(h)
            ELSE h[i] = <<"assistant", h[i - 1][2]>>

\* chat_turn.go:165-191: a turn counts as misunderstood only if its session
\* went on with a similar message, or a user said so.
MarkedIsRepeated ==
    \A i \in DOMAIN log \ downvoted :
        log[i].result = "wrong_route" =>
            \E t \in Turns \ {log[i].turn} :
                /\ turn[t].session = log[i].session
                /\ <<turn[t].said, log[i].said>> \in Similar
                /\ \A j \in DOMAIN log : log[j].turn = t => j > i
=============================================================================

----------------------- MODULE PipelineSessionProofs -----------------------
(***************************************************************************)
(* Proofs about PipelineSession, for every bound and every choice of       *)
(* vendor behaviour.  The session is sequential code, so the proofs follow *)
(* its methods: for each private method, a lemma says what it does to the  *)
(* books (Books) or that it keeps them in order (Core), and each action    *)
(* cites the methods it calls.                                             *)
(*                                                                         *)
(*   1. Books: the record keeps its type, audio is neither lost nor billed *)
(*      twice, and every turn that ran is billed exactly once.             *)
(*   2. Voice: events come in pairs, a live vendor stream belongs to the   *)
(*      turn that speaks, an answer stands behind its question, a turn is  *)
(*      billed from the vendor's counts where there are any, and a closed  *)
(*      session is settled and stays silent.                               *)
(*   3. Billing: what a step makes of turns, timers and streams is a step  *)
(*      of the meter of TurnBilling, or none.                              *)
(***************************************************************************)
EXTENDS PipelineSession, TLAPS

\* What the books are kept in.
Books(x) ==
    <<x.closed, x.counter, x.turn, x.turns, x.bytes,
      x.heard, x.billed, x.started, x.usages, x.source>>

\* One id's entry: an unused id is blank, a pending turn is the open one and has
\* not started, a running one has started and is open until it is billed.
Entry(x, t) ==
    /\ t > x.counter => x.turns[t].phase = "none" /\ x.usages[t] = 0
    /\ x.turns[t].phase = "pending" => t = x.turn
    /\ x.started[t] = IF x.turns[t].phase = "running" THEN 1 ELSE 0
    /\ x.turns[t].phase = "running" =>
           /\ x.usages[t] = IF x.turns[t].drained THEN 1 ELSE 0
           /\ x.turns[t].drained => x.source[t] # "tail"
           /\ ~x.turns[t].drained => t = x.turn
    /\ x.turns[t].phase = "pending" => x.usages[t] = 0
    /\ x.turns[t].timer => x.turns[t].phase = "running" /\ ~x.turns[t].drained
    /\ x.turns[t].drained => x.turns[t].phase = "running"
    /\ x.turns[t].phase = "none" /\ x.usages[t] # 0 => x.source[t] = "tail"
    /\ x.usages[t] <= 1

\* The open turn is the newest id, or one that has started.
OpenOk(x) ==
    x.turn # None =>
        /\ x.turn <= x.counter
        /\ x.turns[x.turn].phase # "none"
        /\ ~x.turns[x.turn].drained
        /\ x.turns[x.turn].phase = "pending" => x.turn = x.counter

Core(x) ==
    /\ x \in State
    /\ x.closed \/ x.counter <= MaxTurns
    /\ OpenOk(x)
    /\ \A t \in TurnId : Entry(x, t)
    /\ x.heard = x.bytes + HeldBytes(x) + x.billed

\* Only a running turn speaks, and one that waits for its drain is silent.
Voice(x) == x.speaking => Running(x) /\ ~x.turns[x.turn].timer

IInv == Core(s) /\ Voice(s)

-----------------------------------------------------------------------------
(* Methods that leave the books alone.                                      *)

LEMMA SameBooks ==
    ASSUME NEW x \in State, NEW y \in State, Core(x), Books(y) = Books(x)
    PROVE  Core(y)
BY DEF Core, Books, Entry, OpenOk, HeldBytes

LEMMA TtsIsBooks ==
    ASSUME NEW x \in State, NEW t \in TurnId, NEW st \in TtsState
    PROVE  /\ TtsIs(x, t, st) \in State
           /\ Books(TtsIs(x, t, st)) = Books(x)
           /\ TtsIs(x, t, st).speaking = x.speaking
<1> DEFINE f == [x.tts EXCEPT ![t] = st]
<1>1. f \in [TurnId -> TtsState] BY DEF State
<1>. HIDE DEF f
<1>2. [x EXCEPT !.tts = f] \in State BY <1>1 DEF State
<1>3. Books([x EXCEPT !.tts = f]) = Books(x) BY DEF State, Books
<1>4. [x EXCEPT !.tts = f].speaking = x.speaking BY DEF State
<1>. QED BY <1>2, <1>3, <1>4 DEF TtsIs, f

LEMMA EndTtsBooks ==
    ASSUME NEW x \in State
    PROVE  /\ EndTts(x) \in State
           /\ Books(EndTts(x)) = Books(x)
           /\ EndTts(x).speaking = x.speaking
<1>1. CASE x.ttsStream = None BY <1>1 DEF EndTts
<1>2. CASE x.ttsStream # None
  <2> DEFINE f == [x.tts EXCEPT ![x.ttsStream] = "ended"]
  <2>1. f \in [TurnId -> TtsState] BY <1>2 DEF State, TtsState
  <2>. HIDE DEF f
  <2> DEFINE E == [x EXCEPT !.tts = f, !.ttsStream = None]
  <2>2. E \in State BY <2>1 DEF State
  <2>3. Books(E) = Books(x) BY DEF State, Books
  <2>4. E.speaking = x.speaking BY DEF State
  <2>. QED BY <1>2, <2>2, <2>3, <2>4 DEF EndTts, f
<1>. QED BY <1>1, <1>2

LEMMA AbortLlmBooks ==
    ASSUME NEW x \in State
    PROVE  /\ AbortLlm(x) \in State
           /\ Books(AbortLlm(x)) = Books(x)
           /\ AbortLlm(x).speaking = x.speaking
<1>1. CASE x.llmHandle = None BY <1>1 DEF AbortLlm
<1>2. CASE x.llmHandle # None
  <2> DEFINE f == [x.llm EXCEPT ![x.llmHandle] =
                      IF @ \in {"broken", "ended"} THEN @ ELSE "aborted"]
  <2>1. f \in [TurnId -> LlmState] BY <1>2 DEF State, LlmState
  <2>. HIDE DEF f
  <2> DEFINE E == [x EXCEPT !.llm = f, !.llmHandle = None]
  <2>2. E \in State BY <2>1 DEF State
  <2>3. Books(E) = Books(x) BY DEF State, Books
  <2>4. E.speaking = x.speaking BY DEF State
  <2>. QED BY <1>2, <2>2, <2>3, <2>4 DEF AbortLlm, f
<1>. QED BY <1>1, <1>2

LEMMA LlmIsBooks ==
    ASSUME NEW x \in State, NEW t \in TurnId, NEW st \in LlmState
    PROVE  /\ LlmIs(x, t, st) \in State
           /\ Books(LlmIs(x, t, st)) = Books(x)
           /\ LlmIs(x, t, st).speaking = x.speaking
<1> DEFINE f == [x.llm EXCEPT ![t] = st]
<1>1. f \in [TurnId -> LlmState] BY DEF State
<1>. HIDE DEF f
<1>2. [x EXCEPT !.llm = f] \in State BY <1>1 DEF State
<1>3. Books([x EXCEPT !.llm = f]) = Books(x) BY DEF State, Books
<1>4. [x EXCEPT !.llm = f].speaking = x.speaking BY DEF State
<1>. QED BY <1>2, <1>3, <1>4 DEF LlmIs, f

LEMMA StopSpeakingBooks ==
    ASSUME NEW x \in State, NEW t \in TurnId \cup {None}
    PROVE  /\ StopSpeaking(x, t) \in State
           /\ Books(StopSpeaking(x, t)) = Books(x)
           /\ ~StopSpeaking(x, t).speaking
<1>1. CASE ~x.speaking BY <1>1 DEF StopSpeaking
<1>2. CASE x.speaking
  <2> DEFINE f == [x.ended EXCEPT ![t] = x.ended[t] + 1]
  <2>0. x.ended \in [TurnId \cup {None} -> Nat] BY DEF State
  <2>1. f \in [TurnId \cup {None} -> Nat] BY <2>0
  <2>. HIDE DEF f
  <2> DEFINE E == [x EXCEPT !.speaking = FALSE, !.ended = f]
  <2>2. E \in State BY <2>1 DEF State
  <2>3. Books(E) = Books(x) BY DEF State, Books
  <2>4. ~E.speaking BY DEF State
  <2>. QED BY <1>2, <2>2, <2>3, <2>4 DEF StopSpeaking, f
<1>3. x.speaking \in BOOLEAN BY DEF State
<1>. QED BY <1>1, <1>2, <1>3

LEMMA AnswerBooks ==
    ASSUME NEW x \in State, NEW t \in TurnId
    PROVE  /\ Answer(x, t) \in State
           /\ Books(Answer(x, t)) = Books(x)
           /\ Answer(x, t).speaking = x.speaking
<1> DEFINE h == Append(x.history, [role |-> "assistant", turn |-> t])
<1>1. x.history \in Seq(Message) BY DEF State
<1>2. [role |-> "assistant", turn |-> t] \in Message BY DEF Message
<1>3. h \in Seq(Message) BY <1>1, <1>2
<1>. HIDE DEF h
<1>4. [x EXCEPT !.history = h] \in State BY <1>3 DEF State
<1>5. Books([x EXCEPT !.history = h]) = Books(x) BY DEF State, Books
<1>6. [x EXCEPT !.history = h].speaking = x.speaking BY DEF State
<1>. QED BY <1>4, <1>5, <1>6 DEF Answer, h

LEMMA HoldTtsBooks ==
    ASSUME NEW x \in State, NEW t \in TurnId
    PROVE  /\ HoldTts(x, t) \in State
           /\ Books(HoldTts(x, t)) = Books(x)
           /\ HoldTts(x, t).speaking = x.speaking
<1> DEFINE y == TtsIs(x, t, "open")
<1>1. /\ y \in State
      /\ Books(y) = Books(x)
      /\ y.speaking = x.speaking
      BY TtsIsBooks DEF TtsState
<1>. HIDE DEF y
<1>2. [y EXCEPT !.ttsStream = t] \in State BY <1>1 DEF State
<1>3. Books([y EXCEPT !.ttsStream = t]) = Books(y) BY <1>1 DEF State, Books
<1>4. [y EXCEPT !.ttsStream = t].speaking = y.speaking BY <1>1 DEF State
<1>. QED BY <1>1, <1>2, <1>3, <1>4 DEF HoldTts, y

LEMMA StartLlmBooks ==
    ASSUME NEW x \in State, NEW t \in TurnId
    PROVE  /\ StartLlm(x, t) \in State
           /\ Books(StartLlm(x, t)) = Books(x)
           /\ StartLlm(x, t).speaking = x.speaking
<1> DEFINE y == LlmIs(x, t, "live")
<1>1. /\ y \in State
      /\ Books(y) = Books(x)
      /\ y.speaking = x.speaking
      BY LlmIsBooks DEF LlmState
<1>. HIDE DEF y
<1>2. [y EXCEPT !.llmHandle = t] \in State BY <1>1 DEF State
<1>3. Books([y EXCEPT !.llmHandle = t]) = Books(y) BY <1>1 DEF State, Books
<1>4. [y EXCEPT !.llmHandle = t].speaking = y.speaking BY <1>1 DEF State
<1>. QED BY <1>1, <1>2, <1>3, <1>4 DEF StartLlm, y

-----------------------------------------------------------------------------
(* Methods that change a Turn object, or the books.                         *)

\* What a method that touches only turn t's flags does.
Flagged(x, y, t, r) ==
    /\ y \in State
    /\ y.turns = [x.turns EXCEPT ![t] = r]
    /\ <<y.closed, y.counter, y.turn, y.bytes, y.heard,
         y.billed, y.started, y.usages, y.source, y.speaking>>
         = <<x.closed, x.counter, x.turn, x.bytes, x.heard,
             x.billed, x.started, x.usages, x.source, x.speaking>>

LEMMA FlaggedCore ==
    ASSUME NEW x \in State, Core(x), NEW t \in TurnId, NEW r \in Turn, NEW y,
           Flagged(x, y, t, r),
           r.phase = x.turns[t].phase, r.bytes = x.turns[t].bytes,
           r.drained = x.turns[t].drained,
           r.timer => r.phase = "running" /\ ~r.drained
    PROVE  Core(y)
<1>1. x.turns \in [TurnId -> Turn] BY DEF State
<1>2. y.turns[t] = r /\ \A u \in TurnId : u # t => y.turns[u] = x.turns[u]
      BY <1>1 DEF Flagged
<1>3. y \in State BY DEF Flagged
<1>4. x.turn \in TurnId \cup {None} BY DEF State
<1>5. \A u \in TurnId : Entry(y, u)
  <2>. TAKE u \in TurnId
  <2>1. Entry(x, u) BY DEF Core
  <2>2. CASE u = t BY <1>2, <2>1, <2>2 DEF Entry, Flagged
  <2>3. CASE u # t BY <1>2, <2>1, <2>3 DEF Entry, Flagged
  <2>. QED BY <2>2, <2>3
<1>6. OpenOk(y) BY <1>2, <1>4 DEF Core, OpenOk, Flagged
<1>7. HeldBytes(y) = HeldBytes(x) BY <1>2, <1>4 DEF HeldBytes, Flagged
<1>8. /\ y.closed \/ y.counter <= MaxTurns
      /\ y.heard = y.bytes + HeldBytes(y) + y.billed
      BY <1>7 DEF Core, Flagged
<1>. QED BY <1>3, <1>5, <1>6, <1>8 DEF Core

LEMMA TurnFacts ==
    ASSUME NEW x \in State, NEW t \in TurnId
    PROVE  /\ x.turns \in [TurnId -> Turn]
           /\ x.turns[t] \in Turn
           /\ x.turns[t].bytes \in Nat
           /\ x.turns[t].phase \in {"none", "pending", "running"}
           /\ x.turns[t].drained \in BOOLEAN
           /\ x.turns[t].timer \in BOOLEAN
           /\ x.turns[t].settled \in BOOLEAN
           /\ x.turns[t].vendor \in BOOLEAN
<1>1. x.turns \in [TurnId -> Turn] BY DEF State
<1>2. x.turns[t] \in Turn BY <1>1
<1>. QED BY <1>1, <1>2 DEF Turn

LEMMA StateFacts ==
    ASSUME NEW x \in State
    PROVE  /\ x.closed \in BOOLEAN
           /\ x.counter \in 0..(MaxTurns + 1)
           /\ x.turn \in TurnId \cup {None}
           /\ x.bytes \in Nat
           /\ x.heard \in Nat
           /\ x.billed \in Nat
           /\ x.started \in [TurnId -> Nat]
           /\ x.usages \in [TurnId -> Nat]
           /\ x.source \in [TurnId -> {"none", "local", "vendor", "tail"}]
           /\ x.speaking \in BOOLEAN
BY DEF State

LEMMA SettledFlag ==
    ASSUME NEW x \in State, NEW t \in TurnId
    PROVE  Flagged(x, Settled(x, t), t, [x.turns[t] EXCEPT !.settled = TRUE])
<1> DEFINE r == [x.turns[t] EXCEPT !.settled = TRUE]
           f == [x.turns EXCEPT ![t] = r]
<1>1. x.turns \in [TurnId -> Turn] /\ x.turns[t] \in Turn BY TurnFacts
<1>2. r \in Turn BY <1>1 DEF Turn
<1>. HIDE DEF r
<1>3. f \in [TurnId -> Turn] BY <1>1, <1>2
<1>. HIDE DEF f
<1>4. Flagged(x, [x EXCEPT !.turns = f], t, r)
  <2>1. [x EXCEPT !.turns = f] \in State BY <1>3 DEF State
  <2>2. [x EXCEPT !.turns = f].turns = f BY DEF State
  <2>. QED BY <2>1, <2>2 DEF Flagged, State, f
<1>. QED BY <1>4 DEF Settled, f, r

LEMMA SettledCore ==
    ASSUME NEW x \in State, Core(x), NEW t \in TurnId
    PROVE  /\ Core(Settled(x, t))
           /\ Settled(x, t) \in State
           /\ Settled(x, t).turns[t].phase = x.turns[t].phase
           /\ Settled(x, t).turns[t].drained = x.turns[t].drained
<1> DEFINE r == [x.turns[t] EXCEPT !.settled = TRUE]
<1>1. x.turns \in [TurnId -> Turn] /\ x.turns[t] \in Turn BY TurnFacts
<1>2. /\ r \in Turn
      /\ r.phase = x.turns[t].phase
      /\ r.bytes = x.turns[t].bytes
      /\ r.drained = x.turns[t].drained
      /\ r.timer = x.turns[t].timer
      BY <1>1 DEF Turn
<1>3. Flagged(x, Settled(x, t), t, r) BY SettledFlag
<1>. HIDE DEF r
<1>4. r.timer => r.phase = "running" /\ ~r.drained
      BY <1>2 DEF Core, Entry
<1>5. Core(Settled(x, t)) BY <1>2, <1>3, <1>4, FlaggedCore
<1>6. Settled(x, t).turns[t] = r BY <1>1, <1>3 DEF Flagged
<1>. QED BY <1>2, <1>3, <1>5, <1>6 DEF Flagged

LEMMA OnUsageCore ==
    ASSUME NEW x \in State, Core(x), NEW t \in TurnId
    PROVE  /\ Core(OnUsage(x, t))
           /\ OnUsage(x, t) \in State
           /\ Voice(x) => Voice(OnUsage(x, t))
<1> DEFINE r == [x.turns[t] EXCEPT !.vendor = @ \/ x.turn = t]
           f == [x.turns EXCEPT ![t] = r]
           g == [x.reported EXCEPT ![t] = TRUE]
           E == [x EXCEPT !.turns = f, !.reported = g]
<1>1. x.turns \in [TurnId -> Turn] /\ x.turns[t] \in Turn BY TurnFacts
<1>2. /\ r \in Turn
      /\ r.phase = x.turns[t].phase
      /\ r.bytes = x.turns[t].bytes
      /\ r.drained = x.turns[t].drained
      /\ r.timer = x.turns[t].timer
      BY <1>1 DEF Turn
<1>. HIDE DEF r
<1>3. f \in [TurnId -> Turn] BY <1>1, <1>2
<1>4. g \in [TurnId -> BOOLEAN] BY DEF State
<1>. HIDE DEF f, g
<1>5. E \in State BY <1>3, <1>4 DEF State
<1>6. Flagged(x, E, t, r)
  <2>1. E.turns = f BY DEF State
  <2>. QED BY <1>5, <2>1 DEF Flagged, State, f
<1>. HIDE DEF E
<1>7. r.timer => r.phase = "running" /\ ~r.drained
      BY <1>2 DEF Core, Entry
<1>8. Core(E) BY <1>2, <1>6, <1>7, FlaggedCore
<1>9. Voice(x) => Voice(E)
  <2>1. E.turns[t] = r /\ \A u \in TurnId : u # t => E.turns[u] = x.turns[u]
        BY <1>1, <1>6 DEF Flagged
  <2>2. x.turn \in TurnId \cup {None} BY DEF State
  <2>. QED BY <1>2, <1>6, <2>1, <2>2 DEF Voice, Running, Flagged
<1>. QED BY <1>5, <1>8, <1>9 DEF OnUsage, E, f, g, r

\* What billing and draining never touch.
Kept(x, y) ==
    /\ y.counter = x.counter
    /\ y.closed = x.closed
    /\ y.speaking = x.speaking
    /\ y.bytes = x.bytes

\* Billing a running turn closes it; billing one again changes nothing.
LEMMA EmitUsageCore ==
    ASSUME NEW x \in State, Core(x),
           NEW t \in TurnId, x.turns[t].phase = "running"
    PROVE  LET y == EmitUsage(x, t)
           IN  /\ y \in State
               /\ Core(y)
               /\ x.turn = t => y.turn = None
               /\ x.turn # t => y = x
               /\ Kept(x, y)
<1>0. Entry(x, t) BY DEF Core
<1>1. CASE x.turns[t].drained
  <2>1. EmitUsage(x, t) = x BY <1>1 DEF EmitUsage
  <2>2. x.turn # t BY <1>1 DEF Core, OpenOk, TurnId, None
  <2>. QED BY <2>1, <2>2 DEF Kept
<1>2. CASE ~x.turns[t].drained
  <2> DEFINE r == Drained(x.turns[t])
             f == [x.turns EXCEPT ![t] = r]
             u == [x.usages EXCEPT ![t] = x.usages[t] + 1]
             w == IF x.turns[t].vendor THEN "vendor" ELSE "local"
             c == [x.source EXCEPT ![t] = w]
             n == x.billed + x.turns[t].bytes
             k == IF x.turn = t THEN None ELSE x.turn
             E == [x EXCEPT !.turns = f, !.turn = k, !.billed = n,
                            !.usages = u, !.source = c]
  <2>1. EmitUsage(x, t) = E BY <1>2 DEF EmitUsage
  <2>2. /\ x.turns \in [TurnId -> Turn]
        /\ x.turns[t] \in Turn
        /\ x.turns[t].bytes \in Nat
        BY TurnFacts
  <2>3. /\ r \in Turn
        /\ r.phase = "running"
        /\ r.drained
        /\ ~r.timer
        BY <2>2 DEF Drained, Turn
  <2>4. /\ x.billed \in Nat /\ x.bytes \in Nat /\ x.heard \in Nat
        /\ x.usages \in [TurnId -> Nat]
        /\ x.source \in [TurnId -> {"none", "local", "vendor", "tail"}]
        /\ x.turn \in TurnId \cup {None}
        BY StateFacts
  <2>5. x.turn = t BY <1>0, <1>2 DEF Entry
  <2>6. w \in {"local", "vendor"} OBVIOUS
  <2>. HIDE DEF r, w
  <2>7. /\ f \in [TurnId -> Turn]
        /\ f[t] = r
        /\ \A v \in TurnId : v # t => f[v] = x.turns[v]
        BY <2>2, <2>3
  <2>8. /\ u \in [TurnId -> Nat]
        /\ u[t] = x.usages[t] + 1
        /\ \A v \in TurnId : v # t => u[v] = x.usages[v]
        BY <2>4
  <2>9. /\ c \in [TurnId -> {"none", "local", "vendor", "tail"}]
        /\ c[t] = w
        /\ \A v \in TurnId : v # t => c[v] = x.source[v]
        BY <2>4, <2>6
  <2>10. n \in Nat BY <2>2, <2>4
  <2>11. k = None BY <2>5
  <2>. HIDE DEF f, u, c, n, k
  <2>12. E \in State BY <2>7, <2>8, <2>9, <2>10, <2>11 DEF State
  <2>13. /\ E.turns = f /\ E.turn = None /\ E.billed = n
         /\ E.usages = u /\ E.source = c
         /\ E.counter = x.counter /\ E.closed = x.closed
         /\ E.speaking = x.speaking /\ E.bytes = x.bytes
         /\ E.heard = x.heard /\ E.started = x.started
         BY <2>11 DEF State
  <2>. HIDE DEF E
  <2>14. \A v \in TurnId : Entry(E, v)
    <3>. TAKE v \in TurnId
    <3>1. Entry(x, v) BY DEF Core
    <3>2. CASE v = t
      <4>1. x.usages[t] = 0 BY <1>0, <1>2 DEF Entry
      <4>. QED BY <1>0, <1>2, <2>3, <2>6, <2>7, <2>8, <2>9, <2>13, <3>2, <4>1
               DEF Entry
    <3>3. CASE v # t
      BY <2>5, <2>7, <2>8, <2>9, <2>13, <3>1, <3>3 DEF Entry
    <3>. QED BY <3>2, <3>3
  <2>15. OpenOk(E) BY <2>13 DEF OpenOk
  <2>16. E.heard = E.bytes + HeldBytes(E) + E.billed
    <3>1. HeldBytes(E) = 0 BY <2>13 DEF HeldBytes
    <3>2. HeldBytes(x) = x.turns[t].bytes BY <2>5 DEF HeldBytes, TurnId, None
    <3>3. n = x.billed + x.turns[t].bytes BY DEF n
    <3>. QED BY <2>2, <2>4, <2>13, <3>1, <3>2, <3>3 DEF Core
  <2>17. Core(E) BY <2>12, <2>13, <2>14, <2>15, <2>16 DEF Core
  <2>. QED BY <2>1, <2>5, <2>12, <2>13, <2>17 DEF Kept
<1>. QED BY <1>1, <1>2

LEMMA DrainNowCore ==
    ASSUME NEW x \in State, Core(x)
    PROVE  /\ DrainNow(x) \in State
           /\ Core(DrainNow(x))
           /\ Kept(x, DrainNow(x))
           /\ ~Running(DrainNow(x))
           /\ Running(x) => DrainNow(x).turn = None
           /\ ~Running(x) => DrainNow(x) = x
<1>1. CASE ~Running(x) BY <1>1 DEF DrainNow, Kept
<1>2. CASE Running(x)
  <2>1. x.turn \in TurnId /\ x.turns[x.turn].phase = "running"
        BY <1>2, StateFacts DEF Running
  <2>. QED BY <1>2, <2>1, EmitUsageCore DEF DrainNow, Running
<1>. QED BY <1>1, <1>2

LEMMA RequestDrainCore ==
    ASSUME NEW x \in State, Core(x), NEW t \in TurnId,
           x.turn = t => Running(x)
    PROVE  LET y == RequestDrain(x, t)
           IN  /\ y \in State
               /\ Core(y)
               /\ Kept(x, y)
               /\ y.turn = None \/ y.turn = x.turn
               /\ x.turn = t /\ y.turn # None => Running(y)
<1>1. CASE x.turn # t \/ x.turns[t].drained
  BY <1>1 DEF RequestDrain, Kept
<1>2. CASE x.turn = t /\ ~x.turns[t].drained
           /\ (x.turns[t].settled \/ x.turns[t].timer)
  BY <1>2, EmitUsageCore DEF RequestDrain, Running
<1>3. CASE x.turn = t /\ ~x.turns[t].drained
           /\ ~(x.turns[t].settled \/ x.turns[t].timer)
  <2> DEFINE r == [x.turns[t] EXCEPT !.timer = TRUE]
             f == [x.turns EXCEPT ![t] = r]
             E == [x EXCEPT !.turns = f]
  <2>1. RequestDrain(x, t) = E BY <1>3 DEF RequestDrain
  <2>2. x.turns \in [TurnId -> Turn] /\ x.turns[t] \in Turn BY TurnFacts
  <2>3. x.turns[t].phase = "running" BY <1>3 DEF Running
  <2>4. /\ r \in Turn
        /\ r.phase = x.turns[t].phase
        /\ r.bytes = x.turns[t].bytes
        /\ r.drained = x.turns[t].drained
        BY <2>2 DEF Turn
  <2>. HIDE DEF r
  <2>5. f \in [TurnId -> Turn] BY <2>2, <2>4
  <2>. HIDE DEF f
  <2>6. E \in State BY <2>5 DEF State
  <2>7. Flagged(x, E, t, r)
    <3>1. E.turns = f BY DEF State
    <3>. QED BY <2>6, <3>1 DEF Flagged, State, f
  <2>. HIDE DEF E
  <2>8. Core(E) BY <1>3, <2>3, <2>4, <2>7, FlaggedCore
  <2>9. E.turns[t] = r BY <2>2, <2>7 DEF Flagged
  <2>10. E.turn = t BY <1>3, <2>7 DEF Flagged
  <2>11. Running(E) BY <2>3, <2>4, <2>9, <2>10 DEF Running, TurnId, None
  <2>12. Kept(x, E) BY <2>7 DEF Flagged, Kept
  <2>. QED BY <1>3, <2>1, <2>6, <2>8, <2>10, <2>11, <2>12
<1>. QED BY <1>1, <1>2, <1>3

LEMMA AbandonTurnCore ==
    ASSUME NEW x \in State, Core(x)
    PROVE  LET y == AbandonTurn(x)
           IN  /\ y \in State
               /\ Core(y)
               /\ y.speaking = x.speaking
               /\ y.closed = x.closed
               /\ y.counter <= x.counter
               /\ ~Pending(x) => y = x
               /\ Pending(x) => y.turn = None
<1>1. CASE ~Pending(x)
  <2>1. x.counter \in Nat BY DEF State
  <2>. QED BY <1>1, <2>1 DEF AbandonTurn
<1>2. CASE Pending(x)
  <2> DEFINE t == x.turn
             f == [x.turns EXCEPT ![t] = NoTurn]
             n == x.bytes + x.turns[t].bytes
             k == x.counter - 1
             E == [x EXCEPT !.turns = f, !.bytes = n, !.counter = k,
                            !.turn = None]
  <2>1. AbandonTurn(x) = E BY <1>2 DEF AbandonTurn
  <2>2. t \in TurnId /\ x.turns[t].phase = "pending"
        BY <1>2, StateFacts DEF Pending
  <2>3. x.counter = t BY <2>2 DEF Core, OpenOk, TurnId, None
  <2>4. /\ x.turns \in [TurnId -> Turn]
        /\ x.turns[t].bytes \in Nat
        BY <2>2, TurnFacts
  <2>5. NoTurn \in Turn BY DEF NoTurn, Turn
  <2>6. /\ f \in [TurnId -> Turn]
        /\ f[t] = NoTurn
        /\ \A v \in TurnId : v # t => f[v] = x.turns[v]
        BY <2>2, <2>4, <2>5
  <2>7. /\ x.bytes \in Nat /\ x.billed \in Nat /\ x.heard \in Nat
        BY StateFacts
  <2>8. n \in Nat BY <2>4, <2>7
  <2>9. k \in 0..(MaxTurns + 1) /\ k < x.counter
        BY <2>2, <2>3, BoundsAssumption DEF TurnId
  <2>. HIDE DEF f, n, k
  <2>10. E \in State BY <2>6, <2>8, <2>9 DEF State
  <2>11. /\ E.turns = f /\ E.bytes = n /\ E.counter = k /\ E.turn = None
         /\ E.billed = x.billed /\ E.heard = x.heard
         /\ E.usages = x.usages /\ E.source = x.source
         /\ E.started = x.started /\ E.closed = x.closed
         /\ E.speaking = x.speaking
         BY DEF State
  <2>. HIDE DEF E
  <2>12. \A v \in TurnId : Entry(E, v)
    <3>. TAKE v \in TurnId
    <3>1. Entry(x, v) /\ Entry(x, t) BY <2>2 DEF Core
    <3>2. CASE v = t
      <4>1. /\ NoTurn.phase = "none" /\ ~NoTurn.timer /\ ~NoTurn.drained
            BY DEF NoTurn
      <4>2. x.usages[t] = 0 /\ x.started[t] = 0 BY <2>2, <3>1 DEF Entry
      <4>. QED BY <2>6, <2>11, <3>2, <4>1, <4>2 DEF Entry
    <3>3. CASE v # t
      <4>1. v > k => v > x.counter BY <2>2, <2>3, <2>9, <3>3 DEF TurnId, k
      <4>2. x.turns[v].phase # "pending" BY <2>3, <3>1, <3>3 DEF Entry
      <4>3. x.turns[v].phase = "running" => x.turns[v].drained
            BY <3>1, <3>3 DEF Entry
      <4>. QED BY <2>6, <2>11, <3>1, <3>3, <4>1, <4>2, <4>3 DEF Entry
    <3>. QED BY <3>2, <3>3
  <2>13. OpenOk(E) BY <2>11 DEF OpenOk
  <2>14. E.heard = E.bytes + HeldBytes(E) + E.billed
    <3>1. HeldBytes(E) = 0 BY <2>11 DEF HeldBytes
    <3>2. HeldBytes(x) = x.turns[t].bytes BY <2>2 DEF HeldBytes, TurnId, None
    <3>3. n = x.bytes + x.turns[t].bytes BY DEF n
    <3>. QED BY <2>4, <2>7, <2>11, <3>1, <3>2, <3>3 DEF Core
  <2>15. E.closed \/ E.counter <= MaxTurns
    <3>1. x.closed \/ x.counter <= MaxTurns BY DEF Core
    <3>. QED BY <2>2, <2>3, <2>9, <2>11, <3>1, BoundsAssumption DEF TurnId
  <2>16. Core(E) BY <2>10, <2>12, <2>13, <2>14, <2>15 DEF Core
  <2>17. E.counter <= x.counter
         BY <2>2, <2>3, <2>9, <2>11, BoundsAssumption DEF TurnId
  <2>. QED BY <1>2, <2>1, <2>10, <2>11, <2>16, <2>17
<1>. QED BY <1>1, <1>2

\* What interrupt() leaves: silence, and no turn but one that waits for its drain.
LEMMA InterruptCore ==
    ASSUME NEW x \in State, Core(x)
    PROVE  LET y == Interrupt(x)
           IN  /\ y \in State
               /\ Core(y)
               /\ ~y.speaking
               /\ y.closed = x.closed
               /\ y.counter <= x.counter
               /\ Running(x) => y.counter = x.counter
               /\ y.turn = None \/ Running(y)
<1> DEFINE a == AbortLlm(x)
           b == EndTts(a)
           z == IF Running(b) THEN RequestDrain(b, b.turn) ELSE AbandonTurn(b)
<1>1. a \in State /\ Books(a) = Books(x) BY AbortLlmBooks
<1>. HIDE DEF a
<1>2. b \in State /\ Books(b) = Books(x) BY <1>1, EndTtsBooks
<1>. HIDE DEF b
<1>3. Core(b) BY <1>2, SameBooks
<1>4. /\ b.turn = x.turn /\ b.turns = x.turns
      /\ b.counter = x.counter /\ b.closed = x.closed
      BY <1>2 DEF Books
<1>5. /\ z \in State
      /\ Core(z)
      /\ z.closed = x.closed
      /\ z.counter <= x.counter
      /\ Running(x) => z.counter = x.counter
      /\ z.turn = None \/ Running(z)
  <2>1. CASE Running(b)
    <3>1. b.turn \in TurnId BY <1>2, <2>1, StateFacts DEF Running
    <3>2. x.counter \in Nat BY DEF State
    <3>. QED BY <1>2, <1>3, <1>4, <2>1, <3>1, <3>2, RequestDrainCore DEF Kept
  <2>2. CASE ~Running(b)
    <3>1. ~Running(x) BY <1>4, <2>2 DEF Running
    <3>2. ~Pending(b) => b.turn = None
      <4>1. b.turn # None => b.turn \in TurnId BY <1>2, StateFacts
      <4>2. b.turn # None =>
                /\ b.turns[b.turn].phase \in {"none", "pending", "running"}
                /\ b.turns[b.turn].phase # "none"
            BY <1>2, <1>3, <4>1, TurnFacts DEF Core, OpenOk
      <4>. QED BY <2>2, <4>2 DEF Running, Pending
    <3>. QED BY <1>2, <1>3, <1>4, <2>2, <3>1, <3>2, AbandonTurnCore
  <2>. QED BY <2>1, <2>2
<1>. HIDE DEF z
<1> DEFINE y == StopSpeaking(z, x.turn)
<1>6. y \in State /\ Books(y) = Books(z) /\ ~y.speaking
      BY <1>5, StopSpeakingBooks, StateFacts
<1>7. Interrupt(x) = y BY DEF Interrupt, a, b, z
<1>. HIDE DEF y
<1>8. Core(y) BY <1>5, <1>6, SameBooks
<1>9. /\ y.turn = z.turn /\ y.turns = z.turns
      /\ y.counter = z.counter /\ y.closed = z.closed
      BY <1>6 DEF Books
<1>. QED BY <1>5, <1>6, <1>7, <1>8, <1>9 DEF Running

LEMMA ClearTurnCore ==
    ASSUME NEW x \in State, Core(x), Voice(x)
    PROVE  LET y == ClearTurn(x)
           IN  /\ y \in State
               /\ Core(y)
               /\ ~y.speaking
               /\ y.closed = x.closed
               /\ Running(x) => y.turn = None /\ y.counter = x.counter
               /\ ~Running(x) => y = x
<1>1. CASE ~Running(x)
  <2>1. ~x.speaking BY <1>1 DEF Voice
  <2>. QED BY <1>1, <2>1 DEF ClearTurn
<1>2. CASE Running(x)
  <2> DEFINE y == Interrupt(x)
  <2>1. /\ y \in State
        /\ Core(y)
        /\ ~y.speaking
        /\ y.closed = x.closed
        /\ y.counter = x.counter
        /\ y.turn = None \/ Running(y)
        BY <1>2, InterruptCore
  <2>2. ClearTurn(x) = DrainNow(y) BY <1>2 DEF ClearTurn
  <2>. HIDE DEF y
  <2>3. DrainNow(y).turn = None BY <2>1, DrainNowCore
  <2>. QED BY <1>2, <2>1, <2>2, <2>3, DrainNowCore DEF Kept
<1>. QED BY <1>1, <1>2

LEMMA OpenTurnCore ==
    ASSUME NEW x \in State, Core(x), x.turn = None, x.counter < MaxTurns
    PROVE  LET y == OpenTurn(x)
           IN  /\ y \in State
               /\ Core(y)
               /\ Pending(y)
               /\ y.speaking = x.speaking
<1> DEFINE t == x.counter + 1
           r == NewTurn(x.bytes)
           f == [x.turns EXCEPT ![t] = r]
           E == [x EXCEPT !.turns = f, !.counter = t, !.turn = t, !.bytes = 0]
<1>1. /\ x.counter \in Nat /\ x.bytes \in Nat
      /\ x.billed \in Nat /\ x.heard \in Nat
      BY DEF State
<1>2. t \in TurnId /\ t # None /\ t \in 0..(MaxTurns + 1)
      BY <1>1, BoundsAssumption DEF TurnId, None
<1>3. /\ r \in Turn
      /\ r.phase = "pending" /\ r.bytes = x.bytes
      /\ ~r.drained /\ ~r.timer
      BY <1>1 DEF NewTurn, NoTurn, Turn
<1>4. x.turns \in [TurnId -> Turn] BY <1>2, TurnFacts
<1>. HIDE DEF r
<1>5. /\ f \in [TurnId -> Turn]
      /\ f[t] = r
      /\ \A v \in TurnId : v # t => f[v] = x.turns[v]
      BY <1>2, <1>3, <1>4
<1>. HIDE DEF f
<1>6. OpenTurn(x) = E BY DEF OpenTurn, f, r
<1>7. /\ E.turns = f /\ E.counter = t /\ E.turn = t /\ E.bytes = 0
      /\ E.billed = x.billed /\ E.heard = x.heard
      /\ E.usages = x.usages /\ E.source = x.source
      /\ E.started = x.started /\ E.closed = x.closed
      /\ E.speaking = x.speaking
      BY DEF State
<1>8. E \in State
  <2> HIDE DEF t
  <2>. QED BY <1>2, <1>5 DEF State
<1>. HIDE DEF E
<1>9. \A v \in TurnId : Entry(E, v)
  <2>. TAKE v \in TurnId
  <2>1. Entry(x, v) /\ Entry(x, t) BY <1>2 DEF Core
  <2>2. CASE v = t
    <3>1. x.turns[t].phase = "none" /\ x.usages[t] = 0
          BY <1>1, <2>1 DEF Entry
    <3>2. x.started[t] = 0 BY <2>1, <3>1 DEF Entry
    <3>. QED BY <1>1, <1>3, <1>5, <1>7, <2>2, <3>1, <3>2 DEF Entry
  <2>3. CASE v # t
    <3>1. v > t => v > x.counter BY <1>1 DEF TurnId
    <3>2. v # x.turn BY DEF TurnId, None
    <3>. QED BY <1>5, <1>7, <2>1, <2>3, <3>1, <3>2 DEF Entry
  <2>. QED BY <2>2, <2>3
<1>10. OpenOk(E) BY <1>1, <1>3, <1>5, <1>7 DEF OpenOk
<1>11. E.heard = E.bytes + HeldBytes(E) + E.billed
  <2>1. HeldBytes(E) = x.bytes BY <1>2, <1>3, <1>5, <1>7 DEF HeldBytes
  <2>2. HeldBytes(x) = 0 BY DEF HeldBytes
  <2>. QED BY <1>1, <1>7, <2>1, <2>2 DEF Core
<1>12. E.counter <= MaxTurns BY <1>1, <1>7, BoundsAssumption
<1>13. Core(E) BY <1>8, <1>9, <1>10, <1>11, <1>12 DEF Core
<1>14. Pending(E) BY <1>2, <1>3, <1>5, <1>7 DEF Pending
<1>. QED BY <1>6, <1>7, <1>8, <1>13, <1>14

LEMMA BeginTurnCore ==
    ASSUME NEW x \in State, Core(x), Voice(x),
           x.counter < MaxTurns \/ Pending(x)
    PROVE  LET y == BeginTurn(x)
           IN  /\ y \in State
               /\ Core(y)
               /\ Pending(y)
               /\ ~y.speaking
<1> DEFINE y == ClearTurn(x)
<1>1. /\ y \in State
      /\ Core(y)
      /\ ~y.speaking
      /\ Running(x) => y.turn = None /\ y.counter = x.counter
      /\ ~Running(x) => y = x
      BY ClearTurnCore
<1>2. BeginTurn(x) = IF y.turn # None THEN y ELSE OpenTurn(y)
      BY DEF BeginTurn
<1>. HIDE DEF y
<1>3. CASE y.turn # None
  <2>1. y = x /\ ~Running(x) BY <1>1, <1>3
  <2>2. x.turn \in TurnId BY <1>3, <2>1, StateFacts
  <2>3. Pending(x)
    <3>1. /\ x.turns[x.turn].phase \in {"none", "pending", "running"}
          /\ x.turns[x.turn].phase # "none"
          BY <1>3, <2>1, <2>2, TurnFacts DEF Core, OpenOk
    <3>. QED BY <1>3, <2>1, <3>1 DEF Running, Pending
  <2>. QED BY <1>1, <1>2, <1>3, <2>1, <2>3
<1>4. CASE y.turn = None
  <2>1. y.counter < MaxTurns
    <3>1. CASE Running(x)
      <4>1. ~Pending(x) BY <3>1 DEF Running, Pending
      <4>. QED BY <1>1, <3>1, <4>1
    <3>2. CASE ~Running(x)
      <4>1. ~Pending(x) BY <1>1, <1>4, <3>2 DEF Pending
      <4>. QED BY <1>1, <3>2, <4>1
    <3>. QED BY <3>1, <3>2
  <2>. QED BY <1>1, <1>2, <1>4, <2>1, OpenTurnCore
<1>. QED BY <1>3, <1>4

LEMMA RunTurnCore ==
    ASSUME NEW x \in State, Core(x), Pending(x)
    PROVE  LET y == RunTurn(x) IN y \in State /\ Core(y) /\ Voice(y)
<1> DEFINE t == x.turn
           r == [x.turns[t] EXCEPT !.phase = "running"]
           f == [x.turns EXCEPT ![t] = r]
           h == Append(x.history, [role |-> "user", turn |-> t])
           g == [x.started EXCEPT ![t] = x.started[t] + 1]
           c == [x.tts EXCEPT ![t] = "opening"]
           E == [x EXCEPT !.turns = f, !.history = h, !.speaking = TRUE,
                          !.started = g, !.tts = c]
<1>1. RunTurn(x) = E BY DEF RunTurn
<1>2. t \in TurnId /\ t # None /\ x.turns[t].phase = "pending"
      BY StateFacts DEF Pending
<1>3. /\ x.turns \in [TurnId -> Turn]
      /\ x.turns[t] \in Turn
      /\ x.turns[t].bytes \in Nat
      BY <1>2, TurnFacts
<1>4. Entry(x, t) BY <1>2 DEF Core
<1>5. /\ r \in Turn
      /\ r.phase = "running"
      /\ r.bytes = x.turns[t].bytes
      /\ r.drained = x.turns[t].drained
      /\ r.timer = x.turns[t].timer
      BY <1>3 DEF Turn
<1>6. ~r.drained /\ ~r.timer /\ x.started[t] = 0 /\ x.usages[t] = 0
      BY <1>2, <1>4, <1>5 DEF Entry
<1>. HIDE DEF r
<1>7. /\ f \in [TurnId -> Turn]
      /\ f[t] = r
      /\ \A v \in TurnId : v # t => f[v] = x.turns[v]
      BY <1>2, <1>3, <1>5
<1>8. h \in Seq(Message)
  <2>1. x.history \in Seq(Message) BY DEF State
  <2>2. [role |-> "user", turn |-> t] \in Message BY <1>2 DEF Message
  <2>. QED BY <2>1, <2>2
<1>9. /\ g \in [TurnId -> Nat]
      /\ g[t] = 1
      /\ \A v \in TurnId : v # t => g[v] = x.started[v]
  <2>1. x.started \in [TurnId -> Nat] BY DEF State
  <2>. QED BY <1>2, <1>6, <2>1
<1>10. c \in [TurnId -> TtsState]
  <2>1. x.tts \in [TurnId -> TtsState] BY DEF State
  <2>. QED BY <1>2, <2>1 DEF TtsState
<1>. HIDE DEF f, h, g, c
<1>11. E \in State BY <1>7, <1>8, <1>9, <1>10 DEF State
<1>12. /\ E.turns = f /\ E.started = g /\ E.speaking
       /\ E.turn = t /\ E.counter = x.counter /\ E.closed = x.closed
       /\ E.bytes = x.bytes /\ E.billed = x.billed /\ E.heard = x.heard
       /\ E.usages = x.usages /\ E.source = x.source
       BY DEF State
<1>. HIDE DEF E
<1>13. \A v \in TurnId : Entry(E, v)
  <2>. TAKE v \in TurnId
  <2>1. Entry(x, v) BY DEF Core
  <2>2. CASE v = t
    <3>1. ~(t > x.counter) BY <1>2, <2>1, <2>2 DEF Entry
    <3>. QED BY <1>5, <1>6, <1>7, <1>9, <1>12, <2>2, <3>1 DEF Entry
  <2>3. CASE v # t BY <1>7, <1>9, <1>12, <2>1, <2>3 DEF Entry
  <2>. QED BY <2>2, <2>3
<1>14. OpenOk(E)
       BY <1>2, <1>5, <1>6, <1>7, <1>12 DEF OpenOk, Core
<1>15. HeldBytes(E) = HeldBytes(x)
       BY <1>5, <1>7, <1>12 DEF HeldBytes
<1>16. Core(E) BY <1>11, <1>12, <1>13, <1>14, <1>15 DEF Core
<1>17. Voice(E) BY <1>2, <1>5, <1>6, <1>7, <1>12 DEF Voice, Running
<1>. QED BY <1>1, <1>11, <1>16, <1>17

LEMMA FlushTailCore ==
    ASSUME NEW x \in State, Core(x), x.turn = None, x.counter <= MaxTurns,
           x.closed, ~x.speaking
    PROVE  LET y == FlushTail(x) IN y \in State /\ Core(y) /\ ~y.speaking
<1>1. CASE x.bytes < MinTail BY <1>1 DEF FlushTail
<1>2. CASE ~(x.bytes < MinTail)
  <2> DEFINE t == x.counter + 1
             u == [x.usages EXCEPT ![t] = x.usages[t] + 1]
             c == [x.source EXCEPT ![t] = "tail"]
             n == x.billed + x.bytes
             E == [x EXCEPT !.usages = u, !.source = c, !.counter = t,
                            !.billed = n, !.bytes = 0]
  <2>1. FlushTail(x) = E BY <1>2 DEF FlushTail
  <2>2. /\ x.counter \in Nat /\ x.bytes \in Nat
        /\ x.billed \in Nat /\ x.heard \in Nat
        BY DEF State
  <2>3. t \in TurnId /\ t \in 0..(MaxTurns + 1)
        BY <2>2, BoundsAssumption DEF TurnId
  <2>4. Entry(x, t) BY <2>3 DEF Core
  <2>5. x.usages[t] = 0 /\ x.turns[t].phase = "none"
        BY <2>2, <2>4 DEF Entry
  <2>6. /\ u \in [TurnId -> Nat]
        /\ u[t] = 1
        /\ \A v \in TurnId : v # t => u[v] = x.usages[v]
    <3>1. x.usages \in [TurnId -> Nat] BY DEF State
    <3>. QED BY <2>3, <2>5, <3>1
  <2>7. /\ c \in [TurnId -> {"none", "local", "vendor", "tail"}]
        /\ c[t] = "tail"
        /\ \A v \in TurnId : v # t => c[v] = x.source[v]
    <3>1. x.source \in [TurnId -> {"none", "local", "vendor", "tail"}]
          BY DEF State
    <3>. QED BY <2>3, <3>1
  <2>8. n \in Nat BY <2>2
  <2>. HIDE DEF u, c, n
  <2>9. E \in State
    <3> HIDE DEF t
    <3>. QED BY <2>3, <2>6, <2>7, <2>8 DEF State
  <2>10. /\ E.turns = x.turns /\ E.started = x.started
         /\ E.turn = None /\ E.counter = t /\ E.closed /\ ~E.speaking
         /\ E.bytes = 0 /\ E.billed = n /\ E.heard = x.heard
         /\ E.usages = u /\ E.source = c
         BY DEF State
  <2>. HIDE DEF E
  <2>11. \A v \in TurnId : Entry(E, v)
    <3>. TAKE v \in TurnId
    <3>1. Entry(x, v) BY DEF Core
    <3>2. CASE v = t
      BY <2>2, <2>5, <2>6, <2>7, <2>10, <3>1, <3>2 DEF Entry
    <3>3. CASE v # t
      <4>1. v > t => v > x.counter BY <2>2 DEF TurnId
      <4>. QED BY <2>6, <2>7, <2>10, <3>1, <3>3, <4>1 DEF Entry
    <3>. QED BY <3>2, <3>3
  <2>12. OpenOk(E) BY <2>10 DEF OpenOk
  <2>13. E.heard = E.bytes + HeldBytes(E) + E.billed
    <3>1. HeldBytes(E) = 0 /\ HeldBytes(x) = 0 BY <2>10 DEF HeldBytes
    <3>2. n = x.billed + x.bytes BY DEF n
    <3>. QED BY <2>2, <2>10, <3>1, <3>2 DEF Core
  <2>14. Core(E) BY <2>9, <2>10, <2>11, <2>12, <2>13 DEF Core
  <2>. QED BY <2>1, <2>9, <2>10, <2>14
<1>. QED BY <1>1, <1>2

-----------------------------------------------------------------------------
(* Callbacks: the chains of methods a vendor event sets off.                *)

LEMMA VoiceSame ==
    ASSUME NEW x, NEW y, Voice(x), Books(y) = Books(x),
           y.speaking = x.speaking
    PROVE  Voice(y)
BY DEF Voice, Running, Books

LEMMA SettleLlmCore ==
    ASSUME NEW x \in State, Core(x), Voice(x), NEW t \in TurnId
    PROVE  LET y == SettleLlm(x, t) IN y \in State /\ Core(y) /\ Voice(y)
<1>1. CASE x.turn # t \/ x.turns[t].settled BY <1>1 DEF SettleLlm
<1>2. CASE x.turn = t /\ ~x.turns[t].settled
  <2> DEFINE y == Settled(x, t)
             r == [x.turns[t] EXCEPT !.settled = TRUE]
  <2>1. y \in State /\ Core(y) BY SettledCore
  <2>2. Flagged(x, y, t, r) BY SettledFlag
  <2>3. x.turns \in [TurnId -> Turn] /\ x.turns[t] \in Turn BY TurnFacts
  <2>4. r.phase = x.turns[t].phase /\ r.timer = x.turns[t].timer
        BY <2>3 DEF Turn
  <2>. HIDE DEF y, r
  <2>5. y.turns[t] = r /\ y.turn = t /\ y.speaking = x.speaking
        BY <1>2, <2>2, <2>3 DEF Flagged
  <2>6. CASE x.turns[t].timer
    <3>1. x.turns[t].phase = "running" BY <2>6 DEF Core, Entry
    <3>2. ~x.speaking BY <1>2, <2>6 DEF Voice
    <3>3. LET z == EmitUsage(y, t)
          IN  z \in State /\ Core(z) /\ z.speaking = y.speaking
          BY <2>1, <2>4, <2>5, <3>1, EmitUsageCore DEF Kept
    <3>4. SettleLlm(x, t) = EmitUsage(y, t)
          BY <1>2, <2>6 DEF SettleLlm, y
    <3>. QED BY <2>5, <3>2, <3>3, <3>4 DEF Voice
  <2>7. CASE ~x.turns[t].timer
    <3>1. SettleLlm(x, t) = y BY <1>2, <2>7 DEF SettleLlm, y
    <3>2. Voice(y) BY <1>2, <2>4, <2>5 DEF Voice, Running
    <3>. QED BY <2>1, <3>1, <3>2
  <2>. QED BY <2>6, <2>7
<1>. QED BY <1>1, <1>2

LEMMA FinishTurnCore ==
    ASSUME NEW x \in State, Core(x), Voice(x), NEW t \in TurnId
    PROVE  LET y == FinishTurn(x, t) IN y \in State /\ Core(y) /\ Voice(y)
<1>1. CASE ~x.speaking \/ x.turn # t BY <1>1 DEF FinishTurn
<1>2. CASE x.speaking /\ x.turn = t
  <2> DEFINE a == AbortLlm(x)
             b == StopSpeaking(a, t)
             c == RequestDrain(b, t)
             d == EndTts(c)
  <2>1. a \in State /\ Books(a) = Books(x) BY AbortLlmBooks
  <2>. HIDE DEF a
  <2>2. b \in State /\ Books(b) = Books(x) /\ ~b.speaking
        BY <2>1, StopSpeakingBooks
  <2>. HIDE DEF b
  <2>3. Core(b) BY <2>2, SameBooks
  <2>4. Running(b) BY <1>2, <2>2 DEF Voice, Running, Books
  <2>5. c \in State /\ Core(c) /\ ~c.speaking
        BY <2>2, <2>3, <2>4, RequestDrainCore DEF Kept
  <2>. HIDE DEF c
  <2>6. d \in State /\ Books(d) = Books(c) /\ ~d.speaking
        BY <2>5, EndTtsBooks
  <2>7. FinishTurn(x, t) = d BY <1>2 DEF FinishTurn, a, b, c
  <2>. HIDE DEF d
  <2>8. Core(d) BY <2>5, <2>6, SameBooks
  <2>. QED BY <2>6, <2>7, <2>8 DEF Voice
<1>. QED BY <1>1, <1>2

LEMMA FinishEndedCore ==
    ASSUME NEW x \in State, Core(x), Voice(x), NEW t \in TurnId
    PROVE  LET y == FinishTurn(TtsIs(x, t, "ended"), t)
           IN  y \in State /\ Core(y) /\ Voice(y)
<1> DEFINE z == TtsIs(x, t, "ended")
<1>1. z \in State /\ Books(z) = Books(x) /\ z.speaking = x.speaking
      BY TtsIsBooks DEF TtsState
<1>. HIDE DEF z
<1>2. Core(z) /\ Voice(z) BY <1>1, SameBooks, VoiceSame
<1>3. LET y == FinishTurn(z, t) IN y \in State /\ Core(y) /\ Voice(y)
      BY <1>1, <1>2, FinishTurnCore
<1>. QED BY <1>3 DEF z

LEMMA FlushCore ==
    ASSUME NEW x \in State, Core(x), Voice(x)
    PROVE  LET y == Flush(x) IN y \in State /\ Core(y) /\ Voice(y)
<1> DEFINE t == x.ttsStream
<1>1. CASE t = None BY <1>1 DEF Flush
<1>2. CASE t # None
  <2>1. t \in TurnId BY <1>2 DEF State
  <2>2. LET y == FinishTurn(TtsIs(x, t, "ended"), t)
        IN  y \in State /\ Core(y) /\ Voice(y)
        BY <2>1, FinishEndedCore
  <2>3. LET y == TtsIs(x, t, "flushed")
        IN  y \in State /\ Core(y) /\ Voice(y)
    <3>1. LET y == TtsIs(x, t, "flushed")
          IN  y \in State /\ Books(y) = Books(x) /\ y.speaking = x.speaking
          BY <2>1, TtsIsBooks DEF TtsState
    <3>. QED BY <3>1, SameBooks, VoiceSame
  <2>. QED BY <1>2, <2>2, <2>3 DEF Flush
<1>. QED BY <1>1, <1>2

LEMMA OnLlmErrorCore ==
    ASSUME NEW x \in State, Core(x), Voice(x), NEW t \in TurnId
    PROVE  LET y == OnLlmError(x, t) IN y \in State /\ Core(y) /\ Voice(y)
BY SettleLlmCore, FlushCore DEF OnLlmError

LEMMA OnDoneCore ==
    ASSUME NEW x \in State, Core(x), Voice(x), NEW t \in TurnId
    PROVE  LET y == OnDone(x, t) IN y \in State /\ Core(y) /\ Voice(y)
<1>1. CASE x.turn # t BY <1>1, SettleLlmCore DEF OnDone
<1>2. CASE x.turn = t
  <2> DEFINE a == Answer(x, t)
             b == SettleLlm(a, t)
  <2>1. a \in State /\ Books(a) = Books(x) /\ a.speaking = x.speaking
        BY AnswerBooks
  <2>2. OnDone(x, t) = Flush(b) BY <1>2 DEF OnDone
  <2>. HIDE DEF a
  <2>3. Core(a) /\ Voice(a) BY <2>1, SameBooks, VoiceSame
  <2>4. b \in State /\ Core(b) /\ Voice(b) BY <2>1, <2>3, SettleLlmCore
  <2>. HIDE DEF b
  <2>. QED BY <2>2, <2>4, FlushCore
<1>. QED BY <1>1, <1>2

LEMMA ReportCore ==
    ASSUME NEW x \in State, Core(x), Voice(x), NEW t \in TurnId,
           NEW counts \in BOOLEAN
    PROVE  LET y == Report(x, t, counts) IN y \in State /\ Core(y) /\ Voice(y)
BY OnUsageCore DEF Report

-----------------------------------------------------------------------------
(* Actions: each keeps the invariant.                                       *)

LEMMA InitIInv == Init => IInv
<1>. SUFFICES ASSUME Init PROVE IInv
  OBVIOUS
<1>1. NoTurn \in Turn BY DEF NoTurn, Turn
<1>2. s \in State
  <2>1. << >> \in Seq(Message) OBVIOUS
  <2>2. 0 \in 0..(MaxTurns + 1) BY BoundsAssumption
  <2>. QED BY <1>1, <2>1, <2>2
           DEF Init, Fresh, State, TtsState, LlmState, None
<1>3. /\ s.turn = None /\ s.counter = 0 /\ s.bytes = 0 /\ s.heard = 0
      /\ s.billed = 0 /\ ~s.speaking
      /\ \A t \in TurnId :
            s.turns[t] = NoTurn /\ s.started[t] = 0 /\ s.usages[t] = 0
      BY DEF Init, Fresh
<1>4. NoTurn.phase = "none" /\ ~NoTurn.timer /\ ~NoTurn.drained
      BY DEF NoTurn
<1>5. \A t \in TurnId : Entry(s, t) BY <1>3, <1>4 DEF Entry
<1>6. Core(s)
      BY <1>2, <1>3, <1>5, BoundsAssumption DEF Core, OpenOk, HeldBytes
<1>7. Voice(s) BY <1>3 DEF Voice
<1>. QED BY <1>6, <1>7 DEF IInv

LEMMA PushAudioIInv == IInv /\ PushAudio => IInv'
<1>. SUFFICES ASSUME IInv, PushAudio PROVE IInv'
  OBVIOUS
<1> DEFINE m == s.bytes + 1
           n == s.heard + 1
           E == [s EXCEPT !.bytes = m, !.heard = n]
<1>1. s \in State /\ Core(s) /\ Voice(s) BY DEF IInv, Core
<1>2. s.bytes \in Nat /\ s.heard \in Nat /\ s.billed \in Nat
      BY <1>1, StateFacts
<1>3. m \in Nat /\ n \in Nat BY <1>2
<1>. HIDE DEF m, n
<1>12. E \in State BY <1>1, <1>3 DEF State
<1>4. /\ E.closed = s.closed /\ E.counter = s.counter /\ E.turn = s.turn
      /\ E.turns = s.turns /\ E.started = s.started /\ E.usages = s.usages
      /\ E.source = s.source /\ E.billed = s.billed
      /\ E.speaking = s.speaking
      /\ E.bytes = m /\ E.heard = n
      BY <1>1 DEF State
<1>5. s' = E BY DEF PushAudio, m, n
<1>. HIDE DEF E
<1>6. \A t \in TurnId : Entry(E, t) BY <1>1, <1>4 DEF Core, Entry
<1>7. OpenOk(E) BY <1>1, <1>4 DEF Core, OpenOk
<1>8. HeldBytes(s) \in Nat
  <2>1. s.turn # None => s.turn \in TurnId BY <1>1, StateFacts
  <2>. QED BY <1>1, <2>1, TurnFacts DEF HeldBytes
<1>9. E.heard = E.bytes + HeldBytes(E) + E.billed
  <2>1. HeldBytes(E) = HeldBytes(s) BY <1>4 DEF HeldBytes
  <2>. QED BY <1>1, <1>2, <1>4, <1>8, <2>1 DEF Core, m, n
<1>10. Core(E) BY <1>1, <1>12, <1>4, <1>6, <1>7, <1>9 DEF Core
<1>11. Voice(E) BY <1>1, <1>4 DEF Voice, Running
<1>. QED BY <1>5, <1>10, <1>11 DEF IInv

LEMMA BeginIInv == IInv /\ IdLeft /\ s' = BeginTurn(s) => IInv'
BY BeginTurnCore DEF IInv, IdLeft, Core, Voice

LEMMA BeginRunIInv == IInv /\ IdLeft /\ s' = RunTurn(BeginTurn(s)) => IInv'
<1>. SUFFICES ASSUME IInv, IdLeft, s' = RunTurn(BeginTurn(s)) PROVE IInv'
  OBVIOUS
<1> DEFINE y == BeginTurn(s)
<1>1. y \in State /\ Core(y) /\ Pending(y)
      BY BeginTurnCore DEF IInv, IdLeft, Core
<1>. HIDE DEF y
<1>2. Core(RunTurn(y)) /\ Voice(RunTurn(y)) BY <1>1, RunTurnCore
<1>. QED BY <1>2 DEF IInv, y

LEMMA InterruptIInv == IInv /\ s' = Interrupt(s) => IInv'
BY InterruptCore DEF IInv, Core, Voice

LEMMA CloseIInv == IInv /\ Close => IInv'
<1>. SUFFICES ASSUME IInv, Close PROVE IInv'
  OBVIOUS
<1> DEFINE a == [s EXCEPT !.closed = TRUE]
           b == Interrupt(a)
           c == DrainNow(b)
           d == FlushTail(c)
           o == d.sttOpen /\ ~s.stt
           E == [d EXCEPT !.stt = FALSE, !.sttOpen = o]
<1>1. s \in State /\ Core(s) /\ Voice(s) /\ ~s.closed
      BY DEF IInv, Core, Close, InUse
<1>2. a \in State BY <1>1 DEF State
<1>3. /\ a.counter = s.counter /\ a.turn = s.turn /\ a.turns = s.turns
      /\ a.bytes = s.bytes /\ a.heard = s.heard /\ a.billed = s.billed
      /\ a.started = s.started /\ a.usages = s.usages
      /\ a.source = s.source /\ a.closed
      BY <1>1 DEF State
<1>. HIDE DEF a
<1>4. Core(a)
  <2>1. \A t \in TurnId : Entry(a, t) BY <1>1, <1>3 DEF Core, Entry
  <2>. QED BY <1>1, <1>2, <1>3, <2>1 DEF Core, OpenOk, HeldBytes
<1>5. /\ b \in State /\ Core(b) /\ ~b.speaking /\ b.closed
      /\ b.counter <= a.counter
      /\ b.turn = None \/ Running(b)
      BY <1>2, <1>3, <1>4, InterruptCore
<1>. HIDE DEF b
<1>6. /\ c \in State /\ Core(c) /\ ~c.speaking /\ c.closed
      /\ c.counter = b.counter /\ c.turn = None
      BY <1>5, DrainNowCore DEF Kept
<1>. HIDE DEF c
<1>7. c.counter <= MaxTurns
  <2>1. s.counter <= MaxTurns BY <1>1 DEF Core
  <2>2. s.counter \in Nat /\ b.counter \in Nat
        BY <1>1, <1>5, StateFacts
  <2>. QED BY <1>3, <1>5, <1>6, <2>1, <2>2, BoundsAssumption
<1>8. d \in State /\ Core(d) /\ ~d.speaking BY <1>6, <1>7, FlushTailCore
<1>. HIDE DEF d
<1>9. E \in State /\ Books(E) = Books(d) /\ ~E.speaking
  <2>1. o \in BOOLEAN OBVIOUS
  <2>. HIDE DEF o
  <2>. QED BY <1>8, <2>1 DEF State, Books
<1>10. s' = E BY DEF Close, CloseSession, a, b, c, d, o
<1>. HIDE DEF E, o
<1>11. Core(E) BY <1>8, <1>9, SameBooks
<1>. QED BY <1>9, <1>10, <1>11 DEF IInv, Voice

LEMMA SttIInv == IInv /\ Stt => IInv'
<1>. SUFFICES ASSUME IInv, Stt PROVE IInv'
  OBVIOUS
<1>1. s \in State /\ Core(s) /\ Voice(s) BY DEF IInv, Core
<1>2. CASE StartResolves
  <2> DEFINE E == [s EXCEPT !.starting = "ready", !.stt = TRUE,
                            !.sttOpen = TRUE]
  <2>1. E \in State /\ Books(E) = Books(s) /\ E.speaking = s.speaking
        BY <1>1 DEF State, Books
  <2>2. s' = E BY <1>2 DEF StartResolves
  <2>. HIDE DEF E
  <2>. QED BY <1>1, <2>1, <2>2, SameBooks, VoiceSame DEF IInv
<1>3. CASE StartRejects
  <2> DEFINE E == [s EXCEPT !.starting = "failed"]
  <2>1. E \in State /\ Books(E) = Books(s) /\ E.speaking = s.speaking
        BY <1>1 DEF State, Books
  <2>2. s' = E BY <1>3 DEF StartRejects
  <2>. HIDE DEF E
  <2>. QED BY <1>1, <2>1, <2>2, SameBooks, VoiceSame DEF IInv
<1>4. CASE SttPartial BY <1>4, InterruptIInv DEF SttPartial, IInv
<1>5. CASE SttSpeechEnd BY <1>5, BeginIInv DEF SttSpeechEnd
<1>6. CASE SttSilence
  <2>1. LET y == AbandonTurn(s) IN Core(y) /\ y.speaking = s.speaking
                                   /\ (~Pending(s) => y = s)
        BY <1>1, AbandonTurnCore
  <2>2. Pending(s) => ~s.speaking BY <1>1 DEF Voice, Pending, Running
  <2>. QED BY <1>1, <1>6, <2>1, <2>2 DEF SttSilence, IInv, Voice
<1>7. CASE SttFinal BY <1>7, BeginRunIInv DEF SttFinal
<1>. QED BY <1>2, <1>3, <1>4, <1>5, <1>6, <1>7 DEF Stt

LEMMA TtsIInv == \A t \in TurnId : IInv /\ Tts(t) => IInv'
<1>. SUFFICES ASSUME NEW t \in TurnId, IInv, Tts(t) PROVE IInv'
  OBVIOUS
<1>1. s \in State /\ Core(s) /\ Voice(s) BY DEF IInv, Core
<1>2. LET y == TtsIs(s, t, "ended") IN y \in State /\ Core(y) /\ Voice(y)
      BY <1>1, TtsIsBooks, SameBooks, VoiceSame DEF TtsState
<1>3. LET y == HoldTts(s, t) IN y \in State /\ Core(y) /\ Voice(y)
      BY <1>1, HoldTtsBooks, SameBooks, VoiceSame
<1>4. LET y == StartLlm(HoldTts(s, t), t) IN Core(y) /\ Voice(y)
      BY <1>3, StartLlmBooks, SameBooks, VoiceSame
<1>5. CASE TtsOpened(t)
  <2>1. LET y == SettleLlm(TtsIs(s, t, "ended"), t) IN Core(y) /\ Voice(y)
        BY <1>2, SettleLlmCore
  <2>. QED BY <1>4, <1>5, <2>1 DEF TtsOpened, IInv
<1>6. LET y == FinishTurn(TtsIs(s, t, "ended"), t) IN Core(y) /\ Voice(y)
      BY <1>1, FinishEndedCore
<1>7. CASE TtsRefused(t) BY <1>6, <1>7 DEF TtsRefused, IInv
<1>8. CASE LlmThrows(t)
  BY <1>3, <1>8, FinishTurnCore DEF LlmThrows, IInv
<1>9. CASE TtsEnds(t) BY <1>6, <1>9 DEF TtsEnds, IInv
<1>. QED BY <1>5, <1>7, <1>8, <1>9 DEF Tts

LEMMA LlmIInv == \A t \in TurnId : IInv /\ Llm(t) => IInv'
<1>. SUFFICES ASSUME NEW t \in TurnId, IInv, Llm(t) PROVE IInv'
  OBVIOUS
<1> DEFINE Good(y) == y \in State /\ Core(y) /\ Voice(y)
<1>1. s \in State /\ Core(s) /\ Voice(s) BY DEF IInv, Core
<1>2. Good(EndLlm(t))
      BY <1>1, LlmIsBooks, SameBooks, VoiceSame DEF EndLlm, LlmState
<1>3. Good(LlmIs(s, t, "stopped")) /\ Good(LlmIs(s, t, "broken"))
      BY <1>1, LlmIsBooks, SameBooks, VoiceSame DEF LlmState
<1>4. CASE LlmDelta(t)
  <2> DEFINE f == [s.said EXCEPT ![s.ttsStream] = TRUE]
             E == [s EXCEPT !.said = f]
  <2>1. s.ttsStream \in TurnId BY <1>1, <1>4 DEF LlmDelta, State
  <2>2. f \in [TurnId -> BOOLEAN] BY <1>1, <2>1 DEF State
  <2>3. s' = E BY <1>4 DEF LlmDelta
  <2>. HIDE DEF f
  <2>4. E \in State /\ Books(E) = Books(s) /\ E.speaking = s.speaking
        BY <1>1, <2>2 DEF State, Books
  <2>. HIDE DEF E
  <2>. QED BY <1>1, <2>3, <2>4, SameBooks, VoiceSame DEF IInv
<1>5. CASE LlmCompletes(t)
  <2>1. PICK counts \in BOOLEAN : s' = OnDone(Report(EndLlm(t), t, counts), t)
        BY <1>5 DEF LlmCompletes
  <2>2. Good(Report(EndLlm(t), t, counts)) BY <1>2, ReportCore
  <2>3. Good(OnDone(Report(EndLlm(t), t, counts), t)) BY <2>2, OnDoneCore
  <2>. QED BY <2>1, <2>3 DEF IInv
<1>6. ASSUME NEW counts \in BOOLEAN, s' = CountsThenError(t, counts) PROVE IInv'
  <2>1. Good(Report(EndLlm(t), t, counts)) BY <1>2, ReportCore
  <2>2. Good(OnLlmError(Report(EndLlm(t), t, counts), t))
        BY <2>1, OnLlmErrorCore
  <2>. QED BY <1>6, <2>2, OnDoneCore DEF CountsThenError, IInv
<1>7. ASSUME NEW counts \in BOOLEAN, s' = ErrorThenCounts(t, counts) PROVE IInv'
  <2> DEFINE o == OnLlmError(LlmIs(s, t, "broken"), t)
  <2>1. Good(o) BY <1>3, OnLlmErrorCore
  <2>2. Good(Report(o, t, counts)) BY <2>1, ReportCore
  <2>. QED BY <1>7, <2>2, OnDoneCore DEF ErrorThenCounts, IInv
<1>8. CASE LlmFails(t) BY <1>6, <1>7, <1>8 DEF LlmFails
<1>9. CASE LlmStopsEarly(t)
  <2>1. Good(OnLlmError(LlmIs(s, t, "stopped"), t)) BY <1>3, OnLlmErrorCore
  <2>. QED BY <1>6, <1>9, <2>1 DEF LlmStopsEarly, IInv
<1>10. CASE LlmUnconfigured(t)
  BY <1>2, <1>10, OnLlmErrorCore DEF LlmUnconfigured, IInv
<1>. QED BY <1>4, <1>5, <1>8, <1>9, <1>10 DEF Llm

LEMMA DrainTimeoutIInv == \A t \in TurnId : IInv /\ DrainTimeout(t) => IInv'
<1>. SUFFICES ASSUME NEW t \in TurnId, IInv, DrainTimeout(t) PROVE IInv'
  OBVIOUS
<1>1. s \in State /\ Core(s) /\ Voice(s) BY DEF IInv, Core
<1>2. s.turns[t].phase = "running" /\ ~s.turns[t].drained
      BY <1>1 DEF DrainTimeout, Core, Entry
<1>3. s.turn = t BY <1>1, <1>2 DEF Core, Entry
<1>4. ~s.speaking BY <1>1, <1>3 DEF DrainTimeout, Voice
<1>5. LET y == EmitUsage(s, t) IN Core(y) /\ y.speaking = s.speaking
      BY <1>1, <1>2, EmitUsageCore DEF Kept
<1>. QED BY <1>4, <1>5 DEF DrainTimeout, IInv, Voice

LEMMA StepIInv == IInv /\ [Next]_s => IInv'
<1>. SUFFICES ASSUME IInv, [Next]_s PROVE IInv'
  OBVIOUS
<1>1. CASE Client
  <2>1. CASE PushAudio BY <2>1, PushAudioIInv
  <2>2. CASE CommitAudio BY <2>2, BeginIInv DEF CommitAudio
  <2>3. CASE SendText BY <2>3, BeginRunIInv DEF SendText
  <2>4. CASE ClientInterrupt BY <2>4, InterruptIInv DEF ClientInterrupt
  <2>5. CASE Close BY <2>5, CloseIInv
  <2>. QED BY <1>1, <2>1, <2>2, <2>3, <2>4, <2>5 DEF Client
<1>2. CASE Stt BY <1>2, SttIInv
<1>3. CASE \E t \in TurnId : Tts(t) \/ Llm(t) \/ DrainTimeout(t)
  BY <1>3, TtsIInv, LlmIInv, DrainTimeoutIInv
<1>4. CASE UNCHANGED s BY <1>4 DEF IInv
<1>. QED BY <1>1, <1>2, <1>3, <1>4 DEF Next

-----------------------------------------------------------------------------
(* Theorems                                                                 *)

\* The inductive invariant: the books are in order in every reachable state.
THEOREM Invariance == Spec => []IInv
<1>1. Init => IInv BY InitIInv
<1>2. IInv /\ [Next]_s => IInv' BY StepIInv
<1>. QED BY <1>1, <1>2, PTL DEF Spec

\* The session object keeps its type: in particular turnCounter, which abandoned
\* turns count back down, never leaves the range of ids.
THEOREM TypeCorrect == Spec => []TypeOK
<1>1. IInv => TypeOK BY DEF IInv, Core, TypeOK
<1>. QED BY <1>1, Invariance, PTL

\* Audio sent to the STT vendor is waiting, held by the open turn or billed.
THEOREM AudioIsConserved == Spec => []AudioConserved
<1>1. IInv => AudioConserved BY DEF IInv, Core, AudioConserved
<1>. QED BY <1>1, Invariance, PTL

\* Every turn that ran is billed once, unless it is still the open turn.
THEOREM TurnsAreBilledOnce == Spec => []BilledOnce
<1>1. IInv => BilledOnce
  <2>. SUFFICES ASSUME IInv, NEW t \in TurnId
       PROVE  /\ s.usages[t] <= 1
              /\ s.usages[t] = 1 =>
                    (s.started[t] = 1 <=> s.source[t] # "tail")
              /\ s.started[t] > 0 /\ s.usages[t] = 0 => s.turn = t
    BY DEF BilledOnce
  <2>1. s \in State /\ Entry(s, t) BY DEF IInv, Core
  <2>2. s.turns[t].phase \in {"none", "pending", "running"}
        BY <2>1, TurnFacts
  <2>. QED BY <2>1, <2>2 DEF Entry
<1>. QED BY <1>1, Invariance, PTL

-----------------------------------------------------------------------------
(* 2. Voice, on top of the books.  Lines, Events, Talk and Counts are         *)
(* invariants of every method by itself, except for the few that interrupt()  *)
(* and finishTurn() call in a row: what those do together is Hush.  Methods   *)
(* that only bill are Meter.                                                  *)

\* What an LLM's stream is left in, its error before its counts or not.
Over == {"broken", "ended"}

\* The session holds one pair of streams, for the turn that speaks; a live stream
\* is one it holds; and an id has vendor streams only once its turn has run.
Lines(x) ==
    /\ x.llmHandle \in {None, x.ttsStream}
    /\ x.ttsStream # None =>
           /\ x.speaking
           /\ x.turn = x.ttsStream
           /\ x.tts[x.ttsStream] \in {"open", "flushed", "ended"}
    /\ \A t \in TurnId :
        /\ x.tts[t] \in {"open", "flushed"} => x.ttsStream = t
        /\ x.llm[t] \in {"live", "stopped"} => x.llmHandle = t
        /\ x.tts[t] = "opening" => x.llm[t] = "none"
        /\ x.turns[t].phase # "running" =>
               x.tts[t] = "none" /\ x.llm[t] = "none" /\ ~x.reported[t]
        /\ ~AbortedLlmReports /\ x.tts[t] = "flushed" => x.llm[t] # "live"

\* Every turn that started has ended, but for the one that speaks.
Events(x) ==
    /\ x.ended[None] = 0
    /\ \A t \in TurnId :
          x.ended[t] = IF x.speaking /\ x.turn = t THEN 0 ELSE x.started[t]

Question(t) == [role |-> "user", turn |-> t]

Coherent(h) ==
    \A i \in 1..Len(h) :
        h[i].role = "assistant" => i > 1 /\ h[i - 1] = Question(h[i].turn)

\* While the open turn's LLM has not ended, its question is the last word.
Talk(x) ==
    /\ Coherent(x.history)
    /\ Running(x) /\ x.llm[x.turn] \notin Over =>
           /\ Len(x.history) > 0
           /\ x.history[Len(x.history)] = Question(x.turn)

\* Of LLMs that do not raise an error before their counts, nor report aborted.
Counts(x) ==
    ~AbortedLlmReports =>
        \A t \in TurnId :
            x.reported[t] /\ x.llm[t] # "broken" =>
                /\ x.turns[t].vendor
                /\ x.usages[t] > 0 => x.source[t] = "vendor"

Side(x) == Lines(x) /\ Events(x) /\ Talk(x) /\ Counts(x)

\* A stream is heard only when start() has resolved, and not after close().
Shut(x) ==
    /\ x.sttOpen = x.stt
    /\ x.starting # "ready" => ~x.stt /\ x.heard = 0
    /\ x.closed =>
           /\ x.turn = None
           /\ x.bytes < MinTail
           /\ x.stt => x.heard = 0

VInv == IInv /\ Side(s) /\ Shut(s)

-----------------------------------------------------------------------------
(* What each method changes.                                                *)

\* What no method that only bills or drains touches.
Wires(x) ==
    <<x.starting, x.closed, x.stt, x.sttOpen, x.heard, x.ttsStream, x.llmHandle,
      x.tts, x.said, x.llm, x.history, x.ended, x.started, x.reported, x.speaking>>

\* A turn that runs keeps running, and is billed from its own counts; the open turn
\* may be closed, which is billed if it ran, and forgotten if it did not.
TurnsKept(x, y) ==
    /\ y.turn \in {x.turn, None}
    /\ y.billed >= x.billed
    /\ y.turn = x.turn \/ ~Running(x) => y.billed = x.billed
    /\ \A t \in TurnId :
        /\ y.turns[t].phase = "running" <=> x.turns[t].phase = "running"
        /\ x.turns[t].phase = "running" => y.turns[t].vendor = x.turns[t].vendor
        /\ \/ y.usages[t] = x.usages[t] /\ y.source[t] = x.source[t]
           \/ /\ x.turns[t].phase = "running"
              /\ y.source[t] = IF x.turns[t].vendor THEN "vendor" ELSE "local"

Meter(x, y) == Wires(y) = Wires(x) /\ TurnsKept(x, y)

\* What interrupt() and finishTurn() do: both streams are cut, and the turn that
\* spoke has ended.
Hush(x, y) ==
    /\ y.ttsStream = None /\ y.llmHandle = None /\ ~y.speaking
    /\ \A t \in TurnId :
        /\ y.tts[t] = IF t = x.ttsStream THEN "ended" ELSE x.tts[t]
        /\ y.llm[t] = IF t = x.llmHandle /\ x.llm[t] \notin Over THEN "aborted"
                      ELSE x.llm[t]
    /\ \A t \in TurnId \cup {None} :
          y.ended[t] = IF x.speaking /\ t = x.turn THEN x.ended[t] + 1
                       ELSE x.ended[t]
    /\ <<y.starting, y.closed, y.stt, y.sttOpen, y.heard, y.history, y.started,
         y.reported>>
         = <<x.starting, x.closed, x.stt, x.sttOpen, x.heard, x.history, x.started,
             x.reported>>
    /\ TurnsKept(x, y)

LEMMA WireFacts ==
    ASSUME NEW x \in State
    PROVE  /\ x.starting \in {"opening", "ready", "failed"}
           /\ x.stt \in BOOLEAN /\ x.sttOpen \in BOOLEAN
           /\ x.ttsStream \in TurnId \cup {None}
           /\ x.llmHandle \in TurnId \cup {None}
           /\ x.tts \in [TurnId -> TtsState]
           /\ x.said \in [TurnId -> BOOLEAN]
           /\ x.llm \in [TurnId -> LlmState]
           /\ x.history \in Seq(Message)
           /\ x.ended \in [TurnId \cup {None} -> Nat]
           /\ x.reported \in [TurnId -> BOOLEAN]
           /\ x.speaking \in BOOLEAN
           /\ None \notin TurnId
BY DEF State, TurnId, None

LEMMA EmitUsageMeter ==
    ASSUME NEW x \in State, NEW t \in TurnId, x.turns[t].phase = "running",
           x.turn = t
    PROVE  Meter(x, EmitUsage(x, t))
<1>1. CASE x.turns[t].drained
  BY <1>1, StateFacts DEF EmitUsage, Meter, TurnsKept
<1>2. CASE ~x.turns[t].drained
  <2> DEFINE r == Drained(x.turns[t])
             f == [x.turns EXCEPT ![t] = r]
             u == [x.usages EXCEPT ![t] = x.usages[t] + 1]
             w == IF x.turns[t].vendor THEN "vendor" ELSE "local"
             c == [x.source EXCEPT ![t] = w]
             n == x.billed + x.turns[t].bytes
             k == IF x.turn = t THEN None ELSE x.turn
             E == [x EXCEPT !.turns = f, !.turn = k, !.billed = n,
                            !.usages = u, !.source = c]
  <2>1. EmitUsage(x, t) = E BY <1>2 DEF EmitUsage
  <2>2. x.turns \in [TurnId -> Turn] /\ x.turns[t] \in Turn BY TurnFacts
  <2>3. r.phase = x.turns[t].phase /\ r.vendor = x.turns[t].vendor
        BY <2>2 DEF Drained, Turn
  <2>4. /\ x.usages \in [TurnId -> Nat]
        /\ x.source \in [TurnId -> {"none", "local", "vendor", "tail"}]
        BY StateFacts
  <2>5. k = None /\ t # None /\ Running(x) BY DEF Running, TurnId, None
  <2>5a. n >= x.billed BY TurnFacts, StateFacts
  <2>. HIDE DEF r
  <2>6. f[t] = r /\ \A v \in TurnId : v # t => f[v] = x.turns[v] BY <2>2
  <2>7. /\ c[t] = w
        /\ \A v \in TurnId : v # t => c[v] = x.source[v] /\ u[v] = x.usages[v]
        BY <2>4
  <2>. HIDE DEF f, u, c, n, k
  <2>8. /\ Wires(E) = Wires(x)
        /\ E.turns = f /\ E.turn = k /\ E.usages = u /\ E.source = c
        /\ E.billed = n
        BY DEF State, Wires
  <2>. HIDE DEF E
  <2>9. TurnsKept(x, E)
        BY <2>3, <2>5, <2>5a, <2>6, <2>7, <2>8 DEF TurnsKept
  <2>. QED BY <2>1, <2>8, <2>9 DEF Meter
<1>. QED BY <1>1, <1>2

\* Setting one of a turn's flags bills nothing.
LEMMA FlagMeter ==
    ASSUME NEW x \in State, NEW t \in TurnId, NEW r,
           r.phase = x.turns[t].phase, r.vendor = x.turns[t].vendor
    PROVE  Meter(x, [x EXCEPT !.turns = [x.turns EXCEPT ![t] = r]])
<1> DEFINE f == [x.turns EXCEPT ![t] = r]
           E == [x EXCEPT !.turns = f]
<1>1. x.turns \in [TurnId -> Turn] BY TurnFacts
<1>2. f[t] = r /\ \A v \in TurnId : v # t => f[v] = x.turns[v] BY <1>1
<1>. HIDE DEF f
<1>3. /\ Wires(E) = Wires(x)
      /\ E.turns = f /\ E.turn = x.turn /\ E.usages = x.usages
      /\ E.source = x.source /\ E.billed = x.billed
      BY DEF State, Wires
<1>. HIDE DEF E
<1>4. Meter(x, E) BY <1>2, <1>3, StateFacts DEF Meter, TurnsKept
<1>. QED BY <1>4 DEF E, f

LEMMA RequestDrainMeter ==
    ASSUME NEW x \in State, NEW t \in TurnId, x.turn = t => Running(x)
    PROVE  Meter(x, RequestDrain(x, t))
<1>1. CASE x.turn # t \/ x.turns[t].drained
  BY <1>1, StateFacts DEF RequestDrain, Meter, TurnsKept
<1>2. CASE x.turn = t /\ ~x.turns[t].drained
  <2> DEFINE r == [x.turns[t] EXCEPT !.timer = TRUE]
  <2>1. x.turns[t].phase = "running" BY <1>2 DEF Running
  <2>2. x.turns[t] \in Turn BY TurnFacts
  <2>3. r.phase = x.turns[t].phase /\ r.vendor = x.turns[t].vendor
        BY <2>2 DEF Turn
  <2>. HIDE DEF r
  <2>4. Meter(x, [x EXCEPT !.turns = [x.turns EXCEPT ![t] = r]])
        BY <2>3, FlagMeter
  <2>5. Meter(x, EmitUsage(x, t)) BY <1>2, <2>1, EmitUsageMeter
  <2>. QED BY <1>2, <2>4, <2>5 DEF RequestDrain, r
<1>. QED BY <1>1, <1>2

LEMMA DrainNowMeter ==
    ASSUME NEW x \in State
    PROVE  Meter(x, DrainNow(x))
<1>1. CASE ~Running(x) BY <1>1, StateFacts DEF DrainNow, Meter, TurnsKept
<1>2. CASE Running(x)
  <2>1. x.turn \in TurnId BY <1>2, StateFacts DEF Running
  <2>. QED BY <1>2, <2>1, EmitUsageMeter DEF DrainNow, Running
<1>. QED BY <1>1, <1>2

LEMMA SettleLlmMeter ==
    ASSUME NEW x \in State, Core(x), NEW t \in TurnId
    PROVE  Meter(x, SettleLlm(x, t))
<1>1. CASE x.turn # t \/ x.turns[t].settled
  BY <1>1, StateFacts DEF SettleLlm, Meter, TurnsKept
<1>2. CASE x.turn = t /\ ~x.turns[t].settled
  <2> DEFINE r == [x.turns[t] EXCEPT !.settled = TRUE]
             z == Settled(x, t)
  <2>1. x.turns[t] \in Turn BY TurnFacts
  <2>2. r.phase = x.turns[t].phase /\ r.vendor = x.turns[t].vendor
        BY <2>1 DEF Turn
  <2>. HIDE DEF r
  <2>3. Meter(x, z) BY <2>2, FlagMeter DEF Settled, r
  <2>3a. z.turn = x.turn /\ z.billed = x.billed BY SettledFlag DEF Flagged
  <2>4. z \in State /\ z.turns[t].phase = x.turns[t].phase BY SettledCore
  <2>. HIDE DEF z
  <2>5. ASSUME x.turns[t].timer PROVE Meter(x, EmitUsage(z, t))
    <3>1. x.turns[t].phase = "running" BY <2>5 DEF Core, Entry
    <3>2. Meter(z, EmitUsage(z, t))
          BY <1>2, <2>3a, <2>4, <3>1, EmitUsageMeter
    <3>3. Running(x) BY <1>2, <3>1 DEF Running, TurnId, None
    <3>. QED BY <1>2, <2>3, <2>3a, <3>2, <3>3 DEF Meter, TurnsKept
  <2>. QED BY <1>2, <2>3, <2>5 DEF SettleLlm, z
<1>. QED BY <1>1, <1>2

LEMMA AbandonTurnMeter ==
    ASSUME NEW x \in State
    PROVE  Meter(x, AbandonTurn(x))
<1>1. CASE ~Pending(x) BY <1>1, StateFacts DEF AbandonTurn, Meter, TurnsKept
<1>2. CASE Pending(x)
  <2> DEFINE t == x.turn
             f == [x.turns EXCEPT ![t] = NoTurn]
             b == x.bytes + x.turns[t].bytes
             n == x.counter - 1
             E == [x EXCEPT !.turns = f, !.bytes = b, !.counter = n, !.turn = None]
  <2>1. t \in TurnId /\ x.turns[t].phase = "pending"
        BY <1>2, StateFacts DEF Pending
  <2>2. x.turns \in [TurnId -> Turn] BY <2>1, TurnFacts
  <2>3. f[t] = NoTurn /\ \A v \in TurnId : v # t => f[v] = x.turns[v]
        BY <2>1, <2>2
  <2>4. NoTurn.phase = "none" BY DEF NoTurn
  <2>5. AbandonTurn(x) = E BY <1>2 DEF AbandonTurn
  <2>. HIDE DEF f, b, n
  <2>6. /\ Wires(E) = Wires(x)
        /\ E.turns = f /\ E.turn = None /\ E.usages = x.usages
        /\ E.source = x.source /\ E.billed = x.billed
        BY DEF State, Wires
  <2>. HIDE DEF E
  <2>. QED BY <2>1, <2>3, <2>4, <2>5, <2>6, StateFacts DEF Meter, TurnsKept
<1>. QED BY <1>1, <1>2

-----------------------------------------------------------------------------
(* interrupt() and finishTurn(): both streams are cut.                      *)

\* Who may call in, and what a turn is billed from.
Doors(x) == <<x.starting, x.closed, x.stt, x.sttOpen, x.heard>>
Pages(x) ==
    <<x.turn, x.turns, x.usages, x.source, x.started, x.reported, x.billed>>

LEMMA AbortLlmEffect ==
    ASSUME NEW x \in State
    PROVE  LET y == AbortLlm(x)
           IN  /\ y.llmHandle = None
               /\ \A t \in TurnId :
                     y.llm[t] = IF t = x.llmHandle /\ x.llm[t] \notin Over
                                THEN "aborted" ELSE x.llm[t]
               /\ Doors(y) = Doors(x) /\ Pages(y) = Pages(x)
               /\ y.ttsStream = x.ttsStream /\ y.tts = x.tts
               /\ y.history = x.history /\ y.ended = x.ended
               /\ y.speaking = x.speaking
<1>0. None \notin TurnId BY WireFacts
<1>1. CASE x.llmHandle = None BY <1>0, <1>1 DEF AbortLlm
<1>2. CASE x.llmHandle # None
  <2> DEFINE f == [x.llm EXCEPT ![x.llmHandle] =
                      IF @ \in {"broken", "ended"} THEN @ ELSE "aborted"]
             E == [x EXCEPT !.llm = f, !.llmHandle = None]
  <2>1. x.llm \in [TurnId -> LlmState] BY WireFacts
  <2>2. \A t \in TurnId :
           f[t] = IF t = x.llmHandle /\ x.llm[t] \notin Over
                  THEN "aborted" ELSE x.llm[t]
        BY <2>1 DEF Over
  <2>3. AbortLlm(x) = E BY <1>2 DEF AbortLlm
  <2>. HIDE DEF f
  <2>4. E.llm = f BY DEF State
  <2>5. /\ E.llmHandle = None
        /\ Doors(E) = Doors(x) /\ Pages(E) = Pages(x)
        /\ E.ttsStream = x.ttsStream /\ E.tts = x.tts
        /\ E.history = x.history /\ E.ended = x.ended
        /\ E.speaking = x.speaking
        BY DEF State, Doors, Pages
  <2>. HIDE DEF E
  <2>. QED BY <2>2, <2>3, <2>4, <2>5
<1>. QED BY <1>1, <1>2

LEMMA EndTtsEffect ==
    ASSUME NEW x \in State
    PROVE  LET y == EndTts(x)
           IN  /\ y.ttsStream = None
               /\ \A t \in TurnId :
                     y.tts[t] = IF t = x.ttsStream THEN "ended" ELSE x.tts[t]
               /\ Doors(y) = Doors(x) /\ Pages(y) = Pages(x)
               /\ y.llmHandle = x.llmHandle /\ y.llm = x.llm
               /\ y.history = x.history /\ y.ended = x.ended
               /\ y.speaking = x.speaking
<1>0. None \notin TurnId BY WireFacts
<1>1. CASE x.ttsStream = None BY <1>0, <1>1 DEF EndTts
<1>2. CASE x.ttsStream # None
  <2> DEFINE f == [x.tts EXCEPT ![x.ttsStream] = "ended"]
             E == [x EXCEPT !.tts = f, !.ttsStream = None]
  <2>1. x.tts \in [TurnId -> TtsState] BY WireFacts
  <2>2. \A t \in TurnId :
           f[t] = IF t = x.ttsStream THEN "ended" ELSE x.tts[t]
        BY <2>1
  <2>3. EndTts(x) = E BY <1>2 DEF EndTts
  <2>. HIDE DEF f
  <2>4. E.tts = f BY DEF State
  <2>5. /\ E.ttsStream = None
        /\ Doors(E) = Doors(x) /\ Pages(E) = Pages(x)
        /\ E.llmHandle = x.llmHandle /\ E.llm = x.llm
        /\ E.history = x.history /\ E.ended = x.ended
        /\ E.speaking = x.speaking
        BY DEF State, Doors, Pages
  <2>. HIDE DEF E
  <2>. QED BY <2>2, <2>3, <2>4, <2>5
<1>. QED BY <1>1, <1>2

LEMMA StopSpeakingEffect ==
    ASSUME NEW x \in State, NEW t \in TurnId \cup {None}
    PROVE  LET y == StopSpeaking(x, t)
           IN  /\ ~y.speaking
               /\ \A u \in TurnId \cup {None} :
                     y.ended[u] = IF x.speaking /\ u = t THEN x.ended[u] + 1
                                  ELSE x.ended[u]
               /\ Doors(y) = Doors(x) /\ Pages(y) = Pages(x)
               /\ y.llmHandle = x.llmHandle /\ y.llm = x.llm
               /\ y.ttsStream = x.ttsStream /\ y.tts = x.tts
               /\ y.history = x.history
<1>1. CASE ~x.speaking BY <1>1 DEF StopSpeaking
<1>2. CASE x.speaking
  <2> DEFINE f == [x.ended EXCEPT ![t] = x.ended[t] + 1]
             E == [x EXCEPT !.speaking = FALSE, !.ended = f]
  <2>1. x.ended \in [TurnId \cup {None} -> Nat] BY WireFacts
  <2>2. \A u \in TurnId \cup {None} :
           f[u] = IF u = t THEN x.ended[u] + 1 ELSE x.ended[u]
        BY <2>1
  <2>3. StopSpeaking(x, t) = E BY <1>2 DEF StopSpeaking
  <2>. HIDE DEF f
  <2>4. E.ended = f BY DEF State
  <2>5. /\ ~E.speaking
        /\ Doors(E) = Doors(x) /\ Pages(E) = Pages(x)
        /\ E.llmHandle = x.llmHandle /\ E.llm = x.llm
        /\ E.ttsStream = x.ttsStream /\ E.tts = x.tts
        /\ E.history = x.history
        BY DEF State, Doors, Pages
  <2>. HIDE DEF E
  <2>. QED BY <1>2, <2>2, <2>3, <2>4, <2>5
<1>3. x.speaking \in BOOLEAN BY WireFacts
<1>. QED BY <1>1, <1>2, <1>3

LEMMA InterruptHush ==
    ASSUME NEW x \in State, Core(x)
    PROVE  Hush(x, Interrupt(x))
<1> DEFINE a == AbortLlm(x)
           b == EndTts(a)
           z == IF Running(b) THEN RequestDrain(b, b.turn) ELSE AbandonTurn(b)
           y == StopSpeaking(z, x.turn)
<1>1. a \in State /\ Books(a) = Books(x) BY AbortLlmBooks
<1>2. /\ a.llmHandle = None
      /\ \A t \in TurnId :
            a.llm[t] = IF t = x.llmHandle /\ x.llm[t] \notin Over
                       THEN "aborted" ELSE x.llm[t]
      /\ Doors(a) = Doors(x) /\ Pages(a) = Pages(x)
      /\ a.ttsStream = x.ttsStream /\ a.tts = x.tts
      /\ a.history = x.history /\ a.ended = x.ended
      /\ a.speaking = x.speaking
      BY AbortLlmEffect
<1>. HIDE DEF a
<1>3. b \in State /\ Books(b) = Books(a) BY <1>1, EndTtsBooks
<1>4. /\ b.ttsStream = None
      /\ \A t \in TurnId :
            b.tts[t] = IF t = a.ttsStream THEN "ended" ELSE a.tts[t]
      /\ Doors(b) = Doors(a) /\ Pages(b) = Pages(a)
      /\ b.llmHandle = a.llmHandle /\ b.llm = a.llm
      /\ b.history = a.history /\ b.ended = a.ended
      /\ b.speaking = a.speaking
      BY <1>1, EndTtsEffect
<1>. HIDE DEF b
<1>5. Core(b) BY <1>1, <1>3, SameBooks
<1>6. Meter(b, z) /\ z \in State
  <2>1. CASE Running(b)
    <3>1. b.turn \in TurnId BY <1>3, <2>1, StateFacts DEF Running
    <3>. QED BY <1>3, <1>5, <2>1, <3>1, RequestDrainMeter, RequestDrainCore
  <2>2. CASE ~Running(b)
    BY <1>3, <1>5, <2>2, AbandonTurnMeter, AbandonTurnCore
  <2>. QED BY <2>1, <2>2
<1>7. Interrupt(x) = y BY DEF Interrupt, a, b
<1>. HIDE DEF z
<1>8. x.turn \in TurnId \cup {None} BY StateFacts
<1>9. /\ ~y.speaking
      /\ \A u \in TurnId \cup {None} :
            y.ended[u] = IF z.speaking /\ u = x.turn THEN z.ended[u] + 1
                         ELSE z.ended[u]
      /\ Doors(y) = Doors(z) /\ Pages(y) = Pages(z)
      /\ y.llmHandle = z.llmHandle /\ y.llm = z.llm
      /\ y.ttsStream = z.ttsStream /\ y.tts = z.tts
      /\ y.history = z.history
      BY <1>6, <1>8, StopSpeakingEffect
<1>. HIDE DEF y
<1>10. Wires(z) = Wires(b) /\ TurnsKept(b, z) BY <1>6 DEF Meter
<1>11. TurnsKept(x, y)
       BY <1>2, <1>4, <1>9, <1>10 DEF Pages, TurnsKept, Running
<1>12. Hush(x, y)
       BY <1>2, <1>4, <1>9, <1>10, <1>11 DEF Hush, Wires, Doors, Pages
<1>. QED BY <1>7, <1>12

LEMMA FinishTurnHush ==
    ASSUME NEW x \in State, Core(x), Voice(x), NEW t \in TurnId,
           x.speaking, x.turn = t
    PROVE  Hush(x, FinishTurn(x, t))
<1> DEFINE a == AbortLlm(x)
           b == StopSpeaking(a, t)
           c == RequestDrain(b, t)
           d == EndTts(c)
<1>1. a \in State /\ Books(a) = Books(x) BY AbortLlmBooks
<1>2. /\ a.llmHandle = None
      /\ \A u \in TurnId :
            a.llm[u] = IF u = x.llmHandle /\ x.llm[u] \notin Over
                       THEN "aborted" ELSE x.llm[u]
      /\ Doors(a) = Doors(x) /\ Pages(a) = Pages(x)
      /\ a.ttsStream = x.ttsStream /\ a.tts = x.tts
      /\ a.history = x.history /\ a.ended = x.ended
      /\ a.speaking = x.speaking
      BY AbortLlmEffect
<1>. HIDE DEF a
<1>3. b \in State /\ Books(b) = Books(a) BY <1>1, StopSpeakingBooks
<1>4. /\ ~b.speaking
      /\ \A u \in TurnId \cup {None} :
            b.ended[u] = IF a.speaking /\ u = t THEN a.ended[u] + 1
                         ELSE a.ended[u]
      /\ Doors(b) = Doors(a) /\ Pages(b) = Pages(a)
      /\ b.llmHandle = a.llmHandle /\ b.llm = a.llm
      /\ b.ttsStream = a.ttsStream /\ b.tts = a.tts
      /\ b.history = a.history
      BY <1>1, StopSpeakingEffect
<1>. HIDE DEF b
<1>5. Core(b) BY <1>1, <1>3, SameBooks
<1>6. Running(b)
      BY <1>1, <1>3 DEF Voice, Running, Books
<1>7. Meter(b, c) /\ c \in State
      BY <1>3, <1>5, <1>6, RequestDrainMeter, RequestDrainCore
<1>8. FinishTurn(x, t) = d BY DEF FinishTurn, a, b
<1>. HIDE DEF c
<1>9. /\ d.ttsStream = None
      /\ \A u \in TurnId :
            d.tts[u] = IF u = c.ttsStream THEN "ended" ELSE c.tts[u]
      /\ Doors(d) = Doors(c) /\ Pages(d) = Pages(c)
      /\ d.llmHandle = c.llmHandle /\ d.llm = c.llm
      /\ d.history = c.history /\ d.ended = c.ended
      /\ d.speaking = c.speaking
      BY <1>7, EndTtsEffect
<1>. HIDE DEF d
<1>10. Wires(c) = Wires(b) /\ TurnsKept(b, c) BY <1>7 DEF Meter
<1>11. TurnsKept(x, d)
       BY <1>2, <1>4, <1>9, <1>10 DEF Pages, TurnsKept, Running
<1>12. Hush(x, d)
       BY <1>2, <1>4, <1>9, <1>10, <1>11 DEF Hush, Wires, Doors, Pages
<1>. QED BY <1>8, <1>12

LEMMA MeterKeeps ==
    ASSUME NEW x \in State, NEW y, Side(x), Meter(x, y),
           x.speaking => y.turn = x.turn
    PROVE  Side(y) /\ Doors(y) = Doors(x)
<1>0. x.turn \in TurnId \cup {None} BY StateFacts
<1>1. Wires(y) = Wires(x) /\ TurnsKept(x, y) BY DEF Meter
<1>2. Lines(y) BY <1>1 DEF Side, Lines, Wires, TurnsKept
<1>3. Events(y) 
  <2>1. y.speaking = x.speaking /\ y.ended = x.ended /\ y.started = x.started
        BY <1>1 DEF Wires
  <2>. QED BY <2>1 DEF Side, Events
<1>4. Talk(y)
  <2>1. y.llm = x.llm /\ y.history = x.history BY <1>1 DEF Wires
  <2>2. Running(y) => Running(x) /\ y.turn = x.turn
        BY <1>0, <1>1 DEF Running, TurnsKept
  <2>. QED BY <2>1, <2>2 DEF Side, Talk
<1>5. Counts(y) BY <1>1 DEF Side, Counts, Lines, Wires, TurnsKept
<1>. QED BY <1>1, <1>2, <1>3, <1>4, <1>5 DEF Side, Wires, Doors

LEMMA HushKeeps ==
    ASSUME NEW x \in State, Core(x), Voice(x), NEW y, Side(x), Hush(x, y)
    PROVE  Side(y) /\ Doors(y) = Doors(x)
<1>0. /\ x.turn \in TurnId \cup {None}
      /\ None \notin TurnId
      BY StateFacts, WireFacts
<1>1. TurnsKept(x, y) BY DEF Hush
<1>2. Lines(y) BY <1>0, <1>1 DEF Side, Lines, Hush, TurnsKept, Over
<1>3. Events(y)
  <2>1. y.ended[None] = 0
    <3>1. x.speaking => x.turn # None BY DEF Voice, Running
    <3>. QED BY <3>1 DEF Side, Events, Hush
  <2>2. \A t \in TurnId : y.ended[t] = y.started[t]
    <3>. TAKE t \in TurnId
    <3>1. y.started = x.started BY DEF Hush
    <3>2. CASE x.speaking /\ t = x.turn
      <4>1. x.turns[t].phase = "running" BY <3>2 DEF Voice, Running
      <4>2. x.started[t] = 1 BY <4>1 DEF Core, Entry
      <4>3. x.ended[t] = 0 BY <3>2 DEF Side, Events
      <4>4. y.ended[t] = x.ended[t] + 1 BY <3>2 DEF Hush
      <4>. QED BY <3>1, <4>2, <4>3, <4>4
    <3>3. CASE ~(x.speaking /\ t = x.turn)
      BY <3>1, <3>3 DEF Side, Events, Hush
    <3>. QED BY <3>2, <3>3
  <2>. QED BY <2>1, <2>2 DEF Events, Hush
<1>4. Talk(y)
  <2>1. y.history = x.history BY DEF Hush
  <2>2. Running(y) => Running(x) /\ y.turn = x.turn
        BY <1>0, <1>1 DEF Running, TurnsKept
  <2>3. \A t \in TurnId : y.llm[t] \notin Over => x.llm[t] \notin Over
        BY DEF Hush, Over
  <2>4. Running(x) => x.turn \in TurnId BY <1>0 DEF Running
  <2>. QED BY <2>1, <2>2, <2>3, <2>4 DEF Side, Talk
<1>5. Counts(y) BY <1>1 DEF Side, Counts, Lines, Hush, TurnsKept, Over
<1>. QED BY <1>2, <1>3, <1>4, <1>5 DEF Side, Hush, Doors

-----------------------------------------------------------------------------
(* Single assignments, and the methods made of them.                        *)

Good(x) == x \in State /\ Core(x) /\ Voice(x) /\ Side(x)

\* From a good state, a method leads to one, and leaves the doors alone.
Sound(x, y) == Good(y) /\ Doors(y) = Doors(x)

\* No turn opens, and the open one is billed at most once, as it is closed.
Bills(x, y) ==
    /\ y.turn \in {x.turn, None}
    /\ y.billed >= x.billed
    /\ y.turn = x.turn \/ ~Running(x) => y.billed = x.billed
    /\ \A t \in TurnId :
        /\ y.turns[t].phase = "running" <=> x.turns[t].phase = "running"
        /\ x.turns[t].phase # "running" => y.usages[t] = x.usages[t]

\* What all methods do but those that open a turn or close out the session.
Fine(x, y) == Sound(x, y) /\ Bills(x, y)

LEMMA KeptBills ==
    ASSUME NEW x, NEW y, TurnsKept(x, y)
    PROVE  Bills(x, y)
BY DEF TurnsKept, Bills

LEMMA SameBills ==
    ASSUME NEW x \in State, NEW y, Books(y) = Books(x)
    PROVE  Bills(x, y)
<1>1. /\ y.turn = x.turn /\ y.turns = x.turns
      /\ y.usages = x.usages /\ y.billed = x.billed
      BY DEF Books
<1>. QED BY <1>1, StateFacts DEF Bills

\* Fine, taken apart.
LEMMA FineGood ==
    ASSUME NEW x, NEW y, Fine(x, y)
    PROVE  Good(y) /\ Doors(y) = Doors(x) /\ Sound(x, y) /\ Bills(x, y)
BY DEF Fine, Sound

LEMMA FineSelf ==
    ASSUME NEW x, Good(x)
    PROVE  Fine(x, x)
<1>1. Bills(x, x) BY StateFacts DEF Good, Bills
<1>. QED BY <1>1 DEF Fine, Sound

LEMMA FineTrans ==
    ASSUME NEW x, NEW y, NEW z, Good(x), Fine(x, y), Fine(y, z)
    PROVE  Fine(x, z)
<1>1. /\ Good(y) /\ Bills(x, y) /\ Bills(y, z)
      /\ Good(z) /\ Doors(y) = Doors(x) /\ Doors(z) = Doors(y)
      BY DEF Fine, Sound
<1>2. x.billed \in Nat /\ y.billed \in Nat /\ z.billed \in Nat
      BY <1>1, StateFacts DEF Good
<1>3. x.turn \in TurnId \cup {None} BY StateFacts DEF Good
<1>4. Running(y) => Running(x) BY <1>1, <1>3 DEF Running, Bills
<1>5. Running(x) /\ y.turn = x.turn => Running(y)
      BY <1>1, <1>3 DEF Running, Bills
<1>6. z.turn = x.turn \/ ~Running(x) => z.billed = x.billed
      BY <1>1, <1>4, <1>5 DEF Bills, Running
<1>7. z.billed >= x.billed BY <1>1, <1>2 DEF Bills
<1>8. Bills(x, z) BY <1>1, <1>6, <1>7 DEF Bills
<1>. QED BY <1>1, <1>8 DEF Fine, Sound

\* What the side of the books that is not the books depends on.
Scene(x) ==
    <<x.turn, x.turns, x.usages, x.source, x.started, x.reported, x.ttsStream,
      x.llmHandle, x.tts, x.llm, x.history, x.ended, x.speaking>>

LEMMA SameScene ==
    ASSUME NEW x, NEW y, Side(x), Scene(y) = Scene(x)
    PROVE  Side(y)
<1>1. /\ y.turn = x.turn /\ y.turns = x.turns /\ y.usages = x.usages
      /\ y.source = x.source /\ y.started = x.started
      /\ y.reported = x.reported /\ y.ttsStream = x.ttsStream
      /\ y.llmHandle = x.llmHandle /\ y.tts = x.tts /\ y.llm = x.llm
      /\ y.history = x.history /\ y.ended = x.ended
      /\ y.speaking = x.speaking
      BY DEF Scene
<1>2. Lines(y) BY <1>1 DEF Side, Lines
<1>3. Events(y) BY <1>1 DEF Side, Events
<1>4. Talk(y) BY <1>1 DEF Side, Talk, Running
<1>5. Counts(y) BY <1>1 DEF Side, Counts
<1>. QED BY <1>2, <1>3, <1>4, <1>5 DEF Side

LEMMA TtsIsEffect ==
    ASSUME NEW x \in State, NEW t \in TurnId, NEW st
    PROVE  LET y == TtsIs(x, t, st)
           IN  /\ y.tts[t] = st
               /\ \A u \in TurnId : u # t => y.tts[u] = x.tts[u]
               /\ Doors(y) = Doors(x) /\ Pages(y) = Pages(x)
               /\ y.ttsStream = x.ttsStream
               /\ y.llmHandle = x.llmHandle /\ y.llm = x.llm
               /\ y.history = x.history /\ y.ended = x.ended
               /\ y.speaking = x.speaking
<1> DEFINE f == [x.tts EXCEPT ![t] = st]
           E == [x EXCEPT !.tts = f]
<1>1. x.tts \in [TurnId -> TtsState] BY WireFacts
<1>2. f[t] = st /\ \A u \in TurnId : u # t => f[u] = x.tts[u] BY <1>1
<1>3. TtsIs(x, t, st) = E BY DEF TtsIs
<1>. HIDE DEF f
<1>4. /\ E.tts = f
      /\ Doors(E) = Doors(x) /\ Pages(E) = Pages(x)
      /\ E.ttsStream = x.ttsStream
      /\ E.llmHandle = x.llmHandle /\ E.llm = x.llm
      /\ E.history = x.history /\ E.ended = x.ended
      /\ E.speaking = x.speaking
      BY DEF State, Doors, Pages
<1>. HIDE DEF E
<1>. QED BY <1>2, <1>3, <1>4

LEMMA LlmIsEffect ==
    ASSUME NEW x \in State, NEW t \in TurnId, NEW st
    PROVE  LET y == LlmIs(x, t, st)
           IN  /\ y.llm[t] = st
               /\ \A u \in TurnId : u # t => y.llm[u] = x.llm[u]
               /\ Doors(y) = Doors(x) /\ Pages(y) = Pages(x)
               /\ y.ttsStream = x.ttsStream /\ y.tts = x.tts
               /\ y.llmHandle = x.llmHandle
               /\ y.history = x.history /\ y.ended = x.ended
               /\ y.speaking = x.speaking
<1> DEFINE f == [x.llm EXCEPT ![t] = st]
           E == [x EXCEPT !.llm = f]
<1>1. x.llm \in [TurnId -> LlmState] BY WireFacts
<1>2. f[t] = st /\ \A u \in TurnId : u # t => f[u] = x.llm[u] BY <1>1
<1>3. LlmIs(x, t, st) = E BY DEF LlmIs
<1>. HIDE DEF f
<1>4. /\ E.llm = f
      /\ Doors(E) = Doors(x) /\ Pages(E) = Pages(x)
      /\ E.ttsStream = x.ttsStream /\ E.tts = x.tts
      /\ E.llmHandle = x.llmHandle
      /\ E.history = x.history /\ E.ended = x.ended
      /\ E.speaking = x.speaking
      BY DEF State, Doors, Pages
<1>. HIDE DEF E
<1>. QED BY <1>2, <1>3, <1>4

\* A stream that was opened may end at any time.
LEMMA TtsEndedFine ==
    ASSUME NEW x, Good(x), NEW t \in TurnId, x.tts[t] # "none"
    PROVE  Fine(x, TtsIs(x, t, "ended"))
<1> DEFINE y == TtsIs(x, t, "ended")
<1>1. x \in State /\ Core(x) /\ Voice(x) /\ Side(x) BY DEF Good
<1>2. y \in State /\ Books(y) = Books(x) /\ y.speaking = x.speaking
      BY <1>1, TtsIsBooks DEF TtsState
<1>3. /\ y.tts[t] = "ended"
      /\ \A u \in TurnId : u # t => y.tts[u] = x.tts[u]
      /\ Doors(y) = Doors(x) /\ Pages(y) = Pages(x)
      /\ y.ttsStream = x.ttsStream
      /\ y.llmHandle = x.llmHandle /\ y.llm = x.llm
      /\ y.history = x.history /\ y.ended = x.ended
      /\ y.speaking = x.speaking
      BY <1>1, TtsIsEffect
<1>. HIDE DEF y
<1>4. Core(y) /\ Voice(y) BY <1>1, <1>2, SameBooks, VoiceSame
<1>5. x.ttsStream \in TurnId \cup {None} BY <1>1, WireFacts
<1>6. Lines(y) BY <1>1, <1>3, <1>5 DEF Side, Lines, Pages
<1>7. Events(y) /\ Talk(y) /\ Counts(y)
      BY <1>1, <1>3 DEF Side, Events, Talk, Running, Counts, Pages
<1>8. Bills(x, y) BY <1>1, <1>2, SameBills
<1>. QED BY <1>2, <1>3, <1>4, <1>6, <1>7, <1>8
         DEF Fine, Sound, Good, Side, y

\* While the session's stream is told that no more text comes, its LLM is not live.
Quiet(x) ==
    ~AbortedLlmReports /\ x.ttsStream # None => x.llm[x.ttsStream] # "live"

LEMMA TtsFlushedFine ==
    ASSUME NEW x, Good(x), Quiet(x), x.ttsStream # None
    PROVE  Fine(x, TtsIs(x, x.ttsStream, "flushed"))
<1> DEFINE t == x.ttsStream
           y == TtsIs(x, t, "flushed")
<1>1. x \in State /\ Core(x) /\ Voice(x) /\ Side(x) BY DEF Good
<1>0. t \in TurnId BY <1>1, WireFacts
<1>2. y \in State /\ Books(y) = Books(x) /\ y.speaking = x.speaking
      BY <1>0, <1>1, TtsIsBooks DEF TtsState
<1>3. /\ y.tts[t] = "flushed"
      /\ \A u \in TurnId : u # t => y.tts[u] = x.tts[u]
      /\ Doors(y) = Doors(x) /\ Pages(y) = Pages(x)
      /\ y.ttsStream = x.ttsStream
      /\ y.llmHandle = x.llmHandle /\ y.llm = x.llm
      /\ y.history = x.history /\ y.ended = x.ended
      /\ y.speaking = x.speaking
      BY <1>0, <1>1, TtsIsEffect
<1>. HIDE DEF y
<1>4. Core(y) /\ Voice(y) BY <1>1, <1>2, SameBooks, VoiceSame
<1>6. Lines(y) BY <1>0, <1>1, <1>3 DEF Side, Lines, Pages, Quiet
<1>7. Events(y) /\ Talk(y) /\ Counts(y)
      BY <1>1, <1>3 DEF Side, Events, Talk, Running, Counts, Pages
<1>8. Bills(x, y) BY <1>1, <1>2, SameBills
<1>. QED BY <1>2, <1>3, <1>4, <1>6, <1>7, <1>8
         DEF Fine, Sound, Good, Side, y

LEMMA FinishTurnFine ==
    ASSUME NEW x, Good(x), NEW t \in TurnId
    PROVE  /\ Fine(x, FinishTurn(x, t))
           /\ FinishTurn(x, t) = x \/ Hush(x, FinishTurn(x, t))
<1> DEFINE y == FinishTurn(x, t)
<1>1. x \in State /\ Core(x) /\ Voice(x) /\ Side(x) BY DEF Good
<1>2. y \in State /\ Core(y) /\ Voice(y) BY <1>1, FinishTurnCore
<1>3. y = x \/ Hush(x, y)
      BY <1>1, FinishTurnHush DEF FinishTurn
<1>. HIDE DEF y
<1>4. Side(y) /\ Doors(y) = Doors(x) BY <1>1, <1>3, HushKeeps
<1>5. Hush(x, y) => Bills(x, y) BY KeptBills DEF Hush
<1>6. y = x => Bills(x, y) BY <1>1, SameBills
<1>. QED BY <1>2, <1>3, <1>4, <1>5, <1>6 DEF Fine, Sound, Good, y

LEMMA SettleLlmFine ==
    ASSUME NEW x, Good(x), NEW t \in TurnId
    PROVE  /\ Fine(x, SettleLlm(x, t))
           /\ Meter(x, SettleLlm(x, t))
<1> DEFINE y == SettleLlm(x, t)
<1>1. x \in State /\ Core(x) /\ Voice(x) /\ Side(x) BY DEF Good
<1>2. y \in State /\ Core(y) /\ Voice(y) BY <1>1, SettleLlmCore
<1>3. Meter(x, y) BY <1>1, SettleLlmMeter
<1>4. x.speaking => y.turn = x.turn
  <2>1. y.speaking = x.speaking BY <1>3 DEF Meter, Wires
  <2>2. y.turn \in {x.turn, None} BY <1>3 DEF Meter, TurnsKept
  <2>3. x.speaking => y.turn # None BY <1>2, <2>1 DEF Voice, Running
  <2>. QED BY <2>2, <2>3
<1>. HIDE DEF y
<1>5. Side(y) /\ Doors(y) = Doors(x) BY <1>1, <1>3, <1>4, MeterKeeps
<1>6. Bills(x, y) BY <1>3, KeptBills DEF Meter
<1>. QED BY <1>2, <1>3, <1>5, <1>6 DEF Fine, Sound, Good, y

LEMMA InterruptFine ==
    ASSUME NEW x, Good(x)
    PROVE  Fine(x, Interrupt(x))
<1> DEFINE y == Interrupt(x)
<1>1. x \in State /\ Core(x) /\ Voice(x) /\ Side(x) BY DEF Good
<1>2. y \in State /\ Core(y) /\ Voice(y)
      BY <1>1, InterruptCore DEF Voice
<1>3. Hush(x, y) BY <1>1, InterruptHush
<1>. HIDE DEF y
<1>4. Side(y) /\ Doors(y) = Doors(x) BY <1>1, <1>3, HushKeeps
<1>5. Bills(x, y) BY <1>3, KeptBills DEF Hush
<1>. QED BY <1>2, <1>4, <1>5 DEF Fine, Sound, Good, y

LEMMA DrainNowFine ==
    ASSUME NEW x, Good(x), ~x.speaking
    PROVE  Fine(x, DrainNow(x)) /\ ~DrainNow(x).speaking
<1> DEFINE y == DrainNow(x)
<1>1. x \in State /\ Core(x) /\ Voice(x) /\ Side(x) BY DEF Good
<1>2. y \in State /\ Core(y) /\ ~y.speaking
      BY <1>1, DrainNowCore DEF Kept
<1>3. Meter(x, y) BY <1>1, DrainNowMeter
<1>. HIDE DEF y
<1>4. Side(y) /\ Doors(y) = Doors(x) BY <1>1, <1>3, MeterKeeps
<1>5. Bills(x, y) BY <1>3, KeptBills DEF Meter
<1>. QED BY <1>2, <1>4, <1>5 DEF Fine, Sound, Good, Voice, y

LEMMA AbandonTurnFine ==
    ASSUME NEW x, Good(x)
    PROVE  Fine(x, AbandonTurn(x))
<1> DEFINE y == AbandonTurn(x)
<1>1. x \in State /\ Core(x) /\ Voice(x) /\ Side(x) BY DEF Good
<1>2. CASE ~Pending(x) BY <1>2, FineSelf DEF AbandonTurn
<1>3. CASE Pending(x)
  <2>1. ~x.speaking BY <1>1, <1>3 DEF Voice, Pending, Running
  <2>2. y \in State /\ Core(y) /\ ~y.speaking
        BY <1>1, <2>1, AbandonTurnCore
  <2>3. Meter(x, y) BY <1>1, AbandonTurnMeter
  <2>. HIDE DEF y
  <2>4. Side(y) /\ Doors(y) = Doors(x) BY <1>1, <2>1, <2>3, MeterKeeps
  <2>5. Bills(x, y) BY <2>3, KeptBills DEF Meter
  <2>. QED BY <2>2, <2>4, <2>5 DEF Fine, Sound, Good, Voice, y
<1>. QED BY <1>2, <1>3

-----------------------------------------------------------------------------
(* Opening, running and closing out turns.                                  *)

LEMMA OpenTurnSound ==
    ASSUME NEW x, Good(x), x.turn = None, x.counter < MaxTurns
    PROVE  Sound(x, OpenTurn(x)) /\ ~OpenTurn(x).speaking
<1> DEFINE t == x.counter + 1
           r == NewTurn(x.bytes)
           f == [x.turns EXCEPT ![t] = r]
           E == [x EXCEPT !.turns = f, !.counter = t, !.turn = t, !.bytes = 0]
<1>1. x \in State /\ Core(x) /\ Voice(x) /\ Side(x) BY DEF Good
<1>2. ~x.speaking BY <1>1 DEF Voice, Running
<1>3. /\ OpenTurn(x) \in State /\ Core(OpenTurn(x))
      /\ ~OpenTurn(x).speaking
      BY <1>1, <1>2, OpenTurnCore
<1>4. OpenTurn(x) = E BY DEF OpenTurn
<1>5. t \in TurnId /\ t # None /\ t > x.counter
  <2>1. x.counter \in Nat BY <1>1, StateFacts
  <2>. QED BY <2>1, BoundsAssumption DEF TurnId, None
<1>6. x.turns[t].phase = "none" BY <1>1, <1>5 DEF Core, Entry
<1>7. r.phase = "pending" /\ ~r.vendor BY DEF NewTurn, NoTurn
<1>8. x.turns \in [TurnId -> Turn] BY <1>1, <1>5, TurnFacts
<1>9. f[t] = r /\ \A u \in TurnId : u # t => f[u] = x.turns[u] BY <1>5, <1>8
<1>. HIDE DEF t, f, r
<1>10. /\ E.turns = f /\ E.turn = t
       /\ Doors(E) = Doors(x)
       /\ E.usages = x.usages /\ E.source = x.source
       /\ E.started = x.started /\ E.reported = x.reported
       /\ E.ttsStream = x.ttsStream /\ E.tts = x.tts
       /\ E.llmHandle = x.llmHandle /\ E.llm = x.llm
       /\ E.history = x.history /\ E.ended = x.ended
       /\ E.speaking = x.speaking
       BY <1>1 DEF State, Doors
<1>. HIDE DEF E
<1>11. x.ttsStream = None BY <1>1, <1>2 DEF Side, Lines
<1>12. Lines(E)
  <2>1. \A u \in TurnId :
           E.turns[u].phase = "running" <=> x.turns[u].phase = "running"
        BY <1>6, <1>7, <1>9, <1>10
  <2>. QED BY <1>1, <1>10, <1>11, <2>1 DEF Side, Lines
<1>13. Events(E) BY <1>1, <1>2, <1>10 DEF Side, Events
<1>14. Talk(E)
  <2>1. ~Running(E) BY <1>7, <1>9, <1>10 DEF Running
  <2>. QED BY <1>1, <1>10, <2>1 DEF Side, Talk
<1>15. Counts(E)
  <2>1. ~x.reported[t] BY <1>1, <1>5, <1>6 DEF Side, Lines
  <2>. QED BY <1>1, <1>9, <1>10, <2>1 DEF Side, Counts
<1>. QED BY <1>3, <1>4, <1>10, <1>12, <1>13, <1>14, <1>15
         DEF Sound, Good, Voice, Side

LEMMA ClearTurnFine ==
    ASSUME NEW x, Good(x)
    PROVE  Fine(x, ClearTurn(x))
<1> DEFINE i == Interrupt(x)
<1>1. Fine(x, i) /\ Good(i) BY InterruptFine, FineGood
<1>2. ~i.speaking BY InterruptCore DEF Good
<1>3. ClearTurn(x) = IF Running(x) THEN DrainNow(i) ELSE x BY DEF ClearTurn
<1>. HIDE DEF i
<1>4. Fine(i, DrainNow(i)) BY <1>1, <1>2, DrainNowFine
<1>5. Fine(x, DrainNow(i)) BY <1>1, <1>4, FineTrans
<1>. QED BY <1>3, <1>5, FineSelf

LEMMA BeginTurnSound ==
    ASSUME NEW x, Good(x), x.counter < MaxTurns \/ Pending(x)
    PROVE  /\ Sound(x, BeginTurn(x))
           /\ Pending(BeginTurn(x))
           /\ ~BeginTurn(x).speaking
<1> DEFINE y == ClearTurn(x)
<1>1. x \in State /\ Core(x) /\ Voice(x) /\ Side(x) BY DEF Good
<1>2. /\ ~y.speaking
      /\ Running(x) => y.turn = None /\ y.counter = x.counter
      /\ ~Running(x) => y = x
      BY <1>1, ClearTurnCore
<1>3. Sound(x, y) BY ClearTurnFine, FineGood
<1>4. BeginTurn(x) = IF y.turn # None THEN y ELSE OpenTurn(y)
      BY DEF BeginTurn
<1>5. Pending(BeginTurn(x)) /\ ~BeginTurn(x).speaking
      BY <1>1, BeginTurnCore
<1>. HIDE DEF y
<1>6. y.turn = None => y.counter < MaxTurns
      BY <1>2 DEF Pending, Running
<1>7. y.turn = None => Sound(y, OpenTurn(y))
      BY <1>3, <1>6, OpenTurnSound DEF Sound
<1>. QED BY <1>3, <1>4, <1>5, <1>7 DEF Sound

LEMMA RunTurnSound ==
    ASSUME NEW x, Good(x), Pending(x), ~x.speaking
    PROVE  Sound(x, RunTurn(x))
<1> DEFINE t == x.turn
           r == [x.turns[t] EXCEPT !.phase = "running"]
           f == [x.turns EXCEPT ![t] = r]
           q == [role |-> "user", turn |-> t]
           h == Append(x.history, q)
           g == [x.started EXCEPT ![t] = x.started[t] + 1]
           c == [x.tts EXCEPT ![t] = "opening"]
           E == [x EXCEPT !.turns = f, !.history = h, !.speaking = TRUE,
                          !.started = g, !.tts = c]
<1>1. x \in State /\ Core(x) /\ Voice(x) /\ Side(x) BY DEF Good
<1>2. /\ RunTurn(x) \in State /\ Core(RunTurn(x)) /\ Voice(RunTurn(x))
      BY <1>1, RunTurnCore
<1>3. RunTurn(x) = E BY DEF RunTurn
<1>4. t \in TurnId /\ t # None /\ x.turns[t].phase = "pending"
      BY <1>1, StateFacts DEF Pending
<1>5. /\ x.turns \in [TurnId -> Turn] /\ x.turns[t] \in Turn
      /\ x.started \in [TurnId -> Nat]
      /\ x.tts \in [TurnId -> TtsState]
      /\ x.history \in Seq(Message)
      BY <1>1, <1>4, TurnFacts, StateFacts, WireFacts
<1>6. r.phase = "running" /\ r.vendor = x.turns[t].vendor
      BY <1>5 DEF Turn
<1>. HIDE DEF r
<1>7. /\ f[t] = r /\ c[t] = "opening" /\ g[t] = x.started[t] + 1
      /\ \A u \in TurnId : u # t =>
            f[u] = x.turns[u] /\ c[u] = x.tts[u] /\ g[u] = x.started[u]
      BY <1>4, <1>5
<1>8. /\ Len(h) = Len(x.history) + 1
      /\ h[Len(h)] = q
      /\ \A i \in 1..Len(x.history) : h[i] = x.history[i]
      /\ Len(x.history) \in Nat
      BY <1>5
<1>9. q = Question(t) /\ q.role = "user" BY DEF Question
<1>. HIDE DEF f, c, g, h, q
<1>10. /\ E.turns = f /\ E.turn = t
       /\ Doors(E) = Doors(x)
       /\ E.usages = x.usages /\ E.source = x.source
       /\ E.started = g /\ E.reported = x.reported
       /\ E.ttsStream = x.ttsStream /\ E.tts = c
       /\ E.llmHandle = x.llmHandle /\ E.llm = x.llm
       /\ E.history = h /\ E.ended = x.ended
       /\ E.speaking
       BY <1>1 DEF State, Doors
<1>. HIDE DEF E, t
<1>11. x.ttsStream = None BY <1>1 DEF Side, Lines
<1>12. x.llm[t] = "none" /\ ~x.reported[t]
       BY <1>1, <1>4 DEF Side, Lines
<1>13. Lines(E)
       BY <1>1, <1>6, <1>7, <1>10, <1>11, <1>12 DEF Side, Lines
<1>14. Events(E)
  <2>1. x.started[t] = 0 /\ x.ended[t] = 0
        BY <1>1, <1>4 DEF Core, Entry, Side, Events
  <2>. QED BY <1>1, <1>7, <1>10, <2>1 DEF Side, Events
<1>15. Talk(E)
  <2>1. Coherent(h)
    <3>. SUFFICES ASSUME NEW i \in 1..Len(h), h[i].role = "assistant"
         PROVE  i > 1 /\ h[i - 1] = Question(h[i].turn)
      BY DEF Coherent
    <3>1. i # Len(h) BY <1>8, <1>9
    <3>2. i \in 1..Len(x.history) BY <1>8, <3>1
    <3>3. i > 1 /\ x.history[i - 1] = Question(x.history[i].turn)
          BY <1>1, <1>8, <3>2 DEF Side, Talk, Coherent
    <3>4. i - 1 \in 1..Len(x.history) BY <1>8, <3>2, <3>3
    <3>. QED BY <1>8, <3>2, <3>3, <3>4
  <2>2. Len(h) > 0 BY <1>8
  <2>. QED BY <1>8, <1>9, <1>10, <2>1, <2>2 DEF Talk
<1>16. Counts(E)
       BY <1>1, <1>7, <1>10, <1>12 DEF Side, Counts
<1>. QED BY <1>2, <1>3, <1>10, <1>13, <1>14, <1>15, <1>16
         DEF Sound, Good, Side

LEMMA FlushTailSound ==
    ASSUME NEW x, Good(x), x.turn = None, x.counter <= MaxTurns, x.closed
    PROVE  LET y == FlushTail(x)
           IN  Sound(x, y) /\ y.turn = None /\ y.bytes < MinTail
<1>1. x \in State /\ Core(x) /\ Voice(x) /\ Side(x) BY DEF Good
<1>2. ~x.speaking BY <1>1 DEF Voice, Running
<1>3. FlushTail(x) \in State /\ Core(FlushTail(x)) /\ ~FlushTail(x).speaking
      BY <1>1, <1>2, FlushTailCore
<1>4. CASE x.bytes < MinTail BY <1>4 DEF FlushTail, Sound
<1>5. CASE ~(x.bytes < MinTail)
  <2> DEFINE t == x.counter + 1
             u == [x.usages EXCEPT ![t] = x.usages[t] + 1]
             c == [x.source EXCEPT ![t] = "tail"]
             n == x.billed + x.bytes
             E == [x EXCEPT !.usages = u, !.source = c, !.counter = t,
                            !.billed = n, !.bytes = 0]
  <2>1. FlushTail(x) = E BY <1>5 DEF FlushTail
  <2>2. t \in TurnId /\ t > x.counter
    <3>1. x.counter \in Nat BY <1>1, StateFacts
    <3>. QED BY <3>1, BoundsAssumption DEF TurnId
  <2>3. /\ x.usages \in [TurnId -> Nat]
        /\ x.source \in [TurnId -> {"none", "local", "vendor", "tail"}]
        BY <1>1, StateFacts
  <2>4. \A v \in TurnId : v # t => u[v] = x.usages[v] /\ c[v] = x.source[v]
        BY <2>2, <2>3
  <2>5. ~x.reported[t] BY <1>1, <2>2 DEF Core, Entry, Side, Lines
  <2>. HIDE DEF t, u, c, n
  <2>6. /\ E.turns = x.turns /\ E.turn = x.turn
        /\ Doors(E) = Doors(x)
        /\ E.usages = u /\ E.source = c /\ E.bytes = 0
        /\ E.started = x.started /\ E.reported = x.reported
        /\ E.ttsStream = x.ttsStream /\ E.tts = x.tts
        /\ E.llmHandle = x.llmHandle /\ E.llm = x.llm
        /\ E.history = x.history /\ E.ended = x.ended
        /\ E.speaking = x.speaking
        BY <1>1 DEF State, Doors
  <2>. HIDE DEF E
  <2>7. Lines(E) BY <1>1, <2>6 DEF Side, Lines
  <2>8. Events(E) BY <1>1, <2>6 DEF Side, Events
  <2>9. Talk(E) BY <1>1, <2>6 DEF Side, Talk, Running
  <2>10. Counts(E) BY <1>1, <2>4, <2>5, <2>6 DEF Side, Counts
  <2>11. 0 < MinTail BY BoundsAssumption
  <2>. QED BY <1>2, <1>3, <2>1, <2>6, <2>7, <2>8, <2>9, <2>10, <2>11
           DEF Sound, Good, Voice, Side
<1>. QED BY <1>4, <1>5

-----------------------------------------------------------------------------
(* The streams' own methods.                                                *)

\* The open turn's streams start together.
LEMMA HoldTtsFine ==
    ASSUME NEW x, Good(x), NEW t \in TurnId, x.turn = t, x.speaking,
           x.tts[t] = "opening"
    PROVE  LET y == HoldTts(x, t)
           IN  /\ Fine(x, y)
               /\ y.speaking /\ y.turn = t /\ y.ttsStream = t
               /\ y.tts[t] = "open" /\ y.llm[t] = "none"
<1> DEFINE z == TtsIs(x, t, "open")
           E == [z EXCEPT !.ttsStream = t]
<1>1. x \in State /\ Core(x) /\ Voice(x) /\ Side(x) BY DEF Good
<1>2. /\ E \in State /\ Books(E) = Books(x)
      /\ E.speaking = x.speaking
      BY <1>1, HoldTtsBooks DEF HoldTts
<1>3. /\ z.tts[t] = "open"
      /\ \A u \in TurnId : u # t => z.tts[u] = x.tts[u]
      /\ Doors(z) = Doors(x) /\ Pages(z) = Pages(x)
      /\ z.llmHandle = x.llmHandle /\ z.llm = x.llm
      /\ z.history = x.history /\ z.ended = x.ended
      BY <1>1, TtsIsEffect
<1>4. z \in State BY <1>1, TtsIsBooks DEF TtsState
<1>5. HoldTts(x, t) = E BY DEF HoldTts
<1>. HIDE DEF z
<1>6. /\ E.ttsStream = t
      /\ E.tts = z.tts /\ E.llm = z.llm /\ E.llmHandle = z.llmHandle
      /\ Doors(E) = Doors(z) /\ Pages(E) = Pages(z)
      /\ E.history = z.history /\ E.ended = z.ended
      BY <1>4 DEF State, Doors, Pages
<1>. HIDE DEF E
<1>7. Core(E) /\ Voice(E) BY <1>1, <1>2, SameBooks, VoiceSame
<1>8. x.ttsStream = None /\ x.llmHandle = None BY <1>1 DEF Side, Lines
<1>0. None \notin TurnId BY <1>1, WireFacts
<1>9. t # None /\ x.llm[t] = "none" /\ E.turn = t
      BY <1>1, <1>3, <1>6, WireFacts DEF Side, Lines, Pages
<1>10. Lines(E)
       BY <1>0, <1>1, <1>2, <1>3, <1>6, <1>8, <1>9 DEF Side, Lines, Pages
<1>11. Events(E) /\ Talk(E) /\ Counts(E)
       BY <1>1, <1>2, <1>3, <1>6
       DEF Side, Events, Talk, Running, Counts, Pages
<1>12. Bills(x, E) BY <1>1, <1>2, SameBills
<1>. QED BY <1>2, <1>3, <1>5, <1>6, <1>7, <1>9, <1>10, <1>11, <1>12
         DEF Fine, Sound, Good, Side

LEMMA StartLlmFine ==
    ASSUME NEW x, Good(x), NEW t \in TurnId, x.turn = t, x.speaking,
           x.ttsStream = t, x.tts[t] = "open", x.llm[t] = "none"
    PROVE  Fine(x, StartLlm(x, t))
<1> DEFINE z == LlmIs(x, t, "live")
           E == [z EXCEPT !.llmHandle = t]
<1>1. x \in State /\ Core(x) /\ Voice(x) /\ Side(x) BY DEF Good
<1>2. /\ E \in State /\ Books(E) = Books(x)
      /\ E.speaking = x.speaking
      BY <1>1, StartLlmBooks DEF StartLlm
<1>3. /\ z.llm[t] = "live"
      /\ \A u \in TurnId : u # t => z.llm[u] = x.llm[u]
      /\ Doors(z) = Doors(x) /\ Pages(z) = Pages(x)
      /\ z.ttsStream = x.ttsStream /\ z.tts = x.tts
      /\ z.history = x.history /\ z.ended = x.ended
      BY <1>1, LlmIsEffect
<1>4. z \in State BY <1>1, LlmIsBooks DEF LlmState
<1>5. StartLlm(x, t) = E BY DEF StartLlm
<1>. HIDE DEF z
<1>6. /\ E.llmHandle = t
      /\ E.tts = z.tts /\ E.llm = z.llm /\ E.ttsStream = z.ttsStream
      /\ Doors(E) = Doors(z) /\ Pages(E) = Pages(z)
      /\ E.history = z.history /\ E.ended = z.ended
      BY <1>4 DEF State, Doors, Pages
<1>. HIDE DEF E
<1>7. Core(E) /\ Voice(E) BY <1>1, <1>2, SameBooks, VoiceSame
<1>8. x.llmHandle \in {None, t} /\ t # None
      BY <1>1, WireFacts DEF Side, Lines
<1>0. None \notin TurnId BY <1>1, WireFacts
<1>9. \A u \in TurnId : u # t => x.llm[u] \notin {"live", "stopped"}
      BY <1>0, <1>1, <1>8 DEF Side, Lines
<1>10. Lines(E)
       BY <1>1, <1>2, <1>3, <1>6, <1>8, <1>9 DEF Side, Lines, Pages
<1>11. Events(E) /\ Counts(E)
       BY <1>1, <1>2, <1>3, <1>6 DEF Side, Events, Counts, Pages
<1>12. Talk(E)
  <2>1. Running(E) <=> Running(x) BY <1>3, <1>6 DEF Running, Pages
  <2>. QED BY <1>1, <1>3, <1>6, <2>1 DEF Side, Talk, Pages, Over
<1>13. Bills(x, E) BY <1>1, <1>2, SameBills
<1>. QED BY <1>2, <1>3, <1>5, <1>6, <1>7, <1>10, <1>11, <1>12, <1>13
         DEF Fine, Sound, Good, Side

\* A stream that may still call in is the open turn's own, unless it was aborted.
LEMMA MayCallFacts ==
    ASSUME NEW t \in TurnId, Good(s), MayCall(t)
    PROVE  /\ s.turns[t].phase = "running"
           /\ s.llm[t] \notin Over /\ s.llm[t] # "none"
           /\ ~AbortedLlmReports => s.ttsStream = t /\ s.turn = t
BY WireFacts DEF Good, Side, Lines, MayCall, Over

\* The vendor's stream ends, or stops while it still has something to say.
LEMMA LlmIsFine ==
    ASSUME NEW t \in TurnId, NEW st \in {"stopped"} \cup Over, Good(s), MayCall(t),
           st = "stopped" => s.llm[t] = "live"
    PROVE  LET y == LlmIs(s, t, st) IN
           /\ Fine(s, y)
           /\ Quiet(y)
           /\ y.llm[t] = st
           /\ y.turn = s.turn /\ y.turns = s.turns /\ y.history = s.history
<1> DEFINE y == LlmIs(s, t, st)
<1>0. st \in LlmState BY DEF Over, LlmState
<1>1. s \in State /\ Core(s) /\ Voice(s) /\ Side(s) BY DEF Good
<1>2. y \in State /\ Books(y) = Books(s) /\ y.speaking = s.speaking
      BY <1>0, <1>1, LlmIsBooks
<1>3. /\ y.llm[t] = st
      /\ \A u \in TurnId : u # t => y.llm[u] = s.llm[u]
      /\ Doors(y) = Doors(s) /\ Pages(y) = Pages(s)
      /\ y.ttsStream = s.ttsStream /\ y.tts = s.tts
      /\ y.llmHandle = s.llmHandle
      /\ y.history = s.history /\ y.ended = s.ended
      BY <1>1, LlmIsEffect
<1>. HIDE DEF y
<1>4. Core(y) /\ Voice(y) BY <1>1, <1>2, SameBooks, VoiceSame
<1>5. /\ s.turns[t].phase = "running"
      /\ s.llm[t] \notin Over /\ s.llm[t] # "none"
      /\ ~AbortedLlmReports => s.ttsStream = t /\ s.turn = t
      BY MayCallFacts
<1>6. Lines(y) BY <1>1, <1>2, <1>3, <1>5 DEF Side, Lines, Pages, Over
<1>7. Events(y) /\ Counts(y)
      BY <1>1, <1>2, <1>3, <1>5 DEF Side, Events, Counts, Pages, Over
<1>8. Talk(y)
  <2>1. Running(y) <=> Running(s) BY <1>3 DEF Running, Pages
  <2>2. Running(s) => s.turn \in TurnId BY <1>1, StateFacts DEF Running
  <2>3. Running(s) /\ y.llm[s.turn] \notin Over => s.llm[s.turn] \notin Over
        BY <1>3, <1>5, <2>2
  <2>. QED BY <1>1, <1>3, <2>1, <2>3 DEF Side, Talk, Pages
<1>9. Quiet(y) BY <1>3, <1>5 DEF Quiet, Over
<1>10. Bills(s, y) BY <1>1, <1>2, SameBills
<1>. QED BY <1>2, <1>3, <1>4, <1>6, <1>7, <1>8, <1>9, <1>10
         DEF Fine, Sound, Good, Side, Pages, y

\* Turn t's LLM is done; if the turn is the open one, its question is the last word.
Asked(x, t) ==
    /\ x.turns[t].phase = "running"
    /\ x.llm[t] \in Over
    /\ x.turn = t => Len(x.history) > 0
                     /\ x.history[Len(x.history)] = Question(t)

LEMMA OverFine ==
    ASSUME NEW t \in TurnId, NEW st \in Over, Good(s), MayCall(t)
    PROVE  LET y == LlmIs(s, t, st)
           IN  /\ Fine(s, y) /\ Quiet(y) /\ Asked(y, t)
               /\ y.llm[t] = st
               /\ ~AbortedLlmReports => y.turn = t
<1> DEFINE y == LlmIs(s, t, st)
<1>1. /\ Fine(s, y) /\ Quiet(y)
      /\ y.llm[t] = st
      /\ y.turn = s.turn /\ y.turns = s.turns /\ y.history = s.history
      BY LlmIsFine DEF Over
<1>. HIDE DEF y
<1>2. /\ s.turns[t].phase = "running"
      /\ s.llm[t] \notin Over
      /\ ~AbortedLlmReports => s.turn = t
      BY MayCallFacts
<1>3. s.turn = t => Running(s) BY <1>2, WireFacts DEF Running, Good
<1>4. s.turn = t => Len(s.history) > 0
                    /\ s.history[Len(s.history)] = Question(t)
      BY <1>2, <1>3 DEF Good, Side, Talk
<1>. QED BY <1>1, <1>2, <1>4 DEF Asked, y

-----------------------------------------------------------------------------
(* The LLM's callbacks: each may follow the other in one go.                *)

\* What one callback leaves for the next.
Follows(x, y, t) ==
    /\ Fine(x, y)
    /\ Quiet(x) => Quiet(y)
    /\ Asked(x, t) => Asked(y, t)
    /\ x.llm[t] = "broken" => y.llm[t] = "broken"

LEMMA FollowsTrans ==
    ASSUME NEW x, NEW y, NEW z, NEW t, Good(x), Follows(x, y, t), Follows(y, z, t)
    PROVE  Follows(x, z, t)
BY FineTrans DEF Follows

LEMMA MeterFollows ==
    ASSUME NEW x, NEW y, NEW t \in TurnId, Fine(x, y), Meter(x, y)
    PROVE  Follows(x, y, t)
<1>1. /\ y.llm = x.llm /\ y.history = x.history
      /\ y.ttsStream = x.ttsStream
      BY DEF Meter, Wires
<1>2. /\ y.turn \in {x.turn, None}
      /\ y.turns[t].phase = "running" <=> x.turns[t].phase = "running"
      BY DEF Meter, TurnsKept
<1>3. t # None BY DEF TurnId, None
<1>. QED BY <1>1, <1>2, <1>3 DEF Follows, Quiet, Asked

LEMMA HushFollows ==
    ASSUME NEW x, NEW y, NEW t \in TurnId, Fine(x, y), Hush(x, y)
    PROVE  Follows(x, y, t)
<1>1. /\ x.llm[t] \in Over => y.llm[t] = x.llm[t]
      /\ y.history = x.history
      /\ y.ttsStream = None
      BY DEF Hush
<1>2. /\ y.turn \in {x.turn, None}
      /\ y.turns[t].phase = "running" <=> x.turns[t].phase = "running"
      BY DEF Hush, TurnsKept
<1>3. t # None BY DEF TurnId, None
<1>. QED BY <1>1, <1>2, <1>3 DEF Follows, Quiet, Asked, Over

LEMMA TtsIsFollows ==
    ASSUME NEW x \in State, NEW u \in TurnId, NEW st, NEW t \in TurnId,
           Fine(x, TtsIs(x, u, st))
    PROVE  Follows(x, TtsIs(x, u, st), t)
<1> DEFINE y == TtsIs(x, u, st)
<1>1. /\ Pages(y) = Pages(x) /\ y.llm = x.llm
      /\ y.history = x.history /\ y.ttsStream = x.ttsStream
      BY TtsIsEffect
<1>2. Fine(x, y) OBVIOUS
<1>. HIDE DEF y
<1>3. Follows(x, y, t) BY <1>1, <1>2 DEF Follows, Quiet, Asked, Pages
<1>. QED BY <1>3 DEF y

\* A turn's own TTS stream ends: the turn is finished if it still speaks.
LEMMA TtsOverFine ==
    ASSUME NEW x, Good(x), NEW u \in TurnId, x.tts[u] # "none", NEW t \in TurnId
    PROVE  Follows(x, FinishTurn(TtsIs(x, u, "ended"), u), t)
<1> DEFINE z == TtsIs(x, u, "ended")
           y == FinishTurn(z, u)
<1>1. Follows(x, z, t) BY TtsEndedFine, TtsIsFollows DEF Good
<1>. HIDE DEF z
<1>2. Fine(x, z) /\ Good(z) BY <1>1, FineGood DEF Follows
<1>3. Fine(z, y) /\ (y = z \/ Hush(z, y)) BY <1>2, FinishTurnFine
<1>. HIDE DEF y
<1>4. y = z \/ Follows(z, y, t) BY <1>3, HushFollows
<1>5. Follows(x, y, t) BY <1>1, <1>2, <1>4, FollowsTrans
<1>. QED BY <1>5 DEF y, z

LEMMA FlushFine ==
    ASSUME NEW x, Good(x), Quiet(x), NEW t \in TurnId
    PROVE  Follows(x, Flush(x), t)
<1> DEFINE u == x.ttsStream
<1>1. CASE u = None BY <1>1, FineSelf DEF Flush, Follows
<1>2. CASE u # None
  <2>1. u \in TurnId BY <1>2, WireFacts DEF Good
  <2>2. x.tts[u] # "none" BY <1>2 DEF Good, Side, Lines
  <2>3. Follows(x, FinishTurn(TtsIs(x, u, "ended"), u), t)
        BY <2>1, <2>2, TtsOverFine
  <2>4. Follows(x, TtsIs(x, u, "flushed"), t)
        BY <1>2, <2>1, TtsFlushedFine, TtsIsFollows DEF Good
  <2>. QED BY <1>2, <2>3, <2>4 DEF Flush
<1>. QED BY <1>1, <1>2

LEMMA OnLlmErrorFine ==
    ASSUME NEW x, Good(x), Quiet(x), NEW t \in TurnId
    PROVE  Follows(x, OnLlmError(x, t), t)
<1> DEFINE z == SettleLlm(x, t)
<1>1. Follows(x, z, t) BY SettleLlmFine, MeterFollows
<1>2. OnLlmError(x, t) = Flush(z) BY DEF OnLlmError
<1>. HIDE DEF z
<1>3. Good(z) /\ Quiet(z) BY <1>1, FineGood DEF Follows
<1>4. Follows(z, Flush(z), t) BY <1>3, FlushFine
<1>. QED BY <1>1, <1>2, <1>4, FollowsTrans

\* Counts are taken for the turn that is billed from them.
LEMMA ReportFine ==
    ASSUME NEW x, Good(x), NEW t \in TurnId, NEW counts \in BOOLEAN, Asked(x, t),
           ~AbortedLlmReports => x.turn = t \/ x.llm[t] = "broken"
    PROVE  Follows(x, Report(x, t, counts), t)
<1>1. CASE ~counts BY <1>1, FineSelf DEF Report, Follows
<1>2. CASE counts
  <2> DEFINE r == [x.turns[t] EXCEPT !.vendor = @ \/ x.turn = t]
             f == [x.turns EXCEPT ![t] = r]
             g == [x.reported EXCEPT ![t] = TRUE]
             E == [x EXCEPT !.turns = f, !.reported = g]
  <2>1. x \in State /\ Core(x) /\ Voice(x) /\ Side(x) BY DEF Good
  <2>2. /\ OnUsage(x, t) \in State /\ Core(OnUsage(x, t))
        /\ Voice(OnUsage(x, t))
        BY <2>1, OnUsageCore
  <2>3. Report(x, t, counts) = OnUsage(x, t) /\ OnUsage(x, t) = E
        BY <1>2 DEF Report, OnUsage
  <2>4. /\ x.turns \in [TurnId -> Turn] /\ x.turns[t] \in Turn
        /\ x.reported \in [TurnId -> BOOLEAN]
        BY <2>1, TurnFacts, WireFacts
  <2>5. r.phase = x.turns[t].phase BY <2>4 DEF Turn
  <2>6. x.turn = t => r.vendor BY <2>4 DEF Turn
  <2>. HIDE DEF r
  <2>7. /\ f[t] = r /\ g[t]
        /\ \A u \in TurnId : u # t => f[u] = x.turns[u] /\ g[u] = x.reported[u]
        BY <2>4
  <2>. HIDE DEF f, g
  <2>8. /\ E.turns = f /\ E.reported = g /\ E.turn = x.turn
        /\ Doors(E) = Doors(x)
        /\ E.usages = x.usages /\ E.source = x.source
        /\ E.started = x.started /\ E.billed = x.billed
        /\ E.ttsStream = x.ttsStream /\ E.tts = x.tts
        /\ E.llmHandle = x.llmHandle /\ E.llm = x.llm
        /\ E.history = x.history /\ E.ended = x.ended
        /\ E.speaking = x.speaking
        BY <2>1 DEF State, Doors
  <2>. HIDE DEF E
  <2>9. \A u \in TurnId : E.turns[u].phase = x.turns[u].phase
        BY <2>5, <2>7, <2>8
  <2>10. x.turns[t].phase = "running" BY DEF Asked
  <2>11. Lines(E)
         BY <2>1, <2>7, <2>8, <2>9, <2>10 DEF Side, Lines
  <2>12. Events(E) BY <2>1, <2>8 DEF Side, Events
  <2>13. Talk(E)
    <3>1. x.turn \in TurnId \cup {None} BY <2>1, StateFacts
    <3>2. Running(E) <=> Running(x) BY <2>8, <2>9, <3>1 DEF Running
    <3>. QED BY <2>1, <2>8, <3>2 DEF Side, Talk
  <2>14. Counts(E)
    <3>1. ASSUME ~AbortedLlmReports, x.llm[t] # "broken"
          PROVE  r.vendor /\ x.usages[t] = 0
      <4>1. x.turn = t BY <3>1
      <4>2. ~x.turns[t].drained /\ Entry(x, t)
            BY <2>1, <4>1, WireFacts DEF Core, OpenOk
      <4>. QED BY <2>6, <2>10, <4>1, <4>2 DEF Entry
    <3>. QED BY <2>1, <2>7, <2>8, <3>1 DEF Side, Counts
  <2>15. (Quiet(x) => Quiet(E)) /\ (Asked(x, t) => Asked(E, t))
         BY <2>8, <2>9 DEF Quiet, Asked
  <2>16. Bills(x, E) BY <2>1, <2>8, <2>9, StateFacts DEF Bills
  <2>17. Fine(x, E)
         BY <2>2, <2>3, <2>8, <2>11, <2>12, <2>13, <2>14, <2>16
         DEF Fine, Sound, Good, Side
  <2>. QED BY <2>3, <2>8, <2>15, <2>17 DEF Follows
<1>. QED BY <1>1, <1>2

\* The open turn's answer goes behind its question.
LEMMA AnswerFine ==
    ASSUME NEW x, Good(x), NEW t \in TurnId, x.turn = t, Asked(x, t)
    PROVE  /\ Fine(x, Answer(x, t))
           /\ Quiet(x) => Quiet(Answer(x, t))
<1> DEFINE m == [role |-> "assistant", turn |-> t]
           h == Append(x.history, m)
           E == [x EXCEPT !.history = h]
<1>1. x \in State /\ Core(x) /\ Voice(x) /\ Side(x) BY DEF Good
<1>2. E \in State /\ Books(E) = Books(x) /\ E.speaking = x.speaking
      BY <1>1, AnswerBooks DEF Answer
<1>3. x.history \in Seq(Message) BY <1>1, WireFacts
<1>4. m.role = "assistant" /\ m.turn = t OBVIOUS
<1>. HIDE DEF m
<1>5. /\ Len(h) = Len(x.history) + 1
      /\ h[Len(h)] = m
      /\ \A i \in 1..Len(x.history) : h[i] = x.history[i]
      /\ Len(x.history) \in Nat
      BY <1>3
<1>6. Answer(x, t) = E BY DEF Answer, m
<1>. HIDE DEF h
<1>7. /\ E.history = h
      /\ Doors(E) = Doors(x) /\ Pages(E) = Pages(x)
      /\ E.ttsStream = x.ttsStream /\ E.tts = x.tts
      /\ E.llmHandle = x.llmHandle /\ E.llm = x.llm
      /\ E.ended = x.ended
      BY <1>1 DEF State, Doors, Pages
<1>. HIDE DEF E
<1>8. Core(E) /\ Voice(E) BY <1>1, <1>2, SameBooks, VoiceSame
<1>9. Lines(E) BY <1>1, <1>2, <1>7 DEF Side, Lines, Pages
<1>10. Events(E) /\ Counts(E)
       BY <1>1, <1>2, <1>7 DEF Side, Events, Counts, Pages
<1>11. Coherent(h)
  <2>. SUFFICES ASSUME NEW i \in 1..Len(h), h[i].role = "assistant"
       PROVE  i > 1 /\ h[i - 1] = Question(h[i].turn)
    BY DEF Coherent
  <2>1. CASE i = Len(h)
    <3>1. /\ Len(x.history) > 0
          /\ x.history[Len(x.history)] = Question(t)
          BY DEF Asked
    <3>2. i > 1 /\ i - 1 = Len(x.history) BY <1>5, <2>1, <3>1
    <3>3. i - 1 \in 1..Len(x.history) BY <1>5, <3>1, <3>2
    <3>. QED BY <1>4, <1>5, <2>1, <3>1, <3>2, <3>3
  <2>2. CASE i # Len(h)
    <3>1. i \in 1..Len(x.history) BY <1>5, <2>2
    <3>2. i > 1 /\ x.history[i - 1] = Question(x.history[i].turn)
          BY <1>1, <1>5, <3>1 DEF Side, Talk, Coherent
    <3>3. i - 1 \in 1..Len(x.history) BY <1>5, <3>1, <3>2
    <3>. QED BY <1>5, <3>1, <3>2, <3>3
  <2>. QED BY <2>1, <2>2
<1>12. Talk(E)
  <2>1. E.turn = t /\ E.llm[t] \in Over BY <1>7 DEF Asked, Pages
  <2>. QED BY <1>7, <1>11, <2>1 DEF Talk
<1>13. Bills(x, E) BY <1>1, <1>2, SameBills
<1>. QED BY <1>2, <1>6, <1>7, <1>8, <1>9, <1>10, <1>12, <1>13
         DEF Fine, Sound, Good, Side, Quiet

LEMMA OnDoneFine ==
    ASSUME NEW x, Good(x), Quiet(x), NEW t \in TurnId, Asked(x, t)
    PROVE  Fine(x, OnDone(x, t))
<1>1. CASE x.turn # t BY <1>1, SettleLlmFine DEF OnDone
<1>2. CASE x.turn = t
  <2> DEFINE a == Answer(x, t)
             b == SettleLlm(a, t)
  <2>1. Fine(x, a) /\ Quiet(a) BY <1>2, AnswerFine
  <2>2. OnDone(x, t) = Flush(b) BY <1>2 DEF OnDone
  <2>. HIDE DEF a
  <2>3. Good(a) BY <2>1, FineGood
  <2>4. Follows(a, b, t) BY <2>3, SettleLlmFine, MeterFollows
  <2>. HIDE DEF b
  <2>5. Good(b) /\ Quiet(b) BY <2>1, <2>4, FineGood DEF Follows
  <2>6. Follows(b, Flush(b), t) BY <2>5, FlushFine
  <2>. QED BY <2>1, <2>2, <2>3, <2>4, <2>6, FineTrans DEF Follows
<1>. QED BY <1>1, <1>2

-----------------------------------------------------------------------------
(* Actions.                                                                 *)

LEMMA VInvGood == VInv => Good(s)
BY DEF VInv, IInv, Core, Good

LEMMA InitVInv == Init => VInv
<1>. SUFFICES ASSUME Init PROVE VInv
  OBVIOUS
<1>1. IInv BY InitIInv
<1>2. /\ s.turn = None /\ s.ttsStream = None /\ s.llmHandle = None
      /\ s.history = << >> /\ ~s.speaking
      /\ s.stt = FALSE /\ s.sttOpen = FALSE /\ s.heard = 0 /\ ~s.closed
      /\ s.ended[None] = 0
      /\ \A t \in TurnId :
            /\ s.turns[t] = NoTurn /\ s.tts[t] = "none" /\ s.llm[t] = "none"
            /\ ~s.reported[t] /\ s.ended[t] = 0 /\ s.started[t] = 0
      BY DEF Init, Fresh
<1>3. NoTurn.phase = "none" BY DEF NoTurn
<1>4. Lines(s) BY <1>2, <1>3 DEF Lines
<1>5. Events(s) BY <1>2 DEF Events
<1>6. Talk(s)
  <2>1. Len(s.history) = 0 BY <1>2
  <2>. QED BY <1>2, <2>1 DEF Talk, Coherent, Running
<1>7. Counts(s) BY <1>2 DEF Counts
<1>8. Shut(s) BY <1>2 DEF Shut
<1>. QED BY <1>1, <1>4, <1>5, <1>6, <1>7, <1>8 DEF VInv, Side

LEMMA BeginRunSound ==
    VInv /\ IdLeft => Sound(s, BeginTurn(s)) /\ Sound(s, RunTurn(BeginTurn(s)))
<1>. SUFFICES ASSUME VInv, IdLeft
     PROVE  Sound(s, BeginTurn(s)) /\ Sound(s, RunTurn(BeginTurn(s)))
  OBVIOUS
<1> DEFINE y == BeginTurn(s)
<1>1. Sound(s, y) /\ Pending(y) /\ ~y.speaking
      BY VInvGood, BeginTurnSound DEF IdLeft
<1>. HIDE DEF y
<1>2. Sound(y, RunTurn(y)) BY <1>1, RunTurnSound DEF Sound
<1>. QED BY <1>1, <1>2 DEF Sound, y

\* The steps that open, shut or use the microphone's way in.
DoorStep == PushAudio \/ StartResolves \/ StartRejects \/ Close

\* Those that open a turn.
OpenStep == CommitAudio \/ SttSpeechEnd \/ SendText \/ SttFinal

\* A step that only changes a field nothing here depends on.
LEMMA SceneFine ==
    ASSUME NEW y, Good(s), y \in State, Core(y), Voice(y), Scene(y) = Scene(s)
    PROVE  Good(y)
BY SameScene DEF Good

LEMMA TtsFine ==
    ASSUME NEW t \in TurnId, VInv, Tts(t)
    PROVE  Fine(s, s')
<1>1. Good(s) BY VInvGood
<1>2. CASE TtsOpened(t)
  <2>1. s.tts[t] = "opening" BY <1>2 DEF TtsOpened
  <2>2. CASE s.turn # t \/ ~s.speaking
    <3> DEFINE z == TtsIs(s, t, "ended")
    <3>1. Fine(s, z) BY <1>1, <2>1, TtsEndedFine
    <3>2. s' = SettleLlm(z, t) BY <1>2, <2>2 DEF TtsOpened
    <3>. HIDE DEF z
    <3>. QED BY <3>1, <3>2, SettleLlmFine, FineGood, <1>1, FineTrans
  <2>3. CASE s.turn = t /\ s.speaking
    <3> DEFINE z == HoldTts(s, t)
    <3>1. /\ Fine(s, z)
          /\ z.speaking /\ z.turn = t /\ z.ttsStream = t
          /\ z.tts[t] = "open" /\ z.llm[t] = "none"
          BY <1>1, <2>1, <2>3, HoldTtsFine
    <3>2. s' = StartLlm(z, t) BY <1>2, <2>3 DEF TtsOpened
    <3>. HIDE DEF z
    <3>. QED BY <3>1, <3>2, StartLlmFine, FineGood, <1>1, FineTrans
  <2>. QED BY <2>2, <2>3
<1>3. CASE TtsRefused(t) \/ TtsEnds(t)
  <2>1. /\ s.tts[t] # "none"
        /\ s' = FinishTurn(TtsIs(s, t, "ended"), t)
        BY <1>3 DEF TtsRefused, TtsEnds
  <2>. QED BY <1>1, <2>1, TtsOverFine DEF Follows
<1>4. CASE LlmThrows(t)
  <2> DEFINE z == HoldTts(s, t)
  <2>1. Fine(s, z) BY <1>1, <1>4, HoldTtsFine DEF LlmThrows
  <2>2. s' = FinishTurn(z, t) BY <1>4 DEF LlmThrows
  <2>. HIDE DEF z
  <2>. QED BY <2>1, <2>2, FinishTurnFine, FineGood, <1>1, FineTrans
<1>. QED BY <1>2, <1>3, <1>4 DEF Tts

LEMMA LlmFine ==
    ASSUME NEW t \in TurnId, VInv, Llm(t)
    PROVE  Fine(s, s')
<1>1. Good(s) BY VInvGood
<1> DEFINE e == EndLlm(t)
<1>2. MayCall(t) =>
         /\ Fine(s, e) /\ Quiet(e) /\ Asked(e, t)
         /\ ~AbortedLlmReports => e.turn = t
      BY <1>1, OverFine DEF EndLlm, Over
<1>3. ASSUME MayCall(t), NEW counts \in BOOLEAN
      PROVE  /\ Follows(e, Report(e, t, counts), t)
             /\ Follows(e, OnLlmError(e, t), t)
  <2>. HIDE DEF e
  <2>. QED BY <1>2, <1>3, ReportFine, OnLlmErrorFine, FineGood
<1>4. CASE LlmDelta(t)
  <2> DEFINE f == [s.said EXCEPT ![s.ttsStream] = TRUE]
             E == [s EXCEPT !.said = f]
  <2>0. s \in State /\ Core(s) /\ Voice(s) BY <1>1 DEF Good
  <2>1. s.ttsStream \in TurnId BY <1>4, <2>0, WireFacts DEF LlmDelta
  <2>2. f \in [TurnId -> BOOLEAN] BY <2>0, <2>1, WireFacts
  <2>3. s' = E BY <1>4 DEF LlmDelta
  <2>. HIDE DEF f
  <2>4. /\ E \in State /\ Books(E) = Books(s) /\ E.speaking = s.speaking
        /\ Scene(E) = Scene(s) /\ Doors(E) = Doors(s)
        BY <2>0, <2>2 DEF State, Books, Scene, Doors
  <2>. HIDE DEF E
  <2>5. Core(E) /\ Voice(E) BY <2>0, <2>4, SameBooks, VoiceSame
  <2>6. Bills(s, E) BY <2>0, <2>4, SameBills
  <2>. QED BY <1>1, <2>3, <2>4, <2>5, <2>6, SceneFine DEF Fine, Sound
<1>5. CASE LlmCompletes(t)
  <2>1. MayCall(t) BY <1>5 DEF LlmCompletes
  <2>2. PICK counts \in BOOLEAN : s' = OnDone(Report(e, t, counts), t)
        BY <1>5 DEF LlmCompletes
  <2> DEFINE r == Report(e, t, counts)
  <2>3. Follows(e, r, t) BY <1>3, <2>1
  <2>4. Fine(s, r) /\ Quiet(r) /\ Asked(r, t)
        BY <1>1, <1>2, <2>1, <2>3, FineTrans DEF Follows
  <2>5. s' = OnDone(r, t) BY <2>2
  <2>. HIDE DEF r
  <2>. QED BY <1>1, <2>4, <2>5, OnDoneFine, FineGood, FineTrans
<1>6. ASSUME MayCall(t), NEW counts \in BOOLEAN
      PROVE  Fine(s, CountsThenError(t, counts))
  <2> DEFINE r == Report(e, t, counts)
             o == OnLlmError(r, t)
  <2>3. Follows(e, r, t) BY <1>3, <1>6
  <2>4. Fine(s, r) /\ Quiet(r) /\ Asked(r, t)
        BY <1>1, <1>2, <1>6, <2>3, FineTrans DEF Follows
  <2>. HIDE DEF r
  <2>5. Follows(r, o, t) BY <2>4, OnLlmErrorFine, FineGood
  <2>. HIDE DEF o
  <2>6. Fine(s, o) /\ Quiet(o) /\ Asked(o, t)
        BY <1>1, <2>4, <2>5, FineTrans DEF Follows
  <2>7. Fine(o, OnDone(o, t)) BY <2>6, OnDoneFine, FineGood, FineTrans
  <2>8. Fine(s, OnDone(o, t)) BY <1>1, <2>6, <2>7, FineTrans
  <2>. QED BY <2>8 DEF CountsThenError, o, r
<1>7. ASSUME MayCall(t), NEW counts \in BOOLEAN
      PROVE  Fine(s, ErrorThenCounts(t, counts))
  <2> DEFINE b == LlmIs(s, t, "broken")
             o == OnLlmError(b, t)
             r == Report(o, t, counts)
  <2>1. Fine(s, b) /\ Quiet(b) /\ Asked(b, t) /\ b.llm[t] = "broken"
        BY <1>1, <1>7, OverFine DEF Over
  <2>. HIDE DEF b
  <2>2. Follows(b, o, t) BY <2>1, OnLlmErrorFine, FineGood
  <2>. HIDE DEF o
  <2>3. Fine(s, o) /\ Quiet(o) /\ Asked(o, t) /\ o.llm[t] = "broken"
        BY <1>1, <2>1, <2>2, FineTrans DEF Follows
  <2>4. Follows(o, r, t) BY <2>3, ReportFine, FineGood
  <2>. HIDE DEF r
  <2>5. Fine(s, r) /\ Quiet(r) /\ Asked(r, t)
        BY <1>1, <2>3, <2>4, FineTrans DEF Follows
  <2>6. Fine(s, OnDone(r, t)) BY <1>1, <2>5, OnDoneFine, FineGood, FineTrans
  <2>. QED BY <2>6 DEF ErrorThenCounts, r, o, b
<1>8. CASE LlmFails(t) BY <1>6, <1>7, <1>8 DEF LlmFails
<1>9. CASE LlmStopsEarly(t)
  <2>1. MayCall(t) /\ s.llm[t] = "live" BY <1>9 DEF LlmStopsEarly, MayCall
  <2> DEFINE y == LlmIs(s, t, "stopped")
  <2>2. Fine(s, y) /\ Quiet(y) BY <1>1, <2>1, LlmIsFine
  <2>. HIDE DEF y
  <2>3. Fine(s, OnLlmError(y, t))
        BY <1>1, <2>2, OnLlmErrorFine, FineGood, FineTrans DEF Follows
  <2>. QED BY <1>6, <1>9, <2>1, <2>3 DEF LlmStopsEarly, y
<1>10. CASE LlmUnconfigured(t)
  <2>1. MayCall(t) /\ s' = OnLlmError(e, t)
        BY <1>10 DEF LlmUnconfigured, MayCall
  <2>2. Follows(e, OnLlmError(e, t), t) BY <1>3, <2>1
  <2>. QED BY <1>1, <1>2, <2>1, <2>2, FineGood, FineTrans DEF Follows
<1>. QED BY <1>4, <1>5, <1>8, <1>9, <1>10 DEF Llm

LEMMA PlainFine ==
    VInv /\ [Next]_s /\ ~DoorStep /\ ~OpenStep => Fine(s, s')
<1>. SUFFICES ASSUME VInv, [Next]_s, ~DoorStep, ~OpenStep PROVE Fine(s, s')
  OBVIOUS
<1>1. Good(s) BY VInvGood
<1>2. CASE UNCHANGED s BY <1>1, <1>2, FineSelf
<1>3. CASE ClientInterrupt \/ SttPartial
  BY <1>1, <1>3, InterruptFine, FineSelf DEF ClientInterrupt, SttPartial
<1>4. CASE SttSilence BY <1>1, <1>4, AbandonTurnFine DEF SttSilence
<1>5. CASE \E t \in TurnId : Tts(t) \/ Llm(t)
  BY <1>5, TtsFine, LlmFine
<1>6. CASE \E t \in TurnId : DrainTimeout(t)
  <2>1. PICK t \in TurnId : DrainTimeout(t) BY <1>6
  <2>2. s \in State /\ Core(s) /\ Voice(s) /\ Side(s) BY <1>1 DEF Good
  <2>3. s.turns[t].phase = "running" /\ s.turn = t
        BY <2>1, <2>2 DEF DrainTimeout, Core, Entry
  <2>4. ~s.speaking BY <2>1, <2>2, <2>3 DEF DrainTimeout, Voice
  <2>5. s' = DrainNow(s)
        BY <2>1, <2>3, <2>2, WireFacts DEF DrainTimeout, DrainNow, Running
  <2>. QED BY <1>1, <2>4, <2>5, DrainNowFine
<1>. QED BY <1>2, <1>3, <1>4, <1>5, <1>6
         DEF Next, Client, Stt, DoorStep, OpenStep

LEMMA PlainSound ==
    VInv /\ [Next]_s /\ ~DoorStep => Sound(s, s')
<1>1. VInv /\ OpenStep => Sound(s, s')
  BY BeginRunSound DEF OpenStep, CommitAudio, SttSpeechEnd, SendText, SttFinal
<1>. QED BY <1>1, PlainFine, FineGood

\* close() before its last usage report.
Cut(x) == DrainNow(Interrupt([x EXCEPT !.closed = TRUE]))

LEMMA CloseCut ==
    ASSUME VInv, Close
    PROVE  /\ Good(Cut(s)) /\ Bills(s, Cut(s))
           /\ Cut(s).turn = None /\ Cut(s).closed
           /\ Cut(s).counter <= MaxTurns
           /\ Cut(s).stt = s.stt /\ Cut(s).sttOpen = s.stt
           /\ Cut(s).starting = s.starting /\ Cut(s).heard = s.heard
<1> DEFINE a == [s EXCEPT !.closed = TRUE]
           b == Interrupt(a)
           c == DrainNow(b)
<1>1. /\ s \in State /\ Core(s) /\ Voice(s) /\ Side(s) /\ ~s.closed
      /\ s.sttOpen = s.stt
      BY VInvGood DEF Good, Close, InUse, VInv, Shut
<1>2. /\ a \in State /\ Scene(a) = Scene(s) /\ a.closed
      /\ a.starting = s.starting /\ a.heard = s.heard
      /\ a.stt = s.stt /\ a.sttOpen = s.sttOpen
      /\ a.counter = s.counter /\ a.bytes = s.bytes /\ a.billed = s.billed
      BY <1>1 DEF State, Scene
<1>. HIDE DEF a
<1>3. /\ a.turn = s.turn /\ a.turns = s.turns /\ a.usages = s.usages
      /\ a.source = s.source /\ a.started = s.started
      /\ a.speaking = s.speaking
      BY <1>2 DEF Scene
<1>4. Good(a)
  <2>1. \A t \in TurnId : Entry(a, t) BY <1>1, <1>2, <1>3 DEF Core, Entry
  <2>2. Core(a) BY <1>1, <1>2, <1>3, <2>1 DEF Core, OpenOk, HeldBytes
  <2>3. Voice(a) BY <1>1, <1>3 DEF Voice, Running
  <2>. QED BY <1>1, <1>2, <2>2, <2>3, SameScene DEF Good
<1>5. Fine(a, b) BY <1>4, InterruptFine
<1>6. /\ ~b.speaking /\ b.closed
      /\ b.counter <= a.counter
      /\ b.turn = None \/ Running(b)
      BY <1>2, <1>4, InterruptCore DEF Good
<1>. HIDE DEF b
<1>7. Good(b) BY <1>5, FineGood
<1>8. Fine(b, c) BY <1>6, <1>7, DrainNowFine
<1>9. /\ c.counter = b.counter /\ c.closed /\ c.turn = None
      BY <1>6, <1>7, DrainNowCore DEF Kept, Good
<1>. HIDE DEF c
<1>10. Fine(a, c) BY <1>4, <1>5, <1>8, FineTrans
<1>11. Good(c) /\ Bills(a, c) /\ Doors(c) = Doors(a) BY <1>10, FineGood
<1>12. Bills(s, c) BY <1>2, <1>3, <1>11 DEF Bills, Running
<1>13. c.counter <= MaxTurns
  <2>1. s.counter <= MaxTurns BY <1>1 DEF Core
  <2>2. s.counter \in Nat /\ b.counter \in Nat
        BY <1>1, <1>7, StateFacts DEF Good
  <2>. QED BY <1>2, <1>6, <1>9, <2>1, <2>2, BoundsAssumption
<1>14. Cut(s) = c BY DEF Cut, a, b, c
<1>. QED BY <1>1, <1>2, <1>9, <1>11, <1>12, <1>13, <1>14 DEF Doors

LEMMA CloseFine ==
    ASSUME VInv, Close
    PROVE  /\ Good(s')
           /\ s'.turn = None /\ s'.bytes < MinTail
           /\ ~s'.stt /\ s'.sttOpen = s'.stt /\ s'.closed
           /\ s'.starting = s.starting /\ s'.heard = s.heard
           /\ Books(s') = Books(FlushTail(Cut(s)))
<1> DEFINE c == Cut(s)
           d == FlushTail(c)
           o == d.sttOpen /\ ~s.stt
           E == [d EXCEPT !.stt = FALSE, !.sttOpen = o]
<1>1. /\ Good(c) /\ c.turn = None /\ c.closed /\ c.counter <= MaxTurns
      /\ c.stt = s.stt /\ c.sttOpen = s.stt
      /\ c.starting = s.starting /\ c.heard = s.heard
      BY CloseCut
<1>2. s' = E BY DEF Close, CloseSession, Cut
<1>. HIDE DEF c
<1>3. Sound(c, d) /\ d.turn = None /\ d.bytes < MinTail
      BY <1>1, FlushTailSound
<1>. HIDE DEF d
<1>4. /\ d \in State /\ Core(d) /\ Voice(d) /\ Side(d)
      /\ Doors(d) = Doors(c)
      BY <1>3 DEF Sound, Good
<1>5. s.stt \in BOOLEAN BY VInvGood, WireFacts DEF Good
<1>6. o = FALSE BY <1>1, <1>4, <1>5 DEF Doors
<1>. HIDE DEF o
<1>7. /\ E \in State /\ Books(E) = Books(d) /\ Scene(E) = Scene(d)
      /\ E.stt = FALSE /\ E.sttOpen = FALSE
      /\ E.closed = d.closed /\ E.turn = d.turn /\ E.bytes = d.bytes
      /\ E.starting = d.starting /\ E.heard = d.heard
      /\ E.speaking = d.speaking
      BY <1>4, <1>6 DEF State, Books, Scene
<1>. HIDE DEF E
<1>8. Good(E) BY <1>4, <1>7, SameBooks, VoiceSame, SameScene DEF Good
<1>. QED BY <1>1, <1>2, <1>3, <1>4, <1>7, <1>8 DEF Doors, c, d

LEMMA DoorStepVInv == VInv /\ DoorStep => VInv'
<1>. SUFFICES ASSUME VInv, DoorStep PROVE VInv'
  OBVIOUS
<1>1. /\ s \in State /\ Core(s) /\ Voice(s) /\ Side(s) /\ Shut(s) /\ IInv
      BY VInvGood DEF Good, VInv
<1>2. CASE PushAudio
  <2> DEFINE m == s.bytes + 1
             n == s.heard + 1
             E == [s EXCEPT !.bytes = m, !.heard = n]
  <2>1. IInv' BY <1>1, <1>2, PushAudioIInv
  <2>2. s' = E /\ ~s.closed /\ s.stt BY <1>2 DEF PushAudio, InUse
  <2>. HIDE DEF m, n
  <2>3. /\ Scene(E) = Scene(s) /\ E.closed = s.closed
        /\ E.starting = s.starting /\ E.stt = s.stt /\ E.sttOpen = s.sttOpen
        BY <1>1 DEF State, Scene
  <2>. HIDE DEF E
  <2>4. Side(E) BY <1>1, <2>3, SameScene
  <2>5. Shut(E) BY <1>1, <2>2, <2>3 DEF Shut
  <2>. QED BY <2>1, <2>2, <2>4, <2>5 DEF VInv
<1>3. CASE StartResolves
  <2> DEFINE E == [s EXCEPT !.starting = "ready", !.stt = TRUE,
                            !.sttOpen = TRUE]
  <2>1. IInv' BY <1>1, <1>3, SttIInv DEF Stt
  <2>2. s' = E /\ s.starting = "opening" BY <1>3 DEF StartResolves
  <2>3. /\ Scene(E) = Scene(s) /\ E.closed = s.closed
        /\ E.turn = s.turn /\ E.bytes = s.bytes /\ E.heard = s.heard
        /\ E.starting = "ready" /\ E.stt = TRUE /\ E.sttOpen = TRUE
        BY <1>1 DEF State, Scene
  <2>. HIDE DEF E
  <2>4. Side(E) BY <1>1, <2>3, SameScene
  <2>5. Shut(E) BY <1>1, <2>2, <2>3 DEF Shut
  <2>. QED BY <2>1, <2>2, <2>4, <2>5 DEF VInv
<1>4. CASE StartRejects
  <2> DEFINE E == [s EXCEPT !.starting = "failed"]
  <2>1. IInv' BY <1>1, <1>4, SttIInv DEF Stt
  <2>2. s' = E /\ s.starting = "opening" BY <1>4 DEF StartRejects
  <2>3. /\ Scene(E) = Scene(s) /\ E.closed = s.closed
        /\ E.turn = s.turn /\ E.bytes = s.bytes /\ E.heard = s.heard
        /\ E.starting = "failed" /\ E.stt = s.stt /\ E.sttOpen = s.sttOpen
        BY <1>1 DEF State, Scene
  <2>. HIDE DEF E
  <2>4. Side(E) BY <1>1, <2>3, SameScene
  <2>5. Shut(E) BY <1>1, <2>2, <2>3 DEF Shut
  <2>. QED BY <2>1, <2>2, <2>4, <2>5 DEF VInv
<1>5. CASE Close
  <2>1. /\ Good(s')
        /\ s'.turn = None /\ s'.bytes < MinTail
        /\ ~s'.stt /\ s'.sttOpen = s'.stt /\ s'.closed
        /\ s'.starting = s.starting /\ s'.heard = s.heard
        BY <1>5, CloseFine
  <2>2. IInv' /\ Side(s)' BY <2>1 DEF Good, IInv
  <2>3. Shut(s)' BY <1>1, <2>1 DEF Shut
  <2>. QED BY <2>2, <2>3 DEF VInv
<1>. QED BY <1>2, <1>3, <1>4, <1>5 DEF DoorStep

-----------------------------------------------------------------------------
(* After close().                                                           *)

\* No turn is open, so no method finds anything to do.
LEMMA MuteMethods ==
    ASSUME NEW x, x.turn = None, ~x.speaking, x.ttsStream = None, NEW t \in TurnId
    PROVE  /\ SettleLlm(x, t) = x
           /\ FinishTurn(x, t) = x
           /\ OnLlmError(x, t) = x
           /\ OnDone(x, t) = x
BY DEF SettleLlm, FinishTurn, OnLlmError, OnDone, Flush, TurnId, None

\* What a closed session has reported, and what it would report more from.
Last(x) == <<x.turn, x.bytes, x.closed, x.heard, x.stt, x.sttOpen, x.starting,
             x.started, x.ended, x.usages, x.billed>>

LEMMA TtsIsLast ==
    ASSUME NEW x \in State, NEW t \in TurnId, NEW st
    PROVE  /\ Last(TtsIs(x, t, st)) = Last(x)
           /\ TtsIs(x, t, st).turn = x.turn
           /\ TtsIs(x, t, st).speaking = x.speaking
           /\ TtsIs(x, t, st).ttsStream = x.ttsStream
<1> DEFINE f == [x.tts EXCEPT ![t] = st]
<1>. HIDE DEF f
<1>1. LET E == [x EXCEPT !.tts = f]
      IN  /\ Last(E) = Last(x) /\ E.turn = x.turn
          /\ E.speaking = x.speaking /\ E.ttsStream = x.ttsStream
      BY DEF State, Last
<1>. QED BY <1>1 DEF TtsIs, f

LEMMA LlmIsLast ==
    ASSUME NEW x \in State, NEW t \in TurnId, NEW st
    PROVE  /\ Last(LlmIs(x, t, st)) = Last(x)
           /\ LlmIs(x, t, st).turn = x.turn
           /\ LlmIs(x, t, st).speaking = x.speaking
           /\ LlmIs(x, t, st).ttsStream = x.ttsStream
<1> DEFINE f == [x.llm EXCEPT ![t] = st]
<1>. HIDE DEF f
<1>1. LET E == [x EXCEPT !.llm = f]
      IN  /\ Last(E) = Last(x) /\ E.turn = x.turn
          /\ E.speaking = x.speaking /\ E.ttsStream = x.ttsStream
      BY DEF State, Last
<1>. QED BY <1>1 DEF LlmIs, f

LEMMA ReportLast ==
    ASSUME NEW x \in State, NEW t \in TurnId, NEW counts \in BOOLEAN
    PROVE  LET y == Report(x, t, counts)
           IN  /\ Last(y) = Last(x) /\ y.turn = x.turn
               /\ y.speaking = x.speaking /\ y.ttsStream = x.ttsStream
<1> DEFINE r == [x.turns[t] EXCEPT !.vendor = @ \/ x.turn = t]
           f == [x.turns EXCEPT ![t] = r]
           g == [x.reported EXCEPT ![t] = TRUE]
           E == [x EXCEPT !.turns = f, !.reported = g]
<1>1. OnUsage(x, t) = E BY DEF OnUsage
<1>. HIDE DEF f, g
<1>2. /\ Last(E) = Last(x) /\ E.turn = x.turn
      /\ E.speaking = x.speaking /\ E.ttsStream = x.ttsStream
      BY DEF State, Last
<1>. HIDE DEF E
<1>. QED BY <1>1, <1>2 DEF Report

LEMMA ClosedStep ==
    VInv /\ s.closed /\ [Next]_s /\ ~StartResolves /\ ~StartRejects
        => Last(s') = Last(s)
<1>. SUFFICES ASSUME VInv, s.closed, [Next]_s, ~StartResolves, ~StartRejects
     PROVE  Last(s') = Last(s)
  OBVIOUS
<1>1. /\ s \in State /\ Core(s) /\ Voice(s) /\ Side(s) /\ Shut(s)
      BY VInvGood DEF Good, VInv
<1>2. /\ s.turn = None /\ s.sttOpen = s.stt
      /\ s.stt => s.heard = 0
      BY <1>1 DEF Shut
<1>3. ~s.speaking /\ s.ttsStream = None
      BY <1>1, <1>2 DEF Voice, Running, Side, Lines
<1>4. CASE UNCHANGED s BY <1>4
<1>5. ~Client
      BY DEF Client, PushAudio, CommitAudio, SendText, ClientInterrupt, Close,
             InUse
<1>6. CASE Stt
  <2>1. ~SttPartial /\ ~SttSpeechEnd /\ ~SttFinal
        BY <1>2 DEF SttPartial, SttSpeechEnd, SttFinal
  <2>2. SttSilence BY <1>6, <2>1 DEF Stt
  <2>. QED BY <1>2, <2>2 DEF SttSilence, AbandonTurn, Pending
<1>7. ASSUME NEW t \in TurnId, Tts(t) PROVE Last(s') = Last(s)
  <2> DEFINE z == TtsIs(s, t, "ended")
  <2>1. /\ Last(z) = Last(s) /\ z.turn = None
        /\ ~z.speaking /\ z.ttsStream = None
        BY <1>1, <1>2, <1>3, TtsIsLast
  <2>2. s.turn # t BY <1>2 DEF TurnId, None
  <2>3. \/ s' = SettleLlm(z, t)
        \/ s' = FinishTurn(z, t)
        BY <1>7, <2>2 DEF Tts, TtsOpened, TtsRefused, LlmThrows, TtsEnds
  <2>. HIDE DEF z
  <2>. QED BY <2>1, <2>3, MuteMethods
<1>8. ASSUME NEW t \in TurnId, Llm(t) PROVE Last(s') = Last(s)
  <2> DEFINE e == EndLlm(t)
             p == LlmIs(s, t, "stopped")
             b == LlmIs(s, t, "broken")
  <2>1. /\ Last(e) = Last(s) /\ e.turn = None
        /\ ~e.speaking /\ e.ttsStream = None
        BY <1>1, <1>2, <1>3, LlmIsLast DEF EndLlm
  <2>2. /\ Last(p) = Last(s) /\ p.turn = None
        /\ ~p.speaking /\ p.ttsStream = None
        /\ Last(b) = Last(s) /\ b.turn = None
        /\ ~b.speaking /\ b.ttsStream = None
        BY <1>1, <1>2, <1>3, LlmIsLast
  <2>3. e \in State /\ b \in State
        BY <1>1, LlmIsBooks DEF EndLlm, LlmState
  <2>4. ~LlmDelta(t) BY <1>3 DEF LlmDelta
  <2>5. \E counts \in BOOLEAN :
          \/ s' = OnDone(Report(e, t, counts), t)
          \/ s' = OnDone(OnLlmError(Report(e, t, counts), t), t)
          \/ s' = OnDone(Report(OnLlmError(b, t), t, counts), t)
          \/ s' = OnLlmError(e, t)
          \/ s' = OnLlmError(p, t)
        BY <1>8, <2>4
        DEF Llm, LlmCompletes, LlmFails, LlmStopsEarly, LlmUnconfigured,
            CountsThenError, ErrorThenCounts
  <2>. HIDE DEF e, p, b
  <2>6. OnLlmError(e, t) = e /\ OnLlmError(p, t) = p /\ OnLlmError(b, t) = b
        BY <2>1, <2>2, MuteMethods
  <2>7. ASSUME NEW counts \in BOOLEAN, NEW z \in {e, b}
        PROVE  LET r == Report(z, t, counts)
               IN  Last(r) = Last(s) /\ OnLlmError(r, t) = r /\ OnDone(r, t) = r
    <3> DEFINE r == Report(z, t, counts)
    <3>1. /\ Last(r) = Last(z) /\ r.turn = None
          /\ ~r.speaking /\ r.ttsStream = None
          BY <2>1, <2>2, <2>3, ReportLast
    <3>. HIDE DEF r
    <3>2. OnLlmError(r, t) = r /\ OnDone(r, t) = r BY <3>1, MuteMethods
    <3>. QED BY <2>1, <2>2, <3>1, <3>2 DEF r
  <2>. QED BY <2>1, <2>2, <2>5, <2>6, <2>7
<1>9. ~\E t \in TurnId : DrainTimeout(t)
      BY <1>1, <1>2 DEF DrainTimeout, Core, Entry, TurnId, None
<1>. QED BY <1>4, <1>5, <1>6, <1>7, <1>8, <1>9 DEF Next

LEMMA StepVInv == VInv /\ [Next]_s => VInv'
<1>. SUFFICES ASSUME VInv, [Next]_s PROVE VInv'
  OBVIOUS
<1>1. CASE DoorStep BY <1>1, DoorStepVInv
<1>2. CASE ~DoorStep
  <2>1. Good(s') /\ Doors(s') = Doors(s) BY <1>2, PlainSound DEF Sound
  <2>2. IInv' /\ Side(s)' BY <2>1 DEF Good, IInv
  <2>3. Shut(s)'
    <3>1. CASE s.closed
      <4>1. Last(s') = Last(s) BY <1>2, <3>1, ClosedStep DEF DoorStep
      <4>. QED BY <3>1, <4>1 DEF VInv, Shut, Last
    <3>2. CASE ~s.closed BY <2>1, <3>2 DEF VInv, Shut, Doors
    <3>. QED BY <3>1, <3>2
  <2>. QED BY <2>2, <2>3 DEF VInv
<1>. QED BY <1>1, <1>2

-----------------------------------------------------------------------------
(* Theorems                                                                 *)

\* The inductive invariant of the session with its streams, events and history.
THEOREM VoiceInvariance == Spec => []VInv
<1>1. Init => VInv BY InitVInv
<1>2. VInv /\ [Next]_s => VInv' BY StepVInv
<1>. QED BY <1>1, <1>2, PTL DEF Spec

\* turn_start and turn_end reach the client in matched pairs, one pair a turn that
\* ran, however it ended, and only the open turn can be between the two.
THEOREM EventsArePaired == Spec => []EventsPaired
<1>1. VInv => EventsPaired
  <2>. SUFFICES ASSUME VInv PROVE EventsPaired
    OBVIOUS
  <2>1. s \in State /\ Core(s) /\ Voice(s) /\ Events(s)
        BY VInvGood DEF Good, Side
  <2>2. ASSUME NEW t \in TurnId
        PROVE  /\ s.ended[t] <= s.started[t]
               /\ s.started[t] <= 1
               /\ s.ended[t] < s.started[t] <=> s.speaking /\ s.turn = t
    <3>1. s.started[t] \in {0, 1} BY <2>1 DEF Core, Entry
    <3>2. s.ended[t] = IF s.speaking /\ s.turn = t THEN 0 ELSE s.started[t]
          BY <2>1 DEF Events
    <3>3. s.speaking /\ s.turn = t => s.started[t] = 1
          BY <2>1 DEF Voice, Running, Core, Entry
    <3>. QED BY <3>1, <3>2, <3>3
  <2>. QED BY <2>1, <2>2 DEF EventsPaired, Events
<1>. QED BY <1>1, VoiceInvariance, PTL

\* An answer stands directly behind its question: no late answer of a superseded
\* turn gets into the conversation the next LLM call sees.
THEOREM HistoryIsCoherent == Spec => []HistoryCoherent
<1>1. VInv => HistoryCoherent
  <2>. SUFFICES ASSUME VInv PROVE HistoryCoherent
    OBVIOUS
  <2>1. Coherent(s.history) BY DEF VInv, Side, Talk
  <2>. QED BY <2>1 DEF Coherent, Question, HistoryCoherent
<1>. QED BY <1>1, VoiceInvariance, PTL

\* close() leaves no turn, timer or vendor stream, and no audio worth a record.
THEOREM ClosedSessionsAreSettled == Spec => []ClosedIsSettled
<1>1. VInv => ClosedIsSettled
  <2>. SUFFICES ASSUME VInv, s.closed PROVE ClosedIsSettled
    BY DEF ClosedIsSettled
  <2>1. s \in State /\ Core(s) /\ Voice(s) /\ Lines(s) /\ Shut(s)
        BY VInvGood DEF Good, Side, VInv
  <2>2. s.turn = None /\ s.bytes < MinTail BY <2>1 DEF Shut
  <2>3. s.ttsStream = None /\ s.llmHandle = None
        BY <2>1, <2>2 DEF Voice, Running, Lines
  <2>4. ASSUME NEW t \in TurnId
        PROVE  /\ ~s.turns[t].timer
               /\ s.llm[t] \notin {"live", "stopped"}
               /\ s.tts[t] \notin {"open", "flushed"}
    <3>1. t # None BY DEF TurnId, None
    <3>. QED BY <2>1, <2>2, <2>3, <3>1 DEF Core, Entry, Lines
  <2>. QED BY <2>2, <2>4 DEF ClosedIsSettled
<1>. QED BY <1>1, VoiceInvariance, PTL

\* Nothing is reported once close() has run: no late vendor answer or timer adds an
\* event or a usage to a record that is already filed.
THEOREM ClosedSessionsAreSilent == Spec => ClosedIsSilent
<1>1. VInv /\ [Next]_s => [s.closed => UNCHANGED Reports]_s
  <2>. SUFFICES ASSUME VInv, Next, s.closed PROVE UNCHANGED Reports
    OBVIOUS
  <2>1. s \in State BY VInvGood DEF Good
  <2>2. CASE StartResolves \/ StartRejects
    <3>1. /\ s'.started = s.started /\ s'.ended = s.ended
          /\ s'.usages = s.usages /\ s'.billed = s.billed
          BY <2>1, <2>2 DEF StartResolves, StartRejects, State
    <3>. QED BY <3>1 DEF Reports
  <2>3. CASE ~StartResolves /\ ~StartRejects
    <3>1. Last(s') = Last(s) BY <2>3, ClosedStep
    <3>. QED BY <3>1 DEF Last, Reports
  <2>. QED BY <2>2, <2>3
<1>. QED BY <1>1, VoiceInvariance, PTL DEF Spec, ClosedIsSilent

\* A vendor stream that may still report is the speaking turn's own, and the session
\* holds its handle.
StreamsHeld ==
    \A t \in TurnId :
        /\ s.tts[t] \in {"open", "flushed"} =>
               s.ttsStream = t /\ s.turn = t /\ s.speaking
        /\ s.llm[t] \in {"live", "stopped"} =>
               s.llmHandle = t /\ s.turn = t /\ s.speaking

\* Whatever the vendors do, also when an aborted LLM calls back, no stream runs that
\* a barge-in could not stop, and none runs for a turn that is over.
THEOREM LiveStreamsAreHeld == Spec => []StreamsHeld
<1>1. VInv => StreamsHeld
  <2>. SUFFICES ASSUME VInv, NEW t \in TurnId
       PROVE  /\ s.tts[t] \in {"open", "flushed"} =>
                     s.ttsStream = t /\ s.turn = t /\ s.speaking
              /\ s.llm[t] \in {"live", "stopped"} =>
                     s.llmHandle = t /\ s.turn = t /\ s.speaking
    BY DEF StreamsHeld
  <2>1. Lines(s) BY DEF VInv, Side
  <2>2. t # None BY DEF TurnId, None
  <2>. QED BY <2>1, <2>2 DEF Lines
<1>. QED BY <1>1, VoiceInvariance, PTL

\* Where an aborted LLM falls silent, moreover, an LLM that still answers speaks to a
\* stream that takes text: no late error cuts the current answer short.
THEOREM OneVoiceOnly ==
    ASSUME ~AbortedLlmReports
    PROVE  Spec => []OneVoice
<1>1. VInv /\ StreamsHeld => OneVoice
  <2>. SUFFICES ASSUME VInv, StreamsHeld PROVE OneVoice
    OBVIOUS
  <2>1. \A t \in TurnId : s.tts[t] = "flushed" => s.llm[t] # "live"
    BY DEF VInv, Side, Lines
  <2>. QED BY <2>1 DEF StreamsHeld, OneVoice
<1>. QED BY <1>1, LiveStreamsAreHeld, VoiceInvariance, PTL

\* Where an aborted LLM reports nothing, a turn whose counts were reported is billed
\* from them, unless its LLM raised its error before it reported them.
THEOREM VendorCountsAreBilled ==
    ASSUME ~AbortedLlmReports
    PROVE  Spec => []VendorCountsBilled
<1>1. VInv => VendorCountsBilled
  BY DEF VInv, Side, Counts, VendorCountsBilled
<1>. QED BY <1>1, VoiceInvariance, PTL

-----------------------------------------------------------------------------
(* 3. Billing.  Audio is conserved, so what a step makes of the owed audio    *)
(* follows from what it bills; and the methods say what they bill (Bills).    *)

\* The meter's variables in a state of the session.
Owed(x) == x.bytes + HeldBytes(x)
Runs(x) == IF Running(x) THEN {x.turn} ELSE {}
Paid(x) == {t \in TurnId : x.usages[t] > 0}

\* The meter's steps, between two states of the session.
Pays(x, y, ids) ==
    /\ Owed(y) \in 0..Owed(x)
    /\ y.billed = x.billed + (Owed(x) - Owed(y))
    /\ Paid(y) = Paid(x) \cup ids

Above(x, t) == \A u \in Runs(x) \cup Paid(x) : u < t

Idle(x, y) ==
    /\ Owed(y) = Owed(x) /\ y.billed = x.billed
    /\ Runs(y) = Runs(x) /\ Paid(y) = Paid(x)

Settles(x, y) == Runs(x) # {} /\ Pays(x, y, Runs(x)) /\ Runs(y) = {}

Starts(x, y, t) ==
    /\ Above(x, t)
    /\ Pays(x, y, Runs(x))
    /\ Runs(y) = {t}
    /\ Runs(x) = {} => Owed(y) = Owed(x) /\ y.billed = x.billed

ClosesOut(x, y, t) ==
    /\ Above(x, t)
    /\ Pays(x, y, Runs(x) \cup {t})
    /\ Runs(y) = {}

Hears(x, y) ==
    /\ Owed(y) = Owed(x) + 1
    /\ y.billed = x.billed /\ Runs(y) = Runs(x) /\ Paid(y) = Paid(x)

MeterStep(x, y) ==
    \/ Idle(x, y) \/ Settles(x, y) \/ Hears(x, y)
    \/ \E t \in TurnId : Starts(x, y, t) \/ ClosesOut(x, y, t)

-----------------------------------------------------------------------------

\* The audio of a good state is accounted for.
LEMMA OwedFacts ==
    ASSUME NEW x, Good(x)
    PROVE  /\ Owed(x) \in Nat /\ x.billed \in Nat /\ x.heard \in Nat
           /\ x.heard = Owed(x) + x.billed
<1>1. x \in State /\ Core(x) BY DEF Good
<1>2. x.bytes \in Nat /\ x.billed \in Nat /\ x.heard \in Nat
      BY <1>1, StateFacts
<1>3. HeldBytes(x) \in Nat
  <2>1. x.turn # None => x.turn \in TurnId BY <1>1, StateFacts
  <2>. QED BY <1>1, <2>1, TurnFacts DEF HeldBytes
<1>. QED BY <1>1, <1>2, <1>3 DEF Core, Owed

\* Of the turns that ran, all are paid but the open one.
LEMMA PaidFacts ==
    ASSUME NEW x, Good(x), NEW t \in TurnId
    PROVE  /\ x.turns[t].phase = "running" => (t \in Paid(x) <=> t \notin Runs(x))
           /\ t \in Runs(x) => x.turns[t].phase = "running"
           /\ t \in Paid(x) => t <= x.counter /\ x.turns[t].phase # "pending"
<1>1. x \in State /\ Core(x) BY DEF Good
<1>2. /\ Entry(x, t) /\ OpenOk(x)
      /\ x.turns[t].phase \in {"none", "pending", "running"}
      /\ x.turns[t].drained \in BOOLEAN
      /\ x.usages[t] \in Nat
      BY <1>1, TurnFacts, StateFacts DEF Core
<1>3. t \in Paid(x) <=> x.usages[t] > 0 BY DEF Paid
<1>4. t \in Runs(x) <=> Running(x) /\ t = x.turn BY DEF Runs
<1>5. t # None BY DEF TurnId, None
<1>6. x.turns[t].phase = "running" => (t \in Paid(x) <=> t \notin Runs(x))
      BY <1>2, <1>3, <1>4, <1>5 DEF Entry, OpenOk, Running
<1>7. t \in Runs(x) => x.turns[t].phase = "running"
      BY <1>4 DEF Running
<1>8. t \in Paid(x) => t <= x.counter /\ x.turns[t].phase # "pending"
  <2>1. t \in Nat /\ x.counter \in Nat BY <1>1, StateFacts DEF TurnId
  <2>. QED BY <1>2, <1>3, <2>1 DEF Entry
<1>. QED BY <1>6, <1>7, <1>8

\* What is heard is owed or paid, so paying more is owing less.
LEMMA Balance ==
    ASSUME NEW x, NEW y, Good(x), Good(y), y.heard = x.heard,
           y.billed >= x.billed
    PROVE  /\ Owed(y) \in 0..Owed(x)
           /\ y.billed = x.billed + (Owed(x) - Owed(y))
           /\ y.billed = x.billed => Owed(y) = Owed(x)
<1>1. /\ Owed(x) \in Nat /\ x.billed \in Nat
      /\ x.heard = Owed(x) + x.billed
      BY OwedFacts
<1>2. /\ Owed(y) \in Nat /\ y.billed \in Nat
      /\ y.heard = Owed(y) + y.billed
      BY OwedFacts
<1>. QED BY <1>1, <1>2

\* A step that opens no turn bills the open one, or nothing.
LEMMA BillsSettle ==
    ASSUME NEW x, NEW y, Good(x), Good(y), y.heard = x.heard, Bills(x, y)
    PROVE  /\ Idle(x, y) \/ Settles(x, y)
           /\ Pays(x, y, Runs(x) \ Runs(y))
           /\ Runs(x) = {} => Idle(x, y)
<1>0. x.turn \in TurnId \cup {None} BY StateFacts DEF Good
<1>1. /\ Owed(y) \in 0..Owed(x)
      /\ y.billed = x.billed + (Owed(x) - Owed(y))
      /\ y.billed = x.billed => Owed(y) = Owed(x)
      BY Balance DEF Bills
<1>2. CASE y.turn = x.turn \/ ~Running(x)
  <2>1. y.billed = x.billed BY <1>2 DEF Bills
  <2>2. Runs(y) = Runs(x)
    <3>1. Running(y) <=> Running(x) BY <1>0, <1>2 DEF Bills, Running
    <3>2. Running(x) => y.turn = x.turn BY <1>2
    <3>. QED BY <3>1, <3>2 DEF Runs
  <2>3. ASSUME NEW t \in TurnId PROVE t \in Paid(y) <=> t \in Paid(x)
    <3>1. CASE x.turns[t].phase = "running"
      <4>1. y.turns[t].phase = "running" BY <3>1 DEF Bills
      <4>. QED BY <2>2, <3>1, <4>1, PaidFacts
    <3>2. CASE x.turns[t].phase # "running" BY <3>2 DEF Bills, Paid
    <3>. QED BY <3>1, <3>2
  <2>4. Paid(y) = Paid(x) BY <2>3 DEF Paid
  <2>5. Idle(x, y) BY <1>1, <2>1, <2>2, <2>4 DEF Idle
  <2>. QED BY <1>1, <2>2, <2>4, <2>5 DEF Pays
<1>3. CASE y.turn # x.turn /\ Running(x)
  <2>1. y.turn = None /\ Runs(y) = {} /\ Runs(x) = {x.turn}
        BY <1>3 DEF Bills, Runs, Running
  <2>2. ASSUME NEW t \in TurnId
        PROVE  t \in Paid(y) <=> t \in Paid(x) \cup Runs(x)
    <3>1. CASE x.turns[t].phase = "running"
      <4>1. y.turns[t].phase = "running" BY <3>1 DEF Bills
      <4>. QED BY <2>1, <3>1, <4>1, PaidFacts
    <3>2. CASE x.turns[t].phase # "running"
      <4>1. t \notin Runs(x) BY <3>2, PaidFacts
      <4>. QED BY <3>2, <4>1 DEF Bills, Paid
    <3>. QED BY <3>1, <3>2
  <2>3. Runs(x) \subseteq TurnId BY <1>0, <1>3, <2>1 DEF Running
  <2>4. Paid(y) = Paid(x) \cup Runs(x) BY <2>2, <2>3 DEF Paid
  <2>5. Pays(x, y, Runs(x)) BY <1>1, <2>4 DEF Pays
  <2>. QED BY <2>1, <2>5 DEF Settles
<1>. QED BY <1>2, <1>3

-----------------------------------------------------------------------------
(* Steps that open a turn, and close().                                     *)

LEMMA OpenTurnPays ==
    ASSUME NEW x \in State
    PROVE  LET y == OpenTurn(x)
           IN  y.usages = x.usages /\ y.billed = x.billed /\ y.heard = x.heard
<1> DEFINE t == x.counter + 1
           f == [x.turns EXCEPT ![t] = NewTurn(x.bytes)]
           E == [x EXCEPT !.turns = f, !.counter = t, !.turn = t, !.bytes = 0]
<1>1. OpenTurn(x) = E BY DEF OpenTurn
<1>. HIDE DEF t, f
<1>2. E.usages = x.usages /\ E.billed = x.billed /\ E.heard = x.heard
      BY DEF State
<1>. QED BY <1>1, <1>2

LEMMA RunTurnPays ==
    ASSUME NEW x \in State, Pending(x)
    PROVE  LET y == RunTurn(x)
           IN  /\ y.usages = x.usages /\ y.billed = x.billed
               /\ y.heard = x.heard
               /\ y.turn = x.turn /\ Running(y)
<1> DEFINE t == x.turn
           r == [x.turns[t] EXCEPT !.phase = "running"]
           f == [x.turns EXCEPT ![t] = r]
           h == Append(x.history, [role |-> "user", turn |-> t])
           g == [x.started EXCEPT ![t] = x.started[t] + 1]
           c == [x.tts EXCEPT ![t] = "opening"]
           E == [x EXCEPT !.turns = f, !.history = h, !.speaking = TRUE,
                          !.started = g, !.tts = c]
<1>1. RunTurn(x) = E BY DEF RunTurn
<1>2. t \in TurnId /\ t # None BY StateFacts DEF Pending
<1>3. x.turns \in [TurnId -> Turn] /\ x.turns[t] \in Turn
      BY <1>2, TurnFacts
<1>4. r.phase = "running" BY <1>3 DEF Turn
<1>5. f[t] = r BY <1>2, <1>3
<1>. HIDE DEF r, f, h, g, c
<1>6. /\ E.usages = x.usages /\ E.billed = x.billed /\ E.heard = x.heard
      /\ E.turn = t /\ E.turns = f
      BY DEF State
<1>. HIDE DEF E, t
<1>7. Running(E) BY <1>2, <1>4, <1>5, <1>6 DEF Running
<1>. QED BY <1>1, <1>6, <1>7 DEF t

\* The turn that is barged over is billed, and the id of the new one is unused.
LEMMA BeginTurnPays ==
    ASSUME NEW x, Good(x), x.counter < MaxTurns \/ Pending(x)
    PROVE  LET y == BeginTurn(x)
           IN  /\ Good(y) /\ Pending(y) /\ y.heard = x.heard
               /\ y.billed >= x.billed
               /\ Paid(y) = Paid(x) \cup Runs(x)
               /\ \A u \in Paid(y) : u < y.turn
               /\ Runs(x) = {} => y.billed = x.billed
<1> DEFINE c == ClearTurn(x)
           y == BeginTurn(x)
<1>1. Fine(x, c) /\ Good(c) /\ c.heard = x.heard /\ Bills(x, c)
      BY ClearTurnFine, FineGood DEF Doors
<1>2. Sound(x, y) /\ Pending(y) BY BeginTurnSound
<1>3. Good(y) /\ y.heard = x.heard BY <1>2 DEF Sound, Doors
<1>4. /\ Running(x) => c.turn = None
      /\ ~Running(x) => c = x
      BY ClearTurnCore DEF Good
<1>5. y = IF c.turn # None THEN c ELSE OpenTurn(c) BY DEF BeginTurn
<1>. HIDE DEF c, y
<1>6. y.usages = c.usages /\ y.billed = c.billed
      BY <1>1, <1>5, OpenTurnPays DEF Good
<1>7. Runs(c) = {} BY <1>4 DEF Runs, Running
<1>8. Pays(x, c, Runs(x) \ Runs(c)) /\ (Runs(x) = {} => Idle(x, c))
      BY <1>1, BillsSettle
<1>9. Paid(c) = Paid(x) \cup Runs(x) BY <1>7, <1>8 DEF Pays
<1>10. Paid(y) = Paid(c) BY <1>6 DEF Paid
<1>11. \A u \in Paid(y) : u < y.turn
  <2>1. y \in State /\ OpenOk(y) BY <1>3 DEF Good, Core
  <2>2. y.turn = y.counter /\ y.turns[y.turn].phase = "pending"
        BY <1>2, <2>1 DEF OpenOk, Pending
  <2>3. \A u \in Paid(y) : u \in TurnId /\ u <= y.counter /\ u # y.turn
        BY <1>3, <2>2, PaidFacts DEF Paid
  <2>4. y.counter \in Nat BY <2>1, StateFacts
  <2>. QED BY <2>2, <2>3, <2>4 DEF TurnId
<1>12. y.billed >= x.billed BY <1>1, <1>6 DEF Bills
<1>13. Runs(x) = {} => y.billed = x.billed BY <1>6, <1>8 DEF Idle
<1>. QED BY <1>2, <1>3, <1>9, <1>10, <1>11, <1>12, <1>13 DEF y

LEMMA OpenMeter ==
    ASSUME VInv, OpenStep
    PROVE  MeterStep(s, s')
<1> DEFINE y == BeginTurn(s)
           t == y.turn
<1>1. Good(s) BY VInvGood
<1>2. s.counter < MaxTurns \/ Pending(s)
      BY DEF OpenStep, CommitAudio, SttSpeechEnd, SendText, SttFinal, IdLeft
<1>3. /\ Good(y) /\ Pending(y) /\ y.heard = s.heard
      /\ y.billed >= s.billed
      /\ Paid(y) = Paid(s) \cup Runs(s)
      /\ \A u \in Paid(y) : u < y.turn
      /\ Runs(s) = {} => y.billed = s.billed
      BY <1>1, <1>2, BeginTurnPays
<1>4. s' = y \/ s' = RunTurn(y)
      BY DEF OpenStep, CommitAudio, SttSpeechEnd, SendText, SttFinal
<1>. HIDE DEF y
<1>5. t \in TurnId BY <1>3, StateFacts DEF Pending, Good
<1>6. CASE s' = y
  <2>1. Runs(y) = {} BY <1>3 DEF Runs, Running, Pending
  <2>2. /\ Owed(y) \in 0..Owed(s)
        /\ y.billed = s.billed + (Owed(s) - Owed(y))
        /\ y.billed = s.billed => Owed(y) = Owed(s)
        BY <1>1, <1>3, Balance
  <2>3. Pays(s, y, Runs(s)) BY <1>3, <2>2 DEF Pays
  <2>4. Runs(s) # {} => Settles(s, y) BY <2>1, <2>3 DEF Settles
  <2>5. Runs(s) = {} => Idle(s, y) BY <1>3, <2>1, <2>2 DEF Idle
  <2>. QED BY <1>6, <2>4, <2>5 DEF MeterStep
<1>7. CASE s' = RunTurn(y)
  <2> DEFINE z == RunTurn(y)
  <2>1. /\ z.usages = y.usages /\ z.billed = y.billed /\ z.heard = y.heard
        /\ z.turn = t /\ Running(z)
        BY <1>3, RunTurnPays DEF Good
  <2>2. Sound(y, z)
    <3>1. ~y.speaking BY <1>3 DEF Good, Voice, Pending, Running
    <3>. QED BY <1>3, <3>1, RunTurnSound
  <2>. HIDE DEF z
  <2>3. Good(z) BY <2>2 DEF Sound
  <2>4. /\ Owed(z) \in 0..Owed(s)
        /\ z.billed = s.billed + (Owed(s) - Owed(z))
        /\ z.billed = s.billed => Owed(z) = Owed(s)
        BY <1>1, <1>3, <2>1, <2>3, Balance
  <2>5. Paid(z) = Paid(s) \cup Runs(s) BY <1>3, <2>1 DEF Paid
  <2>6. Runs(z) = {t} BY <2>1 DEF Runs
  <2>7. Above(s, t) BY <1>3 DEF Above
  <2>8. Pays(s, z, Runs(s)) BY <2>4, <2>5 DEF Pays
  <2>. HIDE DEF t
  <2>9. Starts(s, z, t)
        BY <1>3, <2>1, <2>4, <2>6, <2>7, <2>8 DEF Starts
  <2>. QED BY <1>5, <1>7, <2>9 DEF MeterStep, z
<1>. QED BY <1>4, <1>6, <1>7

LEMMA CloseMeter ==
    ASSUME VInv, Close
    PROVE  MeterStep(s, s')
<1> DEFINE c == Cut(s)
           d == FlushTail(c)
           t == c.counter + 1
           n == c.billed + c.bytes
<1>1. /\ Good(c) /\ Bills(s, c) /\ c.turn = None /\ c.closed
      /\ c.counter <= MaxTurns /\ c.heard = s.heard
      BY CloseCut
<1>2. Good(s) BY VInvGood
<1>3. /\ Good(s') /\ s'.turn = None /\ s'.heard = s.heard
      /\ Books(s') = Books(d)
      BY CloseFine
<1>. HIDE DEF c
<1>4. Runs(c) = {} /\ Runs(s') = {} BY <1>1, <1>3 DEF Runs, Running
<1>5. /\ Idle(s, c) \/ Settles(s, c)
      /\ Pays(s, c, Runs(s) \ Runs(c))
      BY <1>1, <1>2, BillsSettle
<1>6. Paid(c) = Paid(s) \cup Runs(s) BY <1>4, <1>5 DEF Pays
<1>7. s'.usages = d.usages /\ s'.billed = d.billed BY <1>3 DEF Books
<1>8. CASE c.bytes < MinTail
  <2>1. d = c BY <1>8 DEF FlushTail
  <2>2. Bills(s, s')
    <3>1. /\ s'.turn = c.turn /\ s'.turns = c.turns
          /\ s'.usages = c.usages /\ s'.billed = c.billed
          BY <1>3, <2>1 DEF Books
    <3>. QED BY <1>1, <3>1 DEF Bills
  <2>. QED BY <1>2, <1>3, <2>2, BillsSettle DEF MeterStep
<1>9. CASE ~(c.bytes < MinTail)
  <2>1. c \in State /\ Core(c) BY <1>1 DEF Good
  <2>2. t \in TurnId /\ t > c.counter /\ n >= c.billed
    <3>1. c.counter \in Nat /\ c.bytes \in Nat /\ c.billed \in Nat
          BY <2>1, StateFacts
    <3>. QED BY <1>1, <3>1, BoundsAssumption DEF TurnId
  <2> DEFINE u == [c.usages EXCEPT ![t] = c.usages[t] + 1]
             w == [c.source EXCEPT ![t] = "tail"]
             E == [c EXCEPT !.usages = u, !.source = w, !.counter = t,
                            !.billed = n, !.bytes = 0]
  <2>3. d = E BY <1>9 DEF FlushTail
  <2>4. c.usages \in [TurnId -> Nat] BY <2>1, StateFacts
  <2>5. u[t] > 0 /\ \A v \in TurnId : v # t => u[v] = c.usages[v]
        BY <2>2, <2>4
  <2>. HIDE DEF t, u, w, n, d
  <2>6. E.usages = u /\ E.billed = n BY <2>1 DEF State
  <2>. HIDE DEF E
  <2>7. Paid(s') = Paid(c) \cup {t}
        BY <1>7, <2>2, <2>3, <2>5, <2>6 DEF Paid
  <2>8. s'.billed >= s.billed
    <3>1. c.billed >= s.billed BY <1>1 DEF Bills
    <3>2. s'.billed >= c.billed BY <1>7, <2>2, <2>3, <2>6
    <3>3. s.billed \in Nat /\ c.billed \in Nat /\ s'.billed \in Nat
          BY <1>1, <1>2, <1>3, OwedFacts
    <3>. QED BY <3>1, <3>2, <3>3
  <2>9. /\ Owed(s') \in 0..Owed(s)
        /\ s'.billed = s.billed + (Owed(s) - Owed(s'))
        BY <1>2, <1>3, <2>8, Balance
  <2>10. Pays(s, s', Runs(s) \cup {t}) BY <1>6, <2>7, <2>9 DEF Pays
  <2>11. Above(s, t)
    <3>1. \A v \in Paid(c) : v \in TurnId /\ v <= c.counter
          BY <1>1, PaidFacts DEF Paid
    <3>2. c.counter \in Nat /\ t \in Nat
          BY <2>1, <2>2, StateFacts DEF TurnId
    <3>3. \A v \in Paid(c) : v < t BY <2>2, <3>1, <3>2 DEF TurnId
    <3>. QED BY <1>6, <3>3 DEF Above
  <2>12. ClosesOut(s, s', t) BY <1>4, <2>10, <2>11 DEF ClosesOut
  <2>. QED BY <2>2, <2>12 DEF MeterStep
<1>. QED BY <1>8, <1>9

LEMMA DoorMeter ==
    ASSUME VInv, PushAudio \/ StartResolves \/ StartRejects
    PROVE  MeterStep(s, s')
<1>1. s \in State BY VInvGood DEF Good
<1>2. CASE StartResolves \/ StartRejects
  <2>1. /\ s'.turn = s.turn /\ s'.turns = s.turns /\ s'.bytes = s.bytes
        /\ s'.billed = s.billed /\ s'.usages = s.usages
        BY <1>1, <1>2 DEF StartResolves, StartRejects, State
  <2>. QED BY <2>1
           DEF MeterStep, Idle, Owed, HeldBytes, Runs, Running, Paid
<1>3. CASE PushAudio
  <2> DEFINE m == s.bytes + 1
             n == s.heard + 1
             E == [s EXCEPT !.bytes = m, !.heard = n]
  <2>1. s' = E BY <1>3 DEF PushAudio
  <2>2. s.bytes \in Nat /\ Owed(s) \in Nat
        BY <1>1, VInvGood, OwedFacts, StateFacts
  <2>. HIDE DEF m, n
  <2>3. /\ E.turn = s.turn /\ E.turns = s.turns /\ E.bytes = m
        /\ E.billed = s.billed /\ E.usages = s.usages
        BY <1>1 DEF State
  <2>. HIDE DEF E
  <2>4. HeldBytes(s') = HeldBytes(s) /\ Runs(s') = Runs(s)
        /\ Paid(s') = Paid(s) /\ s'.billed = s.billed
        BY <2>1, <2>3 DEF HeldBytes, Runs, Running, Paid
  <2>5. HeldBytes(s) \in Nat
    <3>1. s.turn # None => s.turn \in TurnId BY <1>1, StateFacts
    <3>. QED BY <1>1, <3>1, TurnFacts DEF HeldBytes
  <2>6. Owed(s') = Owed(s) + 1
        BY <2>1, <2>2, <2>3, <2>4, <2>5 DEF Owed, m
  <2>. QED BY <2>4, <2>6 DEF MeterStep, Hears
<1>. QED BY <1>2, <1>3

LEMMA StepMeter == VInv /\ [Next]_s => MeterStep(s, s')
<1>. SUFFICES ASSUME VInv, [Next]_s PROVE MeterStep(s, s')
  OBVIOUS
<1>1. CASE OpenStep BY <1>1, OpenMeter
<1>2. CASE DoorStep BY <1>2, CloseMeter, DoorMeter DEF DoorStep
<1>3. CASE ~OpenStep /\ ~DoorStep
  <2>1. /\ Good(s) /\ Good(s') /\ Bills(s, s') /\ s'.heard = s.heard
        BY <1>3, VInvGood, PlainFine, FineGood DEF Doors
  <2>. QED BY <2>1, BillsSettle DEF MeterStep
<1>. QED BY <1>1, <1>2, <1>3

-----------------------------------------------------------------------------
(* The refinement                                                           *)

LEMMA InitBilling == Init => Billing!Init
<1>. SUFFICES ASSUME Init PROVE Billing!Init
  OBVIOUS
<1>1. /\ s.turn = None /\ s.bytes = 0 /\ s.billed = 0
      /\ \A t \in TurnId : s.usages[t] = 0
      BY DEF Init, Fresh
<1>2. {t \in TurnId : s.usages[t] > 0} = {} BY <1>1
<1>. QED BY <1>1, <1>2 DEF Billing!Init, HeldBytes, Running

LEMMA StepBilling ==
    MeterStep(s, s') => [Billing!Next]_(Billing!vars)
<1>. SUFFICES ASSUME MeterStep(s, s') PROVE [Billing!Next]_(Billing!vars)
  OBVIOUS
<1>1. CASE Idle(s, s')
  BY <1>1 DEF Idle, Owed, Runs, Paid, Billing!vars
<1>2. CASE Settles(s, s')
  <2>1. Billing!Settle
        BY <1>2 DEF Settles, Pays, Owed, Runs, Paid, Billing!Settle, Billing!Bill
  <2>. QED BY <2>1 DEF Billing!Next
<1>3. CASE Hears(s, s')
  <2>1. Billing!Hear BY <1>3 DEF Hears, Owed, Runs, Paid, Billing!Hear
  <2>. QED BY <2>1 DEF Billing!Next
<1>4. CASE \E t \in TurnId : Starts(s, s', t)
  <2>1. PICK t \in TurnId : Starts(s, s', t) BY <1>4
  <2>2. Billing!Start(t)
        BY <2>1 DEF Starts, Above, Pays, Owed, Runs, Paid,
                    Billing!Start, Billing!Unused, Billing!Bill
  <2>. QED BY <2>2 DEF Billing!Next
<1>5. CASE \E t \in TurnId : ClosesOut(s, s', t)
  <2>1. PICK t \in TurnId : ClosesOut(s, s', t) BY <1>5
  <2>2. Billing!CloseOut({t})
        BY <2>1 DEF ClosesOut, Above, Pays, Owed, Runs, Paid,
                    Billing!CloseOut, Billing!Unused, Billing!Bill
  <2>. QED BY <2>2 DEF Billing!Next
<1>. QED BY <1>1, <1>2, <1>3, <1>4, <1>5 DEF MeterStep

\* The session implements the meter: audio is owed until it is billed, at most one
\* turn runs, and a turn is billed once, under its own id, as it stops running, in
\* the order the turns ran; close() bills what is left.
THEOREM SessionImplementsBilling == Spec => ImplementsBilling
<1>1. Init => Billing!Init BY InitBilling
<1>2. VInv /\ [Next]_s => [Billing!Next]_(Billing!vars)
      BY StepMeter, StepBilling
<1>. QED BY <1>1, <1>2, VoiceInvariance, PTL
         DEF Spec, ImplementsBilling, Billing!Spec
=============================================================================

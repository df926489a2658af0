-------------------------- MODULE PipelineSession --------------------------
(***************************************************************************)
(* src/backend/src/pipeline/PipelineSession.ts: STT -> LLM -> TTS wired    *)
(* into one VoiceSession.  Every vendor callback and every client call     *)
(* runs to completion on the event loop, so each is one action; only the   *)
(* two awaits, of stt.open() in start() and of tts.open() in runTurn(),    *)
(* split a method in two.                                                  *)
(*                                                                         *)
(* A handler is a chain of private methods that update the same object.    *)
(* The object is the record s, each private method is an operator from a   *)
(* state to the next, and an action composes them in the order the code    *)
(* calls them.  The fields of s that stand for the other side (the vendor  *)
(* streams) and for what the session reported (the events) come last.      *)
(***************************************************************************)
EXTENDS Naturals, Sequences

CONSTANTS
    MaxTurns,          \* bound: no new turn opens once turnCounter reaches it
    MaxAudio,          \* bound: units of microphone audio handed to the STT
    MinTail,           \* MIN_TAIL_SECONDS, in the same units
    AbortedLlmReports, \* an aborted LLM may still call back
    OneShotTts         \* flush() of a stream with no text ends it synchronously

ASSUME BoundsAssumption ==
    /\ MaxTurns \in Nat
    /\ MaxAudio \in Nat
    /\ MinTail \in Nat \ {0}

ASSUME VendorAssumption ==
    /\ AbortedLlmReports \in BOOLEAN
    /\ OneShotTts \in BOOLEAN

VARIABLE s

\* The tail closed out by close() may take one id more than the last turn.
TurnId == 1..(MaxTurns + 1)

None == 0    \* an undefined turn, TTS stream or LLM handle

\* A Turn object; phase "none" is an id no live object has.
Turn ==
    [phase   : {"none", "pending", "running"},
     bytes   : Nat,
     vendor  : BOOLEAN,   \* turn.llm is set
     settled : BOOLEAN,
     drained : BOOLEAN,
     timer   : BOOLEAN]

NoTurn ==
    [phase |-> "none", bytes |-> 0, vendor |-> FALSE,
     settled |-> FALSE, drained |-> FALSE, timer |-> FALSE]

TtsState == {"none", "opening", "open", "flushed", "ended"}
\* "broken": over, and its error was raised before its counts were reported.
LlmState == {"none", "live", "stopped", "aborted", "broken", "ended"}
Message  == [role : {"user", "assistant"}, turn : TurnId]

State ==
    [\* start(): awaiting stt.open(), resolved, or rejected
     starting  : {"opening", "ready", "failed"},
     closed    : BOOLEAN,
     stt       : BOOLEAN,            \* sttStream is defined
     ttsStream : TurnId \cup {None},
     llmHandle : TurnId \cup {None},
     history   : Seq(Message),
     counter   : 0..(MaxTurns + 1),  \* turnCounter
     turn      : TurnId \cup {None},
     turns     : [TurnId -> Turn],
     speaking  : BOOLEAN,
     bytes     : Nat,                \* sttBytesPending
     \* the vendors
     sttOpen   : BOOLEAN,
     tts       : [TurnId -> TtsState],
     said      : [TurnId -> BOOLEAN],   \* text was pushed into the TTS stream
     llm       : [TurnId -> LlmState],
     \* what has been reported so far
     heard     : Nat,                   \* audio handed to the STT vendor
     billed    : Nat,                   \* audio in all usage reports
     started   : [TurnId -> Nat],       \* onTurnStart events
     ended     : [TurnId \cup {None} -> Nat],  \* onTurnEnd events
     usages    : [TurnId -> Nat],       \* onUsage events
     reported  : [TurnId -> BOOLEAN],   \* the LLM reported its counts
     source    : [TurnId -> {"none", "local", "vendor", "tail"}]]

Fresh ==
    [starting |-> "opening", closed |-> FALSE, stt |-> FALSE,
     ttsStream |-> None, llmHandle |-> None, history |-> << >>,
     counter |-> 0, turn |-> None, turns |-> [t \in TurnId |-> NoTurn],
     speaking |-> FALSE, bytes |-> 0, sttOpen |-> FALSE,
     tts |-> [t \in TurnId |-> "none"], said |-> [t \in TurnId |-> FALSE],
     llm |-> [t \in TurnId |-> "none"], heard |-> 0, billed |-> 0,
     started |-> [t \in TurnId |-> 0],
     ended |-> [t \in TurnId \cup {None} |-> 0],
     usages |-> [t \in TurnId |-> 0],
     reported |-> [t \in TurnId |-> FALSE],
     source |-> [t \in TurnId |-> "none"]]

Init == s = Fresh

Running(x) == x.turn # None /\ x.turns[x.turn].phase = "running"
Pending(x) == x.turn # None /\ x.turns[x.turn].phase = "pending"

-----------------------------------------------------------------------------
(* Private methods, each from the state it is called in to the one it      *)
(* leaves.                                                                  *)

AbortLlm(x) ==
    IF x.llmHandle = None THEN x
    ELSE [x EXCEPT !.llm = [x.llm EXCEPT ![x.llmHandle] =
                                IF @ \in {"broken", "ended"} THEN @
                                ELSE "aborted"],
                   !.llmHandle = None]

\* The vendor's side of turn t's streams.
TtsIs(x, t, status) == [x EXCEPT !.tts = [x.tts EXCEPT ![t] = status]]
LlmIs(x, t, status) == [x EXCEPT !.llm = [x.llm EXCEPT ![t] = status]]

\* ttsStream?.cancel() and ttsStream?.close(), and forgetting the stream.
EndTts(x) ==
    IF x.ttsStream = None THEN x
    ELSE [x EXCEPT !.tts = [x.tts EXCEPT ![x.ttsStream] = "ended"],
                   !.ttsStream = None]

Drained(r) == [r EXCEPT !.drained = TRUE, !.timer = FALSE]

EmitUsage(x, t) ==
    IF x.turns[t].drained THEN x
    ELSE [x EXCEPT !.turns = [x.turns EXCEPT ![t] = Drained(x.turns[t])],
                   !.turn = IF x.turn = t THEN None ELSE x.turn,
                   !.billed = x.billed + x.turns[t].bytes,
                   !.usages = [x.usages EXCEPT ![t] = x.usages[t] + 1],
                   !.source = [x.source EXCEPT ![t] =
                       IF x.turns[t].vendor THEN "vendor" ELSE "local"]]

DrainNow(x) == IF Running(x) THEN EmitUsage(x, x.turn) ELSE x

\* Mutant: nothing to wait for, so nothing is done.
RequestDrain_SkipsSettled(x, t) ==
    IF x.turn # t \/ x.turns[t].drained \/ x.turns[t].settled THEN x
    ELSE [x EXCEPT !.turns =
             [x.turns EXCEPT ![t] = [x.turns[t] EXCEPT !.timer = TRUE]]]

\* Waits for the LLM leg on a timer; a second request does not wait again.
RequestDrain(x, t) ==
    IF x.turn # t \/ x.turns[t].drained THEN x
    ELSE IF x.turns[t].settled \/ x.turns[t].timer THEN EmitUsage(x, t)
    ELSE [x EXCEPT !.turns =
             [x.turns EXCEPT ![t] = [x.turns[t] EXCEPT !.timer = TRUE]]]

\* The LLM leg is done; a drain that waited for it need not wait any longer.
Settled(x, t) ==
    [x EXCEPT !.turns =
        [x.turns EXCEPT ![t] = [x.turns[t] EXCEPT !.settled = TRUE]]]

SettleLlm(x, t) ==
    IF x.turn # t \/ x.turns[t].settled THEN x
    ELSE IF x.turns[t].timer THEN EmitUsage(Settled(x, t), t)
    ELSE Settled(x, t)

\* Mutant: the audio the turn held is not given back.
AbandonTurn_LosesAudio(x) ==
    IF ~Pending(x) THEN x
    ELSE [x EXCEPT !.turns = [x.turns EXCEPT ![x.turn] = NoTurn],
                   !.counter = x.counter - 1,
                   !.turn = None]

AbandonTurn(x) ==
    IF ~Pending(x) THEN x
    ELSE [x EXCEPT !.turns = [x.turns EXCEPT ![x.turn] = NoTurn],
                   !.bytes = x.bytes + x.turns[x.turn].bytes,
                   !.counter = x.counter - 1,
                   !.turn = None]

\* The speaking half of interrupt(): onInterrupt, then onTurnEnd.
StopSpeaking(x, t) ==
    IF ~x.speaking THEN x
    ELSE [x EXCEPT !.speaking = FALSE,
                   !.ended = [x.ended EXCEPT ![t] = x.ended[t] + 1]]

\* Mutant: what was said so far is kept as the answer, also when the whole of it
\* is already in the history.
Interrupt_KeepsAnswer(x) ==
    LET y == EndTts(AbortLlm(x))
        z == IF Running(y) THEN RequestDrain(y, y.turn) ELSE AbandonTurn(y)
    IN  IF ~x.speaking THEN z
        ELSE [StopSpeaking(z, x.turn) EXCEPT
                 !.history = Append(x.history,
                                    [role |-> "assistant", turn |-> x.turn])]

Interrupt(x) ==
    LET y == EndTts(AbortLlm(x))
        z == IF Running(y) THEN RequestDrain(y, y.turn) ELSE AbandonTurn(y)
    IN  StopSpeaking(z, x.turn)

\* New input over a live answer is barge-in, and the old turn is billed now.
ClearTurn(x) == IF Running(x) THEN DrainNow(Interrupt(x)) ELSE x

NewTurn(n) == [NoTurn EXCEPT !.phase = "pending", !.bytes = n]

OpenTurn(x) ==
    [x EXCEPT !.turns = [x.turns EXCEPT ![x.counter + 1] = NewTurn(x.bytes)],
              !.counter = x.counter + 1,
              !.turn = x.counter + 1,
              !.bytes = 0]

\* Mutant: the barged-over turn is left to its grace timer.
BeginTurn_LeavesOldTurn(x) ==
    IF Pending(x) THEN x
    ELSE IF Running(x) THEN OpenTurn(Interrupt(x)) ELSE OpenTurn(x)

BeginTurn(x) ==
    LET y == ClearTurn(x) IN IF y.turn # None THEN y ELSE OpenTurn(y)

\* runTurn() up to its await.
RunTurn(x) ==
    [x EXCEPT !.turns = [x.turns EXCEPT ![x.turn] =
                            [x.turns[x.turn] EXCEPT !.phase = "running"]],
              !.history = Append(x.history,
                                 [role |-> "user", turn |-> x.turn]),
              !.speaking = TRUE,
              !.started = [x.started EXCEPT ![x.turn] = x.started[x.turn] + 1],
              !.tts = [x.tts EXCEPT ![x.turn] = "opening"]]

\* Mutant: does not ask whose stream ended.
FinishTurn_AnyTurn(x, t) ==
    IF ~x.speaking THEN x
    ELSE EndTts(RequestDrain(StopSpeaking(AbortLlm(x), t), t))

FinishTurn(x, t) ==
    IF ~x.speaking \/ x.turn # t THEN x
    ELSE EndTts(RequestDrain(StopSpeaking(AbortLlm(x), t), t))

\* Mutant: a tail of exactly the minimum is dropped.
FlushTail_OffByOne(x) ==
    IF x.bytes <= MinTail THEN x
    ELSE [x EXCEPT !.usages = [x.usages EXCEPT ![x.counter + 1] =
                                  x.usages[x.counter + 1] + 1],
                   !.source = [x.source EXCEPT ![x.counter + 1] = "tail"],
                   !.counter = x.counter + 1,
                   !.billed = x.billed + x.bytes,
                   !.bytes = 0]

\* Mutant: billed, and still pending.
FlushTail_KeepsBytes(x) ==
    IF x.bytes < MinTail THEN x
    ELSE [x EXCEPT !.usages = [x.usages EXCEPT ![x.counter + 1] =
                                  x.usages[x.counter + 1] + 1],
                   !.source = [x.source EXCEPT ![x.counter + 1] = "tail"],
                   !.counter = x.counter + 1,
                   !.billed = x.billed + x.bytes]

FlushTail(x) ==
    IF x.bytes < MinTail THEN x
    ELSE [x EXCEPT !.usages = [x.usages EXCEPT ![x.counter + 1] =
                                  x.usages[x.counter + 1] + 1],
                   !.source = [x.source EXCEPT ![x.counter + 1] = "tail"],
                   !.counter = x.counter + 1,
                   !.billed = x.billed + x.bytes,
                   !.bytes = 0]

\* ttsStream?.flush().  A one-shot vendor that was given no text has nothing to
\* ask for, and calls the turn's onDone before flush() returns.
Flush(x) ==
    LET t == x.ttsStream
    IN  IF t = None THEN x
        ELSE IF OneShotTts /\ ~x.said[t] THEN FinishTurn(TtsIs(x, t, "ended"), t)
        ELSE TtsIs(x, t, "flushed")

\* The callbacks runTurn() hands to the LLM.
OnUsage(x, t) ==
    [x EXCEPT !.turns = [x.turns EXCEPT ![t] =
                            [x.turns[t] EXCEPT !.vendor = @ \/ x.turn = t]],
              !.reported = [x.reported EXCEPT ![t] = TRUE]]

Answer(x, t) ==
    [x EXCEPT !.history = Append(x.history, [role |-> "assistant", turn |-> t])]

\* Mutant: a superseded turn's answer is recorded like any other.
OnDone_AnyTurn(x, t) == Flush(SettleLlm(Answer(x, t), t))

OnDone(x, t) ==
    IF x.turn # t THEN SettleLlm(x, t)
    ELSE Flush(SettleLlm(Answer(x, t), t))

OnLlmError(x, t) == Flush(SettleLlm(x, t))

-----------------------------------------------------------------------------
(* Client calls.  The socket keeps the session until start() rejects or     *)
(* close() is called.                                                       *)

InUse == ~s.closed /\ s.starting # "failed"

\* Bound: a call that may open a turn needs an id left for it.
IdLeft == s.counter < MaxTurns \/ Pending(s)

PushAudio ==
    /\ InUse
    /\ s.stt
    /\ s.heard < MaxAudio
    /\ s' = [s EXCEPT !.bytes = @ + 1, !.heard = @ + 1]

\* finalize() makes the STT vendor answer, which the Stt actions do.
CommitAudio ==
    /\ InUse
    /\ IdLeft
    /\ s' = BeginTurn(s)

SendText ==
    /\ InUse
    /\ IdLeft
    /\ s' = RunTurn(BeginTurn(s))

ClientInterrupt ==
    /\ InUse
    /\ s' = Interrupt(s)

CloseSession(x) == FlushTail(DrainNow(Interrupt([x EXCEPT !.closed = TRUE])))

Close ==
    /\ InUse
    /\ s' = [CloseSession(s) EXCEPT !.stt = FALSE,
                                    !.sttOpen = @ /\ ~s.stt]

-----------------------------------------------------------------------------
(* The STT vendor.  A stream falls silent when it is closed, and transcribes *)
(* nothing it has not heard.                                                 *)

StartResolves ==
    /\ s.starting = "opening"
    /\ s' = [s EXCEPT !.starting = "ready", !.stt = TRUE, !.sttOpen = TRUE]

StartRejects ==
    /\ s.starting = "opening"
    /\ s' = [s EXCEPT !.starting = "failed"]

SttPartial ==
    /\ s.sttOpen
    /\ s.heard > 0
    /\ s' = IF s.speaking THEN Interrupt(s) ELSE s

SttSpeechEnd ==
    /\ s.sttOpen
    /\ s.heard > 0
    /\ IdLeft
    /\ s' = BeginTurn(s)

SttSilence ==
    /\ s.sttOpen
    /\ s' = AbandonTurn(s)

SttFinal ==
    /\ s.sttOpen
    /\ s.heard > 0
    /\ IdLeft
    /\ s' = RunTurn(BeginTurn(s))

-----------------------------------------------------------------------------
(* The TTS vendor.                                                           *)

HoldTts(x, t) == [TtsIs(x, t, "open") EXCEPT !.ttsStream = t]
StartLlm(x, t) == [LlmIs(x, t, "live") EXCEPT !.llmHandle = t]

\* Mutant: after the await only the turn is compared; an interrupt leaves it open.
TtsOpened_TurnOnly(t) ==
    /\ s.tts[t] = "opening"
    /\ s' = IF s.turn # t
            THEN SettleLlm(TtsIs(s, t, "ended"), t)
            ELSE StartLlm(HoldTts(s, t), t)

\* The rest of runTurn(): a turn that ended during the handshake must not speak.
TtsOpened(t) ==
    /\ s.tts[t] = "opening"
    /\ s' = IF s.turn # t \/ ~s.speaking
            THEN SettleLlm(TtsIs(s, t, "ended"), t)
            ELSE StartLlm(HoldTts(s, t), t)

\* open() rejects, or the LLM's stream() throws once it has resolved.
TtsRefused(t) ==
    /\ s.tts[t] = "opening"
    /\ s' = FinishTurn(TtsIs(s, t, "ended"), t)

LlmThrows(t) ==
    /\ s.tts[t] = "opening"
    /\ s.turn = t
    /\ s.speaking
    /\ s' = FinishTurn(HoldTts(s, t), t)

\* onDone, or onError: the audio is out, the vendor failed or hung up.
TtsEnds(t) ==
    /\ s.tts[t] \in {"open", "flushed"}
    /\ s' = FinishTurn(TtsIs(s, t, "ended"), t)

-----------------------------------------------------------------------------
(* The LLM vendor.  Its stream ends once; what it may say before depends on   *)
(* the provider.                                                              *)

MayCall(t) ==
    \/ s.llm[t] \in {"live", "stopped"}
    \/ AbortedLlmReports /\ s.llm[t] = "aborted"

\* report(): nothing to say unless the vendor sent its counts.
Report(x, t, counts) == IF counts THEN OnUsage(x, t) ELSE x

\* The stream is over; an error that came while it still ran came before this.
EndLlm(t) == LlmIs(s, t, IF s.llm[t] = "stopped" THEN "broken" ELSE "ended")

LlmDelta(t) ==
    /\ MayCall(t)
    /\ s.turn = t
    /\ s.ttsStream # None
    /\ s' = [s EXCEPT !.said = [s.said EXCEPT ![s.ttsStream] = TRUE]]

\* The stream ran to its end, with the vendor's counts or without.
LlmCompletes(t) ==
    /\ MayCall(t)
    /\ \E counts \in BOOLEAN : s' = OnDone(Report(EndLlm(t), t, counts), t)

\* Mutant: the error is raised before the counts are reported.
CountsThenError_Swapped(t, counts) ==
    OnDone(Report(OnLlmError(EndLlm(t), t), t, counts), t)

\* Counts, then the error and done: the stream broke, or Anthropic kept the error
\* of a limit until its counts were in.
CountsThenError(t, counts) ==
    OnDone(OnLlmError(Report(EndLlm(t), t, counts), t), t)

\* The error, then what counts there are, and done: OpenAI and Gemini.
ErrorThenCounts(t, counts) ==
    OnDone(Report(OnLlmError(LlmIs(s, t, "broken"), t), t, counts), t)

\* The stream broke, all in one go.
LlmFails(t) ==
    /\ MayCall(t)
    /\ \E counts \in BOOLEAN :
          s' \in {CountsThenError(t, counts), ErrorThenCounts(t, counts)}

\* Cut short by a limit: Anthropic ends it there, OpenAI and Gemini raise the error
\* while the stream still runs.
LlmStopsEarly(t) ==
    /\ s.llm[t] = "live"
    /\ \/ \E counts \in BOOLEAN : s' = CountsThenError(t, counts)
       \/ s' = OnLlmError(LlmIs(s, t, "stopped"), t)

\* No key configured: an error, and nothing after it.
LlmUnconfigured(t) ==
    /\ s.llm[t] = "live"
    /\ ~s.said[t]
    /\ s' = OnLlmError(EndLlm(t), t)

DrainTimeout(t) ==
    /\ s.turns[t].timer
    /\ s' = EmitUsage(s, t)

-----------------------------------------------------------------------------
Client == PushAudio \/ CommitAudio \/ SendText \/ ClientInterrupt \/ Close

Stt ==
    \/ StartResolves \/ StartRejects
    \/ SttPartial \/ SttSpeechEnd \/ SttSilence \/ SttFinal

Tts(t) == TtsOpened(t) \/ TtsRefused(t) \/ LlmThrows(t) \/ TtsEnds(t)

Llm(t) ==
    \/ LlmDelta(t) \/ LlmCompletes(t) \/ LlmFails(t)
    \/ LlmStopsEarly(t) \/ LlmUnconfigured(t)

Next ==
    \/ Client
    \/ Stt
    \/ \E t \in TurnId : Tts(t) \/ Llm(t) \/ DrainTimeout(t)

Spec == Init /\ [][Next]_s

\* Node fires a timer that is not cleared; only the open turn has one.
DrainTimeouts == \E t \in TurnId : DrainTimeout(t)
TimersFire == WF_s(DrainTimeouts)

TimedSpec == Spec /\ TimersFire

\* Vendors answer an open(), end a stream and finish the speech they were given.
Answers(t) ==
    \/ TtsOpened(t) \/ TtsRefused(t)
    \/ LlmCompletes(t) \/ LlmFails(t)
    \/ (s.tts[t] = "flushed" /\ TtsEnds(t))

AnswerDue(t) == s.tts[t] \in {"opening", "flushed"} \/ MayCall(t)

SomeAnswers == \E t \in TurnId : Answers(t)
SomeAnswerDue == \E t \in TurnId : AnswerDue(t)

\* Weak fairness of the vendors' answers, with what enables one written out.
VendorsAnswer ==
    \/ []<>(~SomeAnswerDue)
    \/ []<><<SomeAnswers>>_s

FairSpec == TimedSpec /\ VendorsAnswer

-----------------------------------------------------------------------------
(* Properties                                                               *)

\* The record has the fields and the ranges above.
TypeOK == s \in State

\* Every second of audio the STT vendor was sent is waiting for a turn, held by
\* the open turn, or billed: abandoning, interrupting, superseding and closing
\* turns neither bill it twice nor lose it.
HeldBytes(x) == IF x.turn = None THEN 0 ELSE x.turns[x.turn].bytes

AudioConserved == s.heard = s.bytes + HeldBytes(s) + s.billed

\* No turn is billed twice, a turn that never ran is not billed, and a turn that
\* ran is billed unless it is still the open one: no timer, late LLM report,
\* barge-in or close() gets between a turn and its one usage report.
BilledOnce ==
    \A t \in TurnId :
        /\ s.usages[t] <= 1
        /\ s.usages[t] = 1 => (s.started[t] = 1 <=> s.source[t] # "tail")
        /\ s.started[t] > 0 /\ s.usages[t] = 0 => s.turn = t

\* turn_start and turn_end reach the client in matched pairs and name a real
\* turn, and only the open turn may be between its two events.
EventsPaired ==
    /\ s.ended[None] = 0
    /\ \A t \in TurnId :
        /\ s.ended[t] <= s.started[t]
        /\ s.started[t] <= 1
        /\ s.ended[t] < s.started[t] <=> s.speaking /\ s.turn = t

\* A TTS stream that can make sound and an LLM stream that costs money belong to
\* the turn that is speaking, and the session holds the handle that stops them:
\* an await that resumes late and a barge-in leave no orphan behind.  The TTS is
\* told that no more text comes by its own LLM's end only: a late error of an
\* earlier turn never cuts the current answer short.
OneVoice ==
    \A t \in TurnId :
        /\ s.tts[t] \in {"open", "flushed"} =>
               s.ttsStream = t /\ s.turn = t /\ s.speaking
        /\ s.llm[t] \in {"live", "stopped"} =>
               s.llmHandle = t /\ s.turn = t /\ s.speaking
        /\ s.tts[t] = "flushed" => s.llm[t] # "live"

\* In the conversation the next LLM call sees, an answer stands directly behind
\* the question it answers: a superseded turn's late answer never slips in.
HistoryCoherent ==
    \A i \in 1..Len(s.history) :
        s.history[i].role = "assistant" =>
            /\ i > 1
            /\ s.history[i - 1] = [role |-> "user", turn |-> s.history[i].turn]

\* The local estimate is a fallback: a turn whose LLM did report its counts is
\* billed from them.  The one exception is an LLM that raised its error before it
\* reported them, as OpenAI's and Gemini's do: the error can end the turn, which
\* is then billed from the estimate.
VendorCountsBilled ==
    \A t \in TurnId :
        s.reported[t] /\ s.usages[t] > 0
            => s.source[t] = "vendor" \/ s.llm[t] = "broken"

\* close() leaves nothing to come: no open turn, timer or vendor stream, and all
\* audio that is worth a record is billed.
ClosedIsSettled ==
    s.closed =>
        /\ s.turn = None
        /\ s.bytes < MinTail
        /\ \A t \in TurnId :
            /\ ~s.turns[t].timer
            /\ s.llm[t] \notin {"live", "stopped"}
            /\ s.tts[t] \notin {"open", "flushed"}

\* The record is filed when close() resolves, so nothing is reported after it.
Reports == <<s.started, s.ended, s.usages, s.billed>>

ClosedIsSilent == [][s.closed => UNCHANGED Reports]_s

\* When the vendors answer, every turn that starts ends and is billed.
Owes == \E t \in TurnId : s.started[t] > 0 /\ (s.ended[t] = 0 \/ s.usages[t] = 0)
StartedTurnsAreBilled == Owes ~> ~Owes

-----------------------------------------------------------------------------
(* What the session promises whoever pays for it.                           *)

\* The session implements the meter of TurnBilling: audio waiting for a turn and
\* audio held by a pending or running one are both owed.
Billing ==
    INSTANCE TurnBilling WITH
        Turns   <- TurnId,
        owed    <- s.bytes + HeldBytes(s),
        paid    <- s.billed,
        open    <- IF Running(s) THEN {s.turn} ELSE {},
        settled <- {t \in TurnId : s.usages[t] > 0}

ImplementsBilling == Billing!Spec
=============================================================================

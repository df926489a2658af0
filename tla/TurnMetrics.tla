----------------------------- MODULE TurnMetrics -----------------------------
(***************************************************************************)
(* The stop watch of one turn, src/backend/src/metrics/TurnMetrics.ts, and  *)
(* the bands that the page draws of it, src/frontend/src/lib/legs.ts.      *)
(* Every session makes one at the moment the user stops talking, and marks *)
(* that first; whatever a vendor repeats afterwards is marked again.       *)
(***************************************************************************)
EXTENDS Integers, Sequences, SequencesExt, FiniteSetsExt

CONSTANTS
    MaxTicks,   \* bound: time
    MaxMarks    \* bound: calls of mark()

VARIABLE s

Names == {"stt_final", "llm_request_sent", "llm_first_token", "tts_request_sent",
          "tts_first_audio", "first_audio_out"}
Undefined == -1

\* mark(): the first occurrence wins.
Marked(marks, name, at) ==
    IF \E i \in DOMAIN marks : marks[i].name = name THEN marks
    ELSE Append(marks, [name |-> name, at |-> at])

At(name) ==
    IF \E i \in DOMAIN s.marks : s.marks[i].name = name
    THEN s.marks[SelectInSeq(s.marks, LAMBDA m : m.name = name)].at ELSE Undefined

Delta(from, to) ==
    IF Undefined \in {At(from), At(to)} THEN Undefined ELSE At(to) - At(from)

Snapshot ==
    LET speechEnd == Max({At("user_speech_end"), 0})
        firstAudio == At("first_audio_out")
    IN  [timeToFirstAudio |-> IF firstAudio = Undefined THEN Undefined
                              ELSE firstAudio - speechEnd,
         sttLatency |-> Delta("user_speech_end", "stt_final"),
         llmTtft |-> Delta("llm_request_sent", "llm_first_token"),
         ttsTtfb |-> Delta("tts_request_sent", "tts_first_audio"),
         totalTurn |-> s.now - speechEnd]

\* bandsOf(): of each leg that was measured where it began and how long it took, as
\* the legs overlap.  A length below zero is no band.
Band(key, start, ms) ==
    IF start = Undefined \/ ms < 0 THEN <<>>
    ELSE <<[key |-> key, start |-> Max({0, start - Max({At("user_speech_end"), 0})}),
            ms |-> ms]>>
BandsOf(derived) ==
    SortSeq(Band("stt", Max({At("user_speech_end"), 0}), derived.sttLatency)
                \o Band("llm", At("llm_request_sent"), derived.llmTtft)
                \o Band("tts", At("tts_request_sent"), derived.ttsTtfb),
            LAMBDA a, b : a.start < b.start)

Init ==
    s = [now |-> 0, marks |-> Marked(<<>>, "user_speech_end", 0),
         events |-> <<[name |-> "user_speech_end", at |-> 0]>>]

Mark(name) ==
    /\ Len(s.events) < MaxMarks
    /\ s' = [s EXCEPT !.marks = Marked(@, name, s.now),
                      !.events = Append(@, [name |-> name, at |-> s.now])]

Tick ==
    /\ s.now < MaxTicks
    /\ s' = [s EXCEPT !.now = @ + 1]

Next == Tick \/ \E name \in Names : Mark(name)

-----------------------------------------------------------------------------
(* Properties                                                                *)

First(name) ==
    Min({s.events[i].at : i \in {j \in DOMAIN s.events : s.events[j].name = name}}
            \cup {MaxTicks + 1})
Seen(name) == First(name) <= MaxTicks

\* From the first event of one name to the first of another.
Between(from, to) ==
    IF Seen(from) /\ Seen(to) THEN First(to) - First(from) ELSE Undefined

\* The figures of a turn are between the first of each of its events: a second burst
\* of audio, or a second final, does not move what has been measured; and no leg is
\* longer than the turn.
FiguresAreOfFirst ==
    LET derived == Snapshot
    IN  /\ derived.timeToFirstAudio = Between("user_speech_end", "first_audio_out")
        /\ derived.sttLatency = Between("user_speech_end", "stt_final")
        /\ derived.llmTtft = Between("llm_request_sent", "llm_first_token")
        /\ derived.ttsTtfb = Between("tts_request_sent", "tts_first_audio")
        /\ \A f \in DOMAIN derived : derived[f] <= derived.totalTurn

Ends == [stt |-> <<"user_speech_end", "stt_final">>,
         llm |-> <<"llm_request_sent", "llm_first_token">>,
         tts |-> <<"tts_request_sent", "tts_first_audio">>]

\* A band is drawn where its leg was, from first event to first event, within the
\* turn; the legs that have both events in their order have one each.
BandsAreInPlace ==
    LET bands == BandsOf(Snapshot)
        legs == {k \in DOMAIN Ends :
                    /\ Seen(Ends[k][1]) /\ Seen(Ends[k][2])
                    /\ First(Ends[k][1]) <= First(Ends[k][2])}
    IN  /\ {bands[i].key : i \in DOMAIN bands} = legs
        /\ Len(bands) = Cardinality(legs)
        /\ \A i \in DOMAIN bands :
               /\ bands[i].start = First(Ends[bands[i].key][1])
               /\ bands[i].start + bands[i].ms = First(Ends[bands[i].key][2])
               /\ i > 1 => bands[i - 1].start <= bands[i].start
=============================================================================

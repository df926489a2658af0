------------------------------ MODULE SpeechEnd ------------------------------
(***************************************************************************)
(* The detector that says when the user has stopped talking, for vendors   *)
(* that do not: SpeechEndDetector of src/backend/src/audio/vad.ts.  Time is *)
(* counted in ticks; a chunk is loud or it is not.                         *)
(***************************************************************************)
EXTENDS Integers, Sequences, FiniteSetsExt

CONSTANTS
    SilenceLimit,   \* trailing silence that ends an utterance
    MinSpeech,      \* the speech without which there was none
    Lengths,        \* of a chunk
    MaxChunks       \* bound: chunks pushed

VARIABLE s

Silent == [speech |-> 0, silence |-> 0, inSpeech |-> FALSE]
Init == s = [vad |-> Silent, heard |-> <<>>, said |-> <<>>]

\* push(): the detector after a chunk, and what it says of it.
Pushed(vad, loud, ms) ==
    IF loud
    THEN <<[vad EXCEPT !.inSpeech = TRUE, !.speech = @ + ms, !.silence = 0], "speech">>
    ELSE IF ~vad.inSpeech THEN <<vad, "idle">>
    ELSE IF vad.silence + ms < SilenceLimit
         THEN <<[vad EXCEPT !.silence = @ + ms], "speech">>
    ELSE <<Silent, IF vad.speech >= MinSpeech THEN "end" ELSE "idle">>

Push(loud, ms) ==
    LET answer == Pushed(s.vad, loud, ms)
    IN  /\ Len(s.heard) < MaxChunks
        /\ s' = [vad |-> answer[1], said |-> Append(s.said, answer[2]),
                 heard |-> Append(s.heard, [loud |-> loud, ms |-> ms])]

Next == \E loud \in BOOLEAN, ms \in Lengths : Push(loud, ms)

-----------------------------------------------------------------------------
(* Properties                                                                *)

Loud(i, j) == MapThenSumSet(LAMBDA k : IF s.heard[k].loud THEN s.heard[k].ms ELSE 0, i..j)
Quiet(i, j) == MapThenSumSet(LAMBDA k : s.heard[k].ms, i..j)
AllQuiet(i, j) == \A k \in i..j : ~s.heard[k].loud

\* The pause is long enough with chunk i, and was not before.
Pauses(i) ==
    \E j \in 1..(i - 1) :
        /\ s.heard[j].loud /\ AllQuiet(j + 1, i)
        /\ Quiet(j + 1, i) >= SilenceLimit /\ Quiet(j + 1, i - 1) < SilenceLimit

\* An end is said where a pause has become long enough, once for each, and only if
\* there has been enough speech since the pause before it: two coughs are no turn.
EndsAreHeard ==
    \A i \in DOMAIN s.said :
        LET before == Max({0} \cup {j \in 1..(i - 1) : Pauses(j)})
        IN  s.said[i] = "end" <=> Pauses(i) /\ Loud(before + 1, i) >= MinSpeech
=============================================================================

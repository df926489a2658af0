--------------------------- MODULE NovaTransport ---------------------------
(***************************************************************************)
(* The input half of a Nova Sonic session, of                              *)
(* src/backend/src/providers/realtime/NovaSonicProvider.ts: EventQueue,    *)
(* BedrockTransport, and what the session sends.  Events are queued, the   *)
(* SDK pulls them out of an async generator, and signs and writes them     *)
(* later; close() has half a second for the three events that free the     *)
(* vendor's resources.  What comes back is the matter of NovaSonic.        *)
(*                                                                         *)
(* The generator is split at its yield and its await, endInput() at the    *)
(* race it waits for.                                                      *)
(***************************************************************************)
EXTENDS Naturals, Sequences

CONSTANTS
    MaxInput     \* bound: microphone frames and texts queued for the vendor

VARIABLE s

Preamble == <<"sessionStart", "promptStart", "systemText", "audioStart">>
Teardown == <<"audioEnd", "promptEnd", "sessionEnd">>
Event == {Preamble[i] : i \in 1..4} \cup {"audio", "text"} \cup {Teardown[i] : i \in 1..3}

Stream ==
    [conn     : {"connecting", "up", "down"},
     starting : {"opening", "ready", "rejected"},
     closing  : {"no", "draining", "written", "gone", "timeout"},
     closed   : BOOLEAN,           \* the session
     sent     : Seq(Event),        \* pushed to the queue, ever
     pulled   : Nat,               \* how many of them stream() has yielded
     written  : Nat,               \* how many of those are on the wire
     shut     : BOOLEAN,           \* the queue is closed
     parked   : BOOLEAN,           \* stream() waits for wake()
     exited   : BOOLEAN]           \* stream() has returned: whenDrained

TypeOK == s \in Stream

\* start() queues the preamble before it sends the command.
Init ==
    s = [conn |-> "connecting", starting |-> "opening", closing |-> "no",
         closed |-> FALSE, sent |-> Preamble, pulled |-> 0, written |-> 0,
         shut |-> FALSE, parked |-> FALSE, exited |-> FALSE]

-----------------------------------------------------------------------------
(* EventQueue                                                                *)

Push(x, events) ==
    IF x.shut THEN x ELSE [x EXCEPT !.sent = @ \o events, !.parked = FALSE]

Shut(x) == [x EXCEPT !.shut = TRUE, !.parked = FALSE]

Live == s.conn # "down"

\* stream() runs until it yields, parks or returns.
Pull ==
    /\ ~s.exited
    /\ ~s.parked
    /\ IF s.pulled < Len(s.sent) THEN Live /\ s' = [s EXCEPT !.pulled = @ + 1]
       ELSE s' = IF s.shut THEN [s EXCEPT !.exited = TRUE]
                 ELSE [s EXCEPT !.parked = TRUE]

\* The SDK signs a pulled event and writes it.
Write ==
    /\ Live
    /\ s.written < s.pulled
    /\ s' = [s EXCEPT !.written = @ + 1]

Destroy(x) == [Shut(x) EXCEPT !.conn = "down"]

-----------------------------------------------------------------------------
(* BedrockTransport                                                          *)

Opened ==
    /\ s.starting = "opening"
    /\ s.conn = "connecting"
    /\ s' = [s EXCEPT !.conn = "up", !.starting = "ready"]

\* open() throws, there is no response stream, or 20 seconds have passed.
StartFails ==
    /\ s.starting = "opening"
    /\ s' = [Destroy(s) EXCEPT !.starting = "rejected", !.closed = TRUE]

\* The end of readResponses(): nobody will pull any more.
StreamEnds ==
    /\ s.conn = "up"
    /\ s' = [Destroy(s) EXCEPT !.closed = TRUE]

-----------------------------------------------------------------------------
(* The session                                                               *)

\* pushAudio() and sendText()
SendInput ==
    /\ ~s.closed
    /\ Len(s.sent) < Len(Preamble) + MaxInput
    /\ \E event \in {"audio", "text"} : s' = Push(s, <<event>>)

Close ==
    /\ ~s.closed
    /\ s' = [Shut(Push(s, Teardown)) EXCEPT !.closed = TRUE, !.closing = "draining"]

\* written(): pulled dry, and the request stream, if there is one, finished.
Written == s.exited /\ (s.conn = "up" => s.written = Len(s.sent))

CloseWritten ==
    /\ s.closing = "draining"
    /\ Written
    /\ s' = [Destroy(s) EXCEPT !.closing = IF s.conn = "up" THEN "written" ELSE "gone"]

\* TEARDOWN_DRAIN_MS
CloseTimesOut ==
    /\ s.closing = "draining"
    /\ s' = [Destroy(s) EXCEPT !.closing = "timeout"]

-----------------------------------------------------------------------------
Next ==
    \/ Pull \/ Write \/ Opened \/ StartFails \/ StreamEnds
    \/ SendInput \/ Close \/ CloseWritten \/ CloseTimesOut

Spec == Init /\ [][Next]_s

\* A microtask runs, what is pulled is written, and the timers fire.
FairSpec ==
    /\ Spec
    /\ WF_s(Pull) /\ WF_s(Write)
    /\ WF_s(StartFails) /\ WF_s(CloseTimesOut)

-----------------------------------------------------------------------------
(* Properties                                                                *)

\* The vendor sees the events in the one order it accepts; the generator returns
\* only when the session is over; and a close() that had an open stream, and was
\* not cut short by its timer, has put the three closing events on the wire.
WireInOrder ==
    LET n == Len(s.sent)
        end == IF s.closing = "no" THEN 0 ELSE Len(Teardown)
    IN  /\ SubSeq(s.sent, 1, 4) = Preamble
        /\ \A i \in 5..(n - end) : s.sent[i] \in {"audio", "text"}
        /\ SubSeq(s.sent, n - end + 1, n) = SubSeq(Teardown, 1, end)
        /\ s.exited => s.closed
        /\ s.closing = "written" => s.written = n

\* What is queued does not stay behind while the stream is up, also when the
\* generator waits at that moment; and close() settles.
Owes == (Live /\ s.written < Len(s.sent)) \/ s.closing = "draining"
InputIsWritten == Owes ~> ~Owes
=============================================================================

----------------------------- MODULE GeminiStt -----------------------------
(***************************************************************************)
(* src/backend/src/providers/stt/GeminiSttProvider.ts: one transcription   *)
(* stream over Google's Live socket.  Audio waits for setupComplete in a   *)
(* queue that is capped; transcript segments are banked until a boundary   *)
(* of the vendor's, or a timer, makes one final of them; a socket that     *)
(* dies in mid-utterance hands on what is banked.                          *)
(*                                                                         *)
(* Each handler runs to completion and is one action.  Frames of the       *)
(* microphone and segments are numbered; interim transcripts, which are    *)
(* shown and never kept, are left out.                                     *)
(***************************************************************************)
EXTENDS Naturals, Sequences, SequencesExt, VendorSocket

CONSTANTS
    MaxChunks,     \* bound: frames of the microphone
    MaxPending,    \* MAX_PENDING_CHUNKS
    MaxSegments,   \* bound: finalized segments the vendor sends
    MaxTurns,      \* bound: no step that may mark a speech end once there are so many
    MaxErrors      \* bound: errors

VARIABLE s

Chunk == 1..MaxChunks
Segment == 1..MaxSegments
Setup == 0
StreamEnd == MaxChunks + 1   \* audioStreamEnd
MaxAsked == MaxChunks + MaxTurns

Stream ==
    [sock          : Sock,
     vad           : BOOLEAN,
     ready         : BOOLEAN,
     closed        : BOOLEAN,
     quit          : BOOLEAN,        \* by close()
     awaitingFinal : BOOLEAN,
     fallback      : BOOLEAN,        \* the timer is armed
     segments      : Seq(Segment),
     pending       : Seq(Chunk),
     \* the vendor's side, and the reports
     wire          : Seq({Setup, StreamEnd} \cup Chunk),
     asked         : Seq({StreamEnd} \cup Chunk),  \* by the session, in its order
     atOpen        : 0..MaxAsked,          \* how much of it came before `open`, and
     atReady       : 0..MaxAsked,          \* before setupComplete
     pushed        : 0..MaxChunks,
     received      : 0..MaxSegments,       \* segments handled while open
     ends          : 0..MaxTurns,          \* onSpeechEnd
     finals        : Seq(Seq(Segment)),    \* onFinal
     errors        : 0..MaxErrors]         \* onError

TypeOK == s \in Stream

Init ==
    \E vad \in BOOLEAN :
        s = [sock |-> "connecting", vad |-> vad, ready |-> FALSE, closed |-> FALSE,
             quit |-> FALSE, awaitingFinal |-> FALSE, fallback |-> FALSE, segments |-> <<>>,
             pending |-> <<>>, wire |-> <<>>, asked |-> <<>>, atOpen |-> 0,
             atReady |-> 0, pushed |-> 0, received |-> 0, ends |-> 0, finals |-> <<>>, errors |-> 0]

Send(x, frames) == IF x.closed THEN x.wire ELSE Sent(x.sock, x.wire, frames)

\* One final per utterance: for the end marked here, or for one the vendor calls
\* with something banked.
EmitFinal(x) ==
    LET y == [x EXCEPT !.fallback = FALSE]
    IN  IF ~x.awaitingFinal /\ x.segments = <<>> THEN y
        ELSE [y EXCEPT !.segments = <<>>,
                       !.awaitingFinal = FALSE,
                       !.ends = IF x.awaitingFinal THEN @ ELSE @ + 1,
                       !.finals = Append(@, x.segments)]

\* audioStreamEnd does not wait in the queue: it goes out if the socket is open,
\* acknowledged or not, and is lost if it is not.
EndTurn(x) ==
    IF x.closed \/ x.awaitingFinal THEN x
    ELSE [x EXCEPT !.awaitingFinal = TRUE, !.ends = @ + 1, !.fallback = TRUE,
                   !.asked = Append(@, StreamEnd), !.wire = Send(x, <<StreamEnd>>)]

RoomToEnd == s.ends < MaxTurns
RoomToFail == s.errors < MaxErrors

Opens ==
    /\ MayOpen(s.sock)
    /\ s' = LET y == [s EXCEPT !.sock = "open", !.atOpen = Len(s.asked)]
            IN  [y EXCEPT !.wire = Send(y, <<Setup>>)]

-----------------------------------------------------------------------------
(* Messages                                                                  *)

SetupComplete ==
    /\ MayReceive(s.sock)
    /\ Setup \in Range(s.wire)
    /\ s' = IF s.closed THEN s
            ELSE [s EXCEPT !.ready = TRUE, !.wire = Send(s, s.pending), !.pending = <<>>,
                           !.atReady = IF s.ready THEN @ ELSE Len(s.asked)]

ErrorMessage ==
    /\ MayReceive(s.sock)
    /\ RoomToFail
    /\ s' = IF s.closed THEN s ELSE [s EXCEPT !.errors = @ + 1]

\* One message may carry a segment and a boundary.
Content ==
    /\ MayReceive(s.sock)
    /\ RoomToEnd
    /\ \E segment, boundary \in BOOLEAN :
         /\ segment \/ boundary
         /\ segment => s.received < MaxSegments
         /\ LET y == IF ~segment THEN s
                     ELSE [s EXCEPT !.received = @ + 1,
                                    !.segments = Append(@, s.received + 1)]
            IN  s' = IF s.closed THEN s
                     ELSE IF boundary THEN EmitFinal(y) ELSE y

-----------------------------------------------------------------------------
(* The timer, and the end of the socket                                      *)

Fallback ==
    /\ s.fallback
    /\ s' = EmitFinal(s)

ErrorEvent ==
    /\ MayFail(s.sock)
    /\ RoomToFail
    /\ s' = [s EXCEPT !.sock = "lost", !.errors = IF s.closed THEN @ ELSE @ + 1]

PeerEnds == MayEnd(s.sock) /\ s' = [s EXCEPT !.sock = "lost"]

\* Mutant: a dead socket is reported, and what was banked goes with it.
OnClose_NoSalvage(x) == [x EXCEPT !.closed = TRUE, !.fallback = FALSE]

\* What is banked goes out before the error does.
OnClose(x) ==
    LET y == [x EXCEPT !.closed = TRUE]
    IN  IF x.awaitingFinal \/ x.segments # <<>> THEN EmitFinal(y)
        ELSE [y EXCEPT !.fallback = FALSE]

CloseEvent ==
    /\ MayClose(s.sock)
    /\ RoomToFail /\ RoomToEnd
    /\ \E normal \in BOOLEAN :
         LET y == IF s.closed THEN s ELSE OnClose(s)
         IN  s' = [y EXCEPT !.sock = "closed",
                            !.errors = IF s.closed \/ normal THEN @ ELSE @ + 1]

-----------------------------------------------------------------------------
(* The caller                                                                *)

Queued(x, c) ==
    LET q == Append(x.pending, c)
    IN  IF Len(q) > MaxPending THEN Tail(q) ELSE q

PushAudio ==
    /\ ~s.closed
    /\ s.pushed < MaxChunks
    /\ RoomToEnd
    /\ \E end \in BOOLEAN :
         LET c == s.pushed + 1
             x == [s EXCEPT !.pushed = c, !.asked = Append(@, c)]
             y == IF s.ready THEN [x EXCEPT !.wire = Send(s, <<c>>)]
                  ELSE [x EXCEPT !.pending = Queued(s, c)]
         IN  s' = IF s.vad /\ end THEN EndTurn(y) ELSE y

Finalize ==
    /\ RoomToEnd
    /\ s' = EndTurn(s)

Close ==
    /\ ~s.closed
    /\ s' = [s EXCEPT !.closed = TRUE, !.quit = TRUE, !.fallback = FALSE,
                      !.pending = <<>>, !.sock = WsClose(@)]

-----------------------------------------------------------------------------
Next ==
    \/ Opens \/ SetupComplete \/ ErrorMessage \/ Content
    \/ Fallback \/ ErrorEvent \/ PeerEnds \/ CloseEvent
    \/ PushAudio \/ Finalize \/ Close

Spec == Init /\ [][Next]_s

\* An armed timer fires.
Timers == Fallback
FairSpec == Spec /\ WF_s(Timers)

-----------------------------------------------------------------------------
(* Properties                                                                *)

Sounds(frames) == SelectSeq(frames, LAMBDA f : f \in Chunk)
Ends(frames) == SelectSeq(frames, LAMBDA f : f = StreamEnd)
Latest(frames) ==
    SubSeq(frames, IF Len(frames) > MaxPending THEN Len(frames) - MaxPending + 1 ELSE 1,
           Len(frames))

\* The setup is the first thing sent, and audio waits for its acknowledgement: it is
\* kept back, but for the oldest frames when they are more than the cap.  From the
\* acknowledgement on, audio and ends of utterances are on the wire in the order in
\* which the session asked for them.  Before it an end of an utterance does not wait
\* for the audio it ends: marked before `open` it is not sent at all, marked after it
\* overtakes all of the audio that is kept back.
WireInOrder ==
    LET early == SubSeq(s.asked, 1, IF s.ready THEN s.atReady ELSE Len(s.asked))
        kept == Latest(Sounds(early))
        overtook == Ends(SubSeq(early, s.atOpen + 1, Len(early)))
        late == SubSeq(s.asked, s.atReady + 1, Len(s.asked))
        sent == <<Setup>> \o overtook \o IF s.ready THEN kept \o late ELSE <<>>
        up == ~s.closed /\ s.sock = "open"
    IN  /\ IF up THEN s.wire = sent ELSE IsPrefix(s.wire, sent)
        /\ s.sock \in {"connecting", "aborting"} => s.wire = <<>>
        /\ ~s.closed => s.pending = IF s.ready THEN <<>> ELSE kept

\* Every finalized segment is in exactly one final, in order, or still banked; and
\* nothing stays banked on a socket that died under its caller.
TextConserved ==
    /\ FlattenSeq(s.finals) \o s.segments = [i \in 1..s.received |-> i]
    /\ s.sock = "closed" /\ ~s.quit => s.segments = <<>>

\* Each speech end has its one final, and each final its speech end.
TurnsPaired == s.ends = Len(s.finals) + IF s.awaitingFinal THEN 1 ELSE 0

\* A final that is awaited comes, unless the caller closes the stream.
Owes == s.awaitingFinal /\ ~s.quit
FinalComes == Owes ~> ~Owes

\* What the caller hears; and from when on it hears nothing.
Gone == s.quit
Reports == <<s.ends, s.finals, s.errors>>
=============================================================================

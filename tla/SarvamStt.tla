----------------------------- MODULE SarvamStt -----------------------------
(***************************************************************************)
(* src/backend/src/providers/stt/SarvamSttProvider.ts: one transcription   *)
(* stream over Sarvam's socket.  The vendor's own detector marks the end   *)
(* of speech and sends one final per utterance; here only the audio of the *)
(* handshake is kept back.  Partial transcripts are left out.              *)
(***************************************************************************)
EXTENDS Naturals, Sequences, SequencesExt, VendorSocket

CONSTANTS
    MaxChunks,     \* bound: frames of the microphone
    MaxTurns,      \* bound: speech ends, finals, and finalize calls
    MaxErrors      \* bound: errors

VARIABLE s

Chunk == 1..MaxChunks
EndFrames == 0   \* speech_end and flush, or end

Stream ==
    [sock      : Sock,
     ready     : BOOLEAN,
     closed    : BOOLEAN,
     pending   : Seq(Chunk),
     \* the vendor's side, and the reports
     wire      : Seq(Chunk \cup {EndFrames}),
     asked     : Seq(Chunk \cup {EndFrames}),   \* by the session, in its order,
     atOpen    : 0..MaxChunks + MaxTurns,       \* and how much of it before `open`
     pushed    : 0..MaxChunks,
     finalized : 0..MaxTurns,
     ends      : 0..MaxTurns,
     finals    : 0..MaxTurns,
     errors    : 0..MaxErrors]

TypeOK == s \in Stream

Init ==
    s = [sock |-> "connecting", ready |-> FALSE, closed |-> FALSE, pending |-> <<>>,
         wire |-> <<>>, asked |-> <<>>, atOpen |-> 0, pushed |-> 0, finalized |-> 0, ends |-> 0, finals |-> 0,
         errors |-> 0]

Send(x, frames) == IF x.closed THEN x.wire ELSE Sent(x.sock, x.wire, frames)

Opens ==
    /\ MayOpen(s.sock)
    /\ s' = LET y == [s EXCEPT !.sock = "open", !.ready = TRUE, !.pending = <<>>,
                               !.atOpen = Len(s.asked)]
            IN  [y EXCEPT !.wire = Send(y, s.pending)]

RoomToFail == s.errors < MaxErrors

-----------------------------------------------------------------------------
(* Messages                                                                  *)

SpeechEnd ==
    /\ MayReceive(s.sock)
    /\ s.ends < MaxTurns
    /\ s' = IF s.closed THEN s ELSE [s EXCEPT !.ends = @ + 1]

\* Its text may be empty: the session above ignores such a final.
FinalTranscript ==
    /\ MayReceive(s.sock)
    /\ s.finals < MaxTurns
    /\ s' = IF s.closed THEN s ELSE [s EXCEPT !.finals = @ + 1]

ErrorMessage ==
    /\ MayReceive(s.sock)
    /\ RoomToFail
    /\ \E fatal \in BOOLEAN :
         s' = IF s.closed THEN s
              ELSE IF fatal THEN [s EXCEPT !.errors = @ + 1, !.closed = TRUE,
                                           !.sock = WsClose(@)]
              ELSE [s EXCEPT !.errors = @ + 1]

-----------------------------------------------------------------------------
(* The end of the socket                                                     *)

ErrorEvent ==
    /\ MayFail(s.sock)
    /\ RoomToFail
    /\ s' = [s EXCEPT !.sock = "lost", !.errors = IF s.closed THEN @ ELSE @ + 1]

PeerEnds == MayEnd(s.sock) /\ s' = [s EXCEPT !.sock = "lost"]

CloseEvent ==
    /\ MayClose(s.sock)
    /\ RoomToFail
    /\ \E normal \in BOOLEAN :
         s' = [s EXCEPT !.sock = "closed", !.closed = TRUE,
                        !.errors = IF s.closed \/ normal THEN @ ELSE @ + 1]

-----------------------------------------------------------------------------
(* The caller                                                                *)

PushAudio ==
    /\ ~s.closed
    /\ s.pushed < MaxChunks
    /\ LET c == s.pushed + 1
           y == [s EXCEPT !.pushed = c, !.asked = Append(@, c)]
       IN  s' = IF s.ready THEN [y EXCEPT !.wire = Send(s, <<c>>)]
                ELSE [y EXCEPT !.pending = Append(@, c)]

\* Before the socket is open it does nothing, and nothing is kept of it.
Finalize ==
    /\ ~s.closed
    /\ s.finalized < MaxTurns
    /\ s' = [s EXCEPT !.finalized = @ + 1, !.asked = Append(@, EndFrames),
                      !.wire = IF s.ready THEN Send(s, <<EndFrames>>) ELSE @]

\* `end` is sent directly: send() refuses by then.
Close ==
    /\ ~s.closed
    /\ s' = [s EXCEPT !.closed = TRUE, !.pending = <<>>, !.sock = WsClose(@),
                      !.asked = Append(@, EndFrames),
                      !.wire = Sent(s.sock, @, <<EndFrames>>)]

-----------------------------------------------------------------------------
Next ==
    \/ Opens \/ SpeechEnd \/ FinalTranscript \/ ErrorMessage
    \/ ErrorEvent \/ PeerEnds \/ CloseEvent
    \/ PushAudio \/ Finalize \/ Close

Spec == Init /\ [][Next]_s

-----------------------------------------------------------------------------
(* Properties                                                                *)

Sounds(frames) == SelectSeq(frames, LAMBDA f : f \in Chunk)

\* The vendor hears all that was said while the stream is up, the handshake
\* included, and is told of each end where it was asked for, in the midst of the
\* audio; but an end asked for during the handshake is not sent, though the audio it
\* ends is.  Afterwards the wire holds the beginning of that.
WireInOrder ==
    LET early == SubSeq(s.asked, 1, IF s.ready THEN s.atOpen ELSE Len(s.asked))
        sent == Sounds(early) \o SubSeq(s.asked, Len(early) + 1, Len(s.asked))
    IN  IF ~s.closed /\ s.sock \in {"connecting", "open"}
        THEN s.wire \o s.pending = sent
        ELSE IsPrefix(s.wire, sent)

\* What the caller hears; and from when on it hears nothing.
Gone == s.closed
Reports == <<s.ends, s.finals, s.errors>>
=============================================================================

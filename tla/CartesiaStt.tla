---------------------------- MODULE CartesiaStt ----------------------------
(***************************************************************************)
(* src/backend/src/providers/stt/CartesiaSttProvider.ts: one transcription *)
(* stream over Cartesia's socket.  Audio and the raw text `finalize` share *)
(* one queue during the handshake; the vendor sends many final segments of *)
(* an utterance, and acknowledges a finalize with flush_done, which is the *)
(* only boundary.  Interim transcripts are left out.                       *)
(***************************************************************************)
EXTENDS Naturals, Sequences, SequencesExt, VendorSocket

CONSTANTS
    MaxChunks,     \* bound: frames of the microphone
    MaxSegments,   \* bound: final segments the vendor sends
    MaxTurns,      \* bound: no step that may mark a speech end once there are so many
    MaxErrors      \* bound: errors

VARIABLE s

Chunk == 1..MaxChunks
Segment == 1..MaxSegments
Finalized == 0   \* the control frame

Stream ==
    [sock          : Sock,
     vad           : BOOLEAN,
     ready         : BOOLEAN,
     closed        : BOOLEAN,
     awaitingFlush : BOOLEAN,
     segments      : Seq(Segment),
     pending       : Seq(Chunk \cup {Finalized}),
     \* the vendor's side, and the reports
     wire          : Seq(Chunk \cup {Finalized}),
     asked         : Seq(Chunk \cup {Finalized}),  \* what the caller asked to send
     pushed        : 0..MaxChunks,
     acked         : 0..MaxTurns,                  \* flush_done sent
     received      : 0..MaxSegments,
     ends          : 0..MaxTurns,
     finals        : Seq(Seq(Segment)),
     errors        : 0..MaxErrors]

TypeOK == s \in Stream

Init ==
    \E vad \in BOOLEAN :
        s = [sock |-> "connecting", vad |-> vad, ready |-> FALSE, closed |-> FALSE,
             awaitingFlush |-> FALSE, segments |-> <<>>, pending |-> <<>>,
             wire |-> <<>>, asked |-> <<>>, pushed |-> 0, acked |-> 0, received |-> 0,
             ends |-> 0, finals |-> <<>>, errors |-> 0]

\* sendControl('finalize')
SendFinalize(x) ==
    IF x.sock = "connecting" THEN [x EXCEPT !.pending = Append(@, Finalized)]
    ELSE [x EXCEPT !.wire = Sent(x.sock, @, <<Finalized>>)]

EndTurn(x) ==
    IF x.closed \/ x.awaitingFlush THEN x
    ELSE SendFinalize([x EXCEPT !.awaitingFlush = TRUE, !.ends = @ + 1,
                                !.asked = Append(@, Finalized)])

Opens ==
    /\ MayOpen(s.sock)
    /\ s' = [s EXCEPT !.sock = "open", !.ready = TRUE, !.pending = <<>>,
                      !.wire = @ \o s.pending]

RoomToEnd == s.ends < MaxTurns
RoomToFail == s.errors < MaxErrors

-----------------------------------------------------------------------------
(* Messages                                                                  *)

FinalSegment ==
    /\ MayReceive(s.sock)
    /\ s.received < MaxSegments
    /\ s' = IF s.closed THEN s
            ELSE [s EXCEPT !.received = @ + 1,
                           !.segments = Append(@, s.received + 1)]

FlushDone ==
    /\ MayReceive(s.sock)
    /\ s.acked < Len(SelectSeq(s.wire, LAMBDA f : f = Finalized))
    /\ s' = IF s.closed THEN [s EXCEPT !.acked = @ + 1]
            ELSE [s EXCEPT !.acked = @ + 1, !.segments = <<>>,
                           !.awaitingFlush = FALSE,
                           !.finals = Append(@, s.segments)]

ErrorMessage ==
    /\ MayReceive(s.sock)
    /\ RoomToFail
    /\ s' = IF s.closed THEN s ELSE [s EXCEPT !.errors = @ + 1]

-----------------------------------------------------------------------------
(* The end of the socket, which hands on nothing that is banked              *)

ErrorEvent ==
    /\ MayFail(s.sock)
    /\ RoomToFail
    /\ s' = [s EXCEPT !.sock = "lost", !.errors = IF s.closed THEN @ ELSE @ + 1]

PeerEnds == MayEnd(s.sock) /\ s' = [s EXCEPT !.sock = "lost"]

CloseEvent ==
    /\ MayClose(s.sock)
    /\ RoomToFail
    /\ \E normal \in BOOLEAN :
         s' = [s EXCEPT !.sock = "closed", !.closed = TRUE,
                        !.errors = IF s.closed \/ normal THEN @ ELSE @ + 1]

-----------------------------------------------------------------------------
(* The caller                                                                *)

PushAudio ==
    /\ ~s.closed
    /\ s.pushed < MaxChunks
    /\ RoomToEnd
    /\ \E end \in BOOLEAN :
         LET c == s.pushed + 1
             y == [s EXCEPT !.pushed = c, !.asked = Append(@, c)]
             z == IF s.ready THEN [y EXCEPT !.wire = Sent(s.sock, @, <<c>>)]
                  ELSE [y EXCEPT !.pending = Append(@, c)]
         IN  s' = IF s.vad /\ end THEN EndTurn(z) ELSE z

Finalize ==
    /\ RoomToEnd
    /\ s' = EndTurn(s)

\* The control frame `close` goes out on an open socket, and is left out here.
Close ==
    /\ ~s.closed
    /\ s' = [s EXCEPT !.closed = TRUE, !.pending = <<>>, !.sock = WsClose(@)]

-----------------------------------------------------------------------------
Next ==
    \/ Opens \/ FinalSegment \/ FlushDone \/ ErrorMessage
    \/ ErrorEvent \/ PeerEnds \/ CloseEvent
    \/ PushAudio \/ Finalize \/ Close

Spec == Init /\ [][Next]_s

-----------------------------------------------------------------------------
(* Properties                                                                *)

\* While the stream is up, the audio and the finalize frames asked for are on the
\* wire or in the queue, in the order in which they were asked for; afterwards the
\* wire holds the first of them.
WireInOrder ==
    IF ~s.closed /\ s.sock \in {"connecting", "open"}
    THEN s.wire \o s.pending = s.asked
    ELSE IsPrefix(s.wire, s.asked)

\* Every final segment is in exactly one final, in order, or still banked.
TextConserved ==
    FlattenSeq(s.finals) \o s.segments = [i \in 1..s.received |-> i]

\* Each speech end has its one final, or is the last and its finalize has still to
\* be acknowledged: so none is swallowed by an end that is never answered.
TurnsPaired ==
    /\ s.ends = Len(s.finals) + IF s.awaitingFlush THEN 1 ELSE 0
    /\ s.awaitingFlush /\ ~s.closed /\ s.sock \in {"connecting", "open"} =>
          s.acked < Len(SelectSeq(s.wire \o s.pending, LAMBDA f : f = Finalized))

\* What the caller hears; and from when on it hears nothing.
Gone == s.closed
Reports == <<s.ends, s.finals, s.errors>>
=============================================================================

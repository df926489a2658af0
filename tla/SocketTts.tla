----------------------------- MODULE SocketTts -----------------------------
(***************************************************************************)
(* The speech streams that hold one socket per turn, of                    *)
(* src/backend/src/providers/tts/: CartesiaTtsProvider.ts,                 *)
(* ElevenLabsTtsProvider.ts, MurfTtsProvider.ts (openWs, for Gen2) and     *)
(* SarvamTtsProvider.ts.  They are one protocol: the socket connects in    *)
(* the background, text waits in a queue until it is open, and an empty    *)
(* text or a flush frame asks for the tail.  Where they differ is said at  *)
(* the operators Initial, OnBadFrame and EndsBadly.                        *)
(*                                                                         *)
(* Each handler runs to completion and is one action.  Texts are numbered. *)
(***************************************************************************)
EXTENDS Naturals, Sequences, SequencesExt, VendorSocket

CONSTANTS
    MaxTexts,    \* bound: texts the caller pushes
    MaxAudio,    \* bound: chunks of audio the vendor sends
    MaxErrors    \* bound: errors

VARIABLE s

Vendor == {"cartesia", "elevenlabs", "murf", "sarvam"}
Text == 1..MaxTexts
Config == 0              \* config, voice_config, InitializeConnection
End == MaxTexts + 1      \* the frame that flush() asks for
Frame == Text \cup {Config, End}

Stream ==
    [vendor    : Vendor,
     sock      : Sock,
     ready     : BOOLEAN,
     cancelled : BOOLEAN,
     flushed   : BOOLEAN,
     done      : BOOLEAN,
     pending   : Seq(Text \cup {End}),
     \* the vendor's side, and the reports
     wire      : Seq(Frame),
     asked     : Seq(Text \cup {End}),
     audio     : 0..MaxAudio,      \* onAudio
     dones     : 0..1,             \* onDone
     errors    : 0..MaxErrors]     \* onError

TypeOK == s \in Stream

Init ==
    \E v \in Vendor :
        s = [vendor |-> v, sock |-> "connecting", ready |-> FALSE, cancelled |-> FALSE,
             flushed |-> FALSE, done |-> FALSE, pending |-> <<>>, wire |-> <<>>,
             asked |-> <<>>, audio |-> 0, dones |-> 0, errors |-> 0]

\* Cartesia repeats its settings in every frame.
Initial(x) == IF x.vendor = "cartesia" THEN <<>> ELSE <<Config>>

\* Mutant: onDone is not held to one.
Finish_Again(x) == [x EXCEPT !.done = TRUE, !.dones = @ + 1]

Finish(x) ==
    IF x.done THEN x
    ELSE [x EXCEPT !.done = TRUE, !.dones = @ + 1, !.sock = WsClose(@)]

Fail(x) == Finish([x EXCEPT !.errors = @ + 1])

Emit(x, frames) == IF x.cancelled THEN x.wire ELSE Sent(x.sock, x.wire, frames)

EmitOrQueue(x, frame) ==
    LET y == [x EXCEPT !.asked = Append(@, frame)]
    IN  IF x.ready THEN [y EXCEPT !.wire = Emit(x, <<frame>>)]
        ELSE [y EXCEPT !.pending = Append(@, frame)]

RoomToFail == s.errors < MaxErrors

Opens ==
    /\ MayOpen(s.sock)
    /\ s' = LET y == [s EXCEPT !.sock = "open", !.ready = TRUE, !.pending = <<>>]
            IN  [y EXCEPT !.wire = Emit(y, Initial(s) \o s.pending)]

-----------------------------------------------------------------------------
(* Messages: dropped after a cancel, but not after the turn is done.         *)

\* The vendor has an end to report once it was asked for one.
Audio ==
    /\ MayReceive(s.sock)
    /\ s.audio < MaxAudio
    /\ \E final \in BOOLEAN :
         /\ final => s.vendor \in {"elevenlabs", "murf"} /\ End \in Range(s.wire)
         /\ LET y == [s EXCEPT !.audio = @ + 1]
            IN  s' = IF s.cancelled THEN s
                     ELSE IF final THEN Finish(y) ELSE y

Final ==
    /\ MayReceive(s.sock)
    /\ End \in Range(s.wire)
    /\ s' = IF s.cancelled THEN s ELSE Finish(s)

ErrorMessage ==
    /\ MayReceive(s.sock)
    /\ RoomToFail
    /\ s' = IF s.cancelled THEN s ELSE Fail(s)

\* Sarvam reports a frame that is not JSON; the others ignore it.
OnBadFrame(x) ==
    IF x.vendor = "sarvam" THEN [x EXCEPT !.errors = @ + 1] ELSE x

BadFrame ==
    /\ MayReceive(s.sock)
    /\ RoomToFail
    /\ s' = IF s.cancelled THEN s ELSE OnBadFrame(s)

-----------------------------------------------------------------------------
(* The end of the socket                                                     *)

ErrorEvent ==
    /\ MayFail(s.sock)
    /\ RoomToFail
    /\ s' = LET y == [s EXCEPT !.sock = "lost"]
            IN  IF s.cancelled THEN y ELSE Fail(y)

PeerEnds == MayEnd(s.sock) /\ s' = [s EXCEPT !.sock = "lost"]

\* For ElevenLabs a close code is its failure channel, flushed or not.
EndsBadly(x, normal) == ~x.flushed \/ (x.vendor = "elevenlabs" /\ ~normal)

CloseEvent ==
    /\ MayClose(s.sock)
    /\ RoomToFail
    /\ \E normal \in BOOLEAN :
         LET y == [s EXCEPT !.sock = "closed"]
         IN  s' = IF s.cancelled \/ s.done THEN y
                  ELSE IF EndsBadly(s, normal) THEN Fail(y) ELSE Finish(y)

-----------------------------------------------------------------------------
(* The caller                                                                *)

PushText ==
    /\ ~s.cancelled /\ ~s.flushed
    /\ Len(s.asked) < MaxTexts
    /\ s' = EmitOrQueue(s, Len(s.asked) + 1)

Flush ==
    /\ ~s.cancelled /\ ~s.flushed
    /\ s' = EmitOrQueue([s EXCEPT !.flushed = TRUE], End)

\* cancel() and close() do the same.
Cancel ==
    /\ ~s.cancelled
    /\ s' = [s EXCEPT !.cancelled = TRUE, !.done = TRUE, !.pending = <<>>,
                      !.sock = WsClose(@)]

-----------------------------------------------------------------------------
Next ==
    \/ Opens \/ Audio \/ Final \/ ErrorMessage \/ BadFrame
    \/ ErrorEvent \/ PeerEnds \/ CloseEvent
    \/ PushText \/ Flush \/ Cancel

Spec == Init /\ [][Next]_s

-----------------------------------------------------------------------------
(* Properties                                                                *)

\* The settings go first; then every text and the end asked for, in order, is on
\* the wire or queued while the stream is up, and a beginning of them afterwards.
WireInOrder ==
    LET up == ~s.done /\ s.sock \in {"connecting", "open"}
        init == IF s.wire = <<>> THEN <<>> ELSE Initial(s)
        sent == SubSeq(s.wire, Len(init) + 1, Len(s.wire))
    IN  /\ IsPrefix(init, s.wire)
        /\ IF up THEN sent \o s.pending = s.asked ELSE IsPrefix(sent, s.asked)

\* A turn is ended at most once; it is ended by the time its socket is gone; and it
\* is not ended without an error before the end of its text was asked for.
EndsOnce ==
    /\ s.dones <= 1
    /\ s.sock = "closed" /\ ~s.cancelled => s.dones = 1
    /\ s.dones = 1 /\ s.errors = 0 => s.flushed

\* What the caller hears; and from when on it hears nothing.
Gone == s.cancelled
Reports == <<s.audio, s.dones, s.errors>>
=============================================================================

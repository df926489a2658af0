--------------------------- MODULE OpenAiRealtime ---------------------------
(***************************************************************************)
(* src/backend/src/providers/realtime/OpenAiRealtimeProvider.ts: a         *)
(* VoiceSession over one WebSocket to a speech-to-speech vendor.  A turn   *)
(* begins at a speech end, a manual commit or a typed text; the vendor's   *)
(* responses arrive later, in order, and the session decides by response   *)
(* id which turn each of them belongs to.  A turn's end and its bill are   *)
(* separate: the counts of a turn that was cut off come with its           *)
(* response.done.                                                          *)
(*                                                                         *)
(* Every client call and every frame is handled to completion, so each is  *)
(* one action.  The handlers share the private methods, which are          *)
(* operators from a session record to the next.  Texts, transcripts and    *)
(* latency marks are left out.                                             *)
(***************************************************************************)
EXTENDS Naturals, Sequences, FiniteSets

CONSTANTS
    MaxTurns,      \* bound: no step that may open a turn once turnCounter is here
    MaxResponses,  \* bound: responses the vendor creates
    MaxDeltas      \* bound: units of audio the vendor makes for one response

ASSUME BoundsAssumption ==
    /\ MaxTurns \in Nat
    /\ MaxResponses \in Nat
    /\ MaxDeltas \in Nat

VARIABLES
    s,       \* the session, and what it has reported
    out,     \* frames on their way to the vendor
    inbox,   \* frames on their way from the vendor
    vendor   \* the vendor's side of the conversation

vars == <<s, out, inbox, vendor>>

TurnId == 1..MaxTurns
Response == 1..MaxResponses   \* ids; an answer's item is named by its response
None == 0                     \* undefined

Turn ==
    [phase : {"none", "open", "ended"},
     billed : BOOLEAN,
     responseId : Response \cup {None},
     itemId : Response \cup {None},
     audio : Nat]             \* audioBytes, in units of one delta

NoTurn ==
    [phase |-> "none", billed |-> FALSE, responseId |-> None,
     itemId |-> None, audio |-> 0]

Session ==
    [starting : {"opening", "ready", "rejected"},   \* start()
     ws       : {"connecting", "open", "closing", "closed"},
     closed   : BOOLEAN,
     vad      : BOOLEAN,              \* turnDetection is 'server_vad'
     counter  : 0..MaxTurns,
     active   : TurnId \cup {None},
     turns    : [TurnId -> Turn],
     awaiting : SUBSET TurnId,        \* awaitingUsage, oldest turn first
     \* reports
     started  : [TurnId -> Nat],      \* onTurnStart
     ended    : [TurnId -> Nat],      \* onTurnEnd
     usages   : [TurnId -> Nat],      \* onUsage
     paid     : [TurnId -> Response \cup {None}],   \* what the row stands for
     seen     : SUBSET Response,      \* response.created handled
     done     : SUBSET Response]      \* response.done handled

\* arg is audio_end_ms of a truncate, and 1 in a response.done with counts.
Frame ==
    [type : {"session.update", "session.updated", "error", "response.create",
             "speech_started", "speech_stopped"}, response : {None}, arg : {0}]
    \cup [type : {"response.cancel"}, response : Response \cup {None}, arg : {0}]
    \cup [type : {"truncate"}, response : Response, arg : Nat \ {0}]
    \cup [type : {"response.created", "audio.delta"}, response : Response, arg : {0}]
    \cup [type : {"response.done"}, response : Response, arg : {0, 1}]

F(type, response, arg) == [type |-> type, response |-> response, arg |-> arg]

Vendor ==
    [live    : Response \cup {None},   \* the response it is generating
     created : 0..MaxResponses,
     made    : [Response -> Nat],      \* audio generated for a response
     configured : BOOLEAN,             \* it accepted our session.update
     talking : BOOLEAN]                \* its detector hears the user

Init ==
    /\ s \in {[starting |-> "opening", ws |-> "connecting", closed |-> FALSE,
               vad |-> v, counter |-> 0, active |-> None,
               turns |-> [t \in TurnId |-> NoTurn], awaiting |-> {},
               started |-> [t \in TurnId |-> 0],
               ended |-> [t \in TurnId |-> 0],
               usages |-> [t \in TurnId |-> 0],
               paid |-> [t \in TurnId |-> None],
               seen |-> {}, done |-> {}] : v \in BOOLEAN}
    /\ out = << >>
    /\ inbox = << >>
    /\ vendor = [live |-> None, created |-> 0,
                 made |-> [r \in Response |-> 0],
                 configured |-> FALSE, talking |-> FALSE]

-----------------------------------------------------------------------------
(* Private methods.                                                         *)

EndTurn(x, t) ==
    IF x.turns[t].phase # "open" THEN x
    ELSE [x EXCEPT
            !.turns = [x.turns EXCEPT ![t] = [x.turns[t] EXCEPT !.phase = "ended"]],
            !.active = IF x.active = t THEN None ELSE x.active,
            !.awaiting = IF x.turns[t].billed THEN x.awaiting
                         ELSE x.awaiting \cup {t},
            !.ended = [x.ended EXCEPT ![t] = x.ended[t] + 1]]

EndActive(x) == IF x.active = None THEN x ELSE EndTurn(x, x.active)

OpenTurn(x) ==
    LET t == x.counter + 1
    IN  [x EXCEPT !.counter = t,
                  !.turns = [x.turns EXCEPT ![t] = [NoTurn EXCEPT !.phase = "open"]],
                  !.active = t,
                  !.started = [x.started EXCEPT ![t] = x.started[t] + 1]]

\* Mutant: the turn still open is overwritten.
BeginTurn_Overwrites(x) == OpenTurn(x)

BeginTurn(x) == OpenTurn(EndActive(x))

\* neverRan is the negation: such a turn gets no row.
Ran(turn) == turn.responseId # None \/ turn.audio > 0

\* bill() of the turns in T: with the counts of response r, or without any.  A
\* row stands for the response it reports, or else for the one the turn is bound to.
Bill(x, T, r, counts) ==
    LET now  == {t \in T : ~x.turns[t].billed}
        rows == {t \in now : counts \/ Ran(x.turns[t])}
    IN  [x EXCEPT
           !.turns = [t \in TurnId |->
                        [x.turns[t] EXCEPT !.billed = @ \/ t \in now]],
           !.awaiting = x.awaiting \ now,
           !.usages = [t \in TurnId |->
                         x.usages[t] + IF t \in rows THEN 1 ELSE 0],
           !.paid = [t \in TurnId |->
                       IF t \notin rows THEN x.paid[t]
                       ELSE IF r # None THEN r ELSE x.turns[t].responseId]]

\* Mutant: only what has a response is flushed, the rest stays in the list.
FlushBilling_Ran(x) ==
    Bill(x, {t \in x.awaiting : Ran(x.turns[t])}, None, FALSE)

FlushBilling(x) == Bill(x, x.awaiting, None, FALSE)

\* Mutant: the turn a late report belongs to is not looked for.
TurnFor_Active(x, r) == x.active

TurnFor(x, r) ==
    LET holds(t) == x.turns[t].responseId = r
        late == {t \in x.awaiting : holds(t)}
    IN  IF x.active # None /\ holds(x.active) THEN x.active
        ELSE IF late # {} THEN CHOOSE t \in late : \A u \in late : t <= u
        ELSE IF x.active # None /\ x.turns[x.active].responseId = None
        THEN x.active ELSE None

\* The turn that streamed content of response r is for.
OwnerOf(x, r) ==
    IF x.active # None /\ x.turns[x.active].responseId \in {None, r}
    THEN x.active ELSE None

BindResponse(x, r) ==
    LET b == IF x.active = None THEN BeginTurn(x) ELSE x
        turn == [b.turns[b.active] EXCEPT !.responseId = r]
    IN  [b EXCEPT !.turns = [b.turns EXCEPT ![b.active] = turn],
                  !.seen = b.seen \cup {r}]

OnAudioDelta(x, r) ==
    LET t == OwnerOf(x, r)
    IN  IF t = None THEN x
        ELSE [x EXCEPT !.turns = [x.turns EXCEPT ![t] =
                [x.turns[t] EXCEPT !.itemId = r, !.audio = x.turns[t].audio + 1]]]

OnResponseDone(x, r, counts) ==
    LET t == TurnFor(x, r)
        d == [x EXCEPT !.done = x.done \cup {r}]
    IN  IF t = None THEN d ELSE Bill(EndTurn(d, t), {t}, r, counts)

\* Mutant: start() is rejected and the session left as it is.
Settle_Open(x) == [x EXCEPT !.starting = "rejected"]

\* Mutant: a session that was closed has nothing to settle.
Settle_IfOpen(x) ==
    IF x.closed THEN x
    ELSE [x EXCEPT !.closed = TRUE, !.starting = "rejected",
                   !.ws = IF @ = "closed" THEN @ ELSE "closing"]

Settle(x) ==
    [x EXCEPT !.closed = TRUE, !.starting = "rejected",
              !.ws = IF @ = "closed" THEN @ ELSE "closing"]

\* What close() and an unexpected end of the socket share.
CloseOut(x) == FlushBilling(EndActive([x EXCEPT !.closed = TRUE]))

-----------------------------------------------------------------------------
(* The client.  session-socket calls the session from createSession() on,  *)
(* while start() is waiting too, and drops it when start() rejects.         *)

Usable == s.starting # "rejected"

IdLeft == s.counter < MaxTurns

\* send(): nothing happens unless the socket is open.
Send(frames) == out' = IF s.ws = "open" THEN out \o frames ELSE out

\* commitAudio() with manual turn detection; with the vendor's it does nothing.
CommitAudio ==
    /\ Usable /\ ~s.closed /\ ~s.vad /\ IdLeft
    /\ s' = BeginTurn(s)
    /\ Send(<<F("response.create", None, 0)>>)
    /\ UNCHANGED <<inbox, vendor>>

SendText ==
    /\ Usable /\ ~s.closed /\ IdLeft
    /\ s' = BeginTurn(s)
    /\ Send(<<F("response.create", None, 0)>>)
    /\ UNCHANGED <<inbox, vendor>>

Interrupt ==
    /\ Usable /\ s.active # None
    /\ LET turn == s.turns[s.active]
           cancel == <<F("response.cancel", turn.responseId, 0)>>
           truncate == IF turn.itemId # None /\ turn.audio > 0
                       THEN <<F("truncate", turn.itemId, turn.audio)>> ELSE << >>
       IN  Send(cancel \o truncate)
    /\ s' = EndTurn(s, s.active)
    /\ UNCHANGED <<inbox, vendor>>

Close ==
    /\ Usable /\ ~s.closed
    /\ s' = [CloseOut(s) EXCEPT
               !.ws = IF @ \in {"connecting", "open"} THEN "closing" ELSE @]
    /\ UNCHANGED <<out, inbox, vendor>>

-----------------------------------------------------------------------------
(* The socket and the handshake timer.                                      *)

SocketOpens ==
    /\ s.ws = "connecting"
    /\ s' = [s EXCEPT !.ws = "open"]
    /\ out' = <<F("session.update", None, 0)>>
    /\ UNCHANGED <<inbox, vendor>>

\* An 'error' event; 'close' always follows it.
SocketErrors ==
    /\ s.ws \in {"connecting", "open"}
    /\ LET e == [s EXCEPT !.ws = "closing"]
       IN  s' = IF s.starting = "opening" THEN Settle(e) ELSE e
    /\ UNCHANGED <<out, inbox, vendor>>

\* The 'close' event, ours or unexpected.  What was in flight is lost.
SocketCloses ==
    /\ s.ws # "closed"
    /\ LET e == [s EXCEPT !.ws = "closed"]
       IN  s' = IF s.starting = "opening" THEN Settle(e)
                ELSE IF s.closed THEN e ELSE CloseOut(e)
    /\ out' = << >>
    /\ inbox' = << >>
    /\ UNCHANGED vendor

HandshakeTimeout ==
    /\ s.starting = "opening"
    /\ s' = Settle(s)
    /\ UNCHANGED <<out, inbox, vendor>>

-----------------------------------------------------------------------------
(* onMessage(): one action per frame.                                       *)

Handles(type) ==
    /\ inbox # << >>
    /\ ~s.closed
    /\ Head(inbox).type = type
    /\ inbox' = Tail(inbox)
    /\ UNCHANGED <<out, vendor>>

SessionUpdated ==
    /\ Handles("session.updated")
    /\ s' = [s EXCEPT !.starting = "ready"]

\* Outside the handshake an error is reported and nothing else.
VendorError ==
    /\ Handles("error")
    /\ s' = IF s.starting = "opening" THEN Settle(s) ELSE s

SpeechStarted ==
    /\ Handles("speech_started")
    /\ s' = EndActive(s)

SpeechStopped ==
    /\ Handles("speech_stopped") /\ IdLeft
    /\ s' = BeginTurn(s)

ResponseCreated ==
    /\ Handles("response.created")
    /\ s.active = None => IdLeft
    /\ s' = BindResponse(s, Head(inbox).response)

AudioDelta ==
    /\ Handles("audio.delta")
    /\ s' = OnAudioDelta(s, Head(inbox).response)

ResponseDone ==
    /\ Handles("response.done")
    /\ s' = OnResponseDone(s, Head(inbox).response, Head(inbox).arg = 1)

\* A frame that was in flight when the session closed.
FrameIgnored ==
    /\ inbox # << >>
    /\ s.closed
    /\ inbox' = Tail(inbox)
    /\ UNCHANGED <<s, out, vendor>>

-----------------------------------------------------------------------------
(* The vendor, as the handlers and their comments describe it: frames come *)
(* in order, one response is generated at a time, and response.done is     *)
(* always sent.  A refused request is answered by an error that changes    *)
(* nothing here, so only the error that refuses the configuration is a     *)
(* frame of the model.                                                      *)

Online == s.ws = "open"

Says(frames) == inbox' = inbox \o frames

\* The end of the response being generated, if there is one.
Done(counts) ==
    IF vendor.live = None THEN << >>
    ELSE <<F("response.done", vendor.live, IF counts THEN 1 ELSE 0)>>

Reads(type) ==
    /\ Online /\ out # << >>
    /\ Head(out).type = type
    /\ out' = Tail(out)
    /\ UNCHANGED s

Creates ==
    vendor' = [vendor EXCEPT !.live = vendor.created + 1,
                             !.created = vendor.created + 1]

VendorConfigures ==
    /\ Reads("session.update")
    /\ \/ /\ Says(<<F("session.updated", None, 0)>>)
          /\ vendor' = [vendor EXCEPT !.configured = TRUE]
       \/ /\ Says(<<F("error", None, 0)>>)
          /\ UNCHANGED vendor

\* While a response is generated the request waits or is refused.
VendorResponds ==
    /\ Reads("response.create")
    /\ vendor.live = None /\ vendor.created < MaxResponses
    /\ Creates
    /\ Says(<<F("response.created", vendor.created + 1, 0)>>)

VendorRefuses ==
    /\ Reads("response.create")
    /\ UNCHANGED <<inbox, vendor>>

\* A cancel without an id is for whatever is being generated.
VendorCancels ==
    /\ Reads("response.cancel")
    /\ LET hit == Head(out).response \in {None, vendor.live}
       IN  IF hit THEN /\ \E counts \in BOOLEAN : Says(Done(counts))
                       /\ vendor' = [vendor EXCEPT !.live = None]
           ELSE UNCHANGED <<inbox, vendor>>

VendorTruncates ==
    /\ Reads("truncate")
    /\ UNCHANGED <<inbox, vendor>>

VendorSpeaks ==
    /\ Online /\ vendor.live # None
    /\ vendor.made[vendor.live] < MaxDeltas
    /\ Says(<<F("audio.delta", vendor.live, 0)>>)
    /\ vendor' = [vendor EXCEPT !.made =
                    [vendor.made EXCEPT ![vendor.live] = @ + 1]]
    /\ UNCHANGED <<s, out>>

VendorFinishes ==
    /\ Online /\ vendor.live # None
    /\ \E counts \in BOOLEAN : Says(Done(counts))
    /\ vendor' = [vendor EXCEPT !.live = None]
    /\ UNCHANGED <<s, out>>

\* interrupt_response: the user speaking ends what the vendor was saying.
VendorHearsUser ==
    /\ Online /\ s.vad /\ vendor.configured /\ ~vendor.talking
    /\ \E counts \in BOOLEAN :
         Says(<<F("speech_started", None, 0)>> \o Done(counts))
    /\ vendor' = [vendor EXCEPT !.talking = TRUE, !.live = None]
    /\ UNCHANGED <<s, out>>

\* create_response: the vendor answers on its own.
VendorHearsSilence ==
    /\ Online /\ vendor.talking
    /\ vendor.live = None /\ vendor.created < MaxResponses
    /\ Says(<<F("speech_stopped", None, 0),
              F("response.created", vendor.created + 1, 0)>>)
    /\ vendor' = [vendor EXCEPT !.talking = FALSE,
                                !.live = vendor.created + 1,
                                !.created = vendor.created + 1]
    /\ UNCHANGED <<s, out>>

-----------------------------------------------------------------------------
Client == CommitAudio \/ SendText \/ Interrupt \/ Close

Socket == SocketOpens \/ SocketErrors \/ SocketCloses \/ HandshakeTimeout

OnMessage ==
    \/ SessionUpdated \/ VendorError
    \/ SpeechStarted \/ SpeechStopped
    \/ ResponseCreated \/ AudioDelta \/ ResponseDone
    \/ FrameIgnored

VendorSide ==
    \/ VendorConfigures \/ VendorResponds \/ VendorRefuses
    \/ VendorCancels \/ VendorTruncates
    \/ VendorSpeaks \/ VendorFinishes
    \/ VendorHearsUser \/ VendorHearsSilence

Next == Client \/ Socket \/ OnMessage \/ VendorSide

Spec == Init /\ [][Next]_vars

\* Node runs a due timer.
FairSpec == Spec /\ WF_vars(HandshakeTimeout)

-----------------------------------------------------------------------------
TypeOK ==
    /\ s \in Session
    /\ out \in Seq(Frame)
    /\ inbox \in Seq(Frame)
    /\ vendor \in Vendor

\* Every turn the client was told of is the one that is open or has been
\* ended, once, and no turn has two usage rows or one before its end, whichever
\* of a report, a barge-in, a new turn and a lost socket came first.
EventsPaired ==
    /\ \A t \in TurnId :
         /\ s.started[t] <= 1
         /\ s.ended[t] <= s.started[t]
         /\ s.usages[t] <= s.ended[t]
    /\ {t \in TurnId : s.ended[t] < s.started[t]} = {s.active} \ {None}

\* awaitingUsage is exactly the turns that ended and are not billed, and a
\* session that was closed, or lost its socket, leaves none in it and none open.
\* (When start() rejects, session-socket has no ledger to bill to.)
OwedIsAwaited ==
    /\ s.awaiting = {t \in TurnId : s.turns[t].phase = "ended"
                                    /\ ~s.turns[t].billed}
    /\ s.closed /\ s.starting # "rejected" => s.awaiting = {} /\ s.active = None

\* A response the session saw created is on one row, no more and no fewer, once
\* it was reported done or the session closed, however its turn ended meanwhile.
RanIsBilled ==
    \A r \in s.seen :
      r \in s.done \/ (s.closed /\ s.starting # "rejected") =>
        Cardinality({t \in TurnId : s.usages[t] = 1 /\ s.paid[t] = r}) = 1

\* After close(), a lost socket or a failed start the client hears of no turn.
ClosedIsSilent ==
    [][s.closed \/ s.starting = "rejected" =>
         UNCHANGED <<s.started, s.ended, s.usages, s.turns>>]_vars

\* start() resolves or rejects, also when the session is closed under it.
StartSettles == (s.starting = "opening") ~> (s.starting # "opening")

\* What truncate tells the vendor the user heard of an answer is never more than
\* the vendor made of it ("it is never more than the server generated", says
\* the comment in interrupt()).
TruncateWithinItem ==
    \A i \in 1..Len(out) :
      out[i].type = "truncate" => out[i].arg <= vendor.made[out[i].response]
=============================================================================

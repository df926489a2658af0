----------------------------- MODULE NovaSonic -----------------------------
(***************************************************************************)
(* src/backend/src/providers/realtime/NovaSonicProvider.ts: a VoiceSession *)
(* over one bidirectional HTTP/2 stream.  Answers come as completions,     *)
(* whose id every output event carries.  A turn opens when the local       *)
(* detector hears the end of speech, and is bound to a completion up to    *)
(* two seconds afterwards: until then, events of the completion before are *)
(* still coming in.                                                        *)
(*                                                                         *)
(* A client call, and the handling of one output event, runs to completion *)
(* and is one action; start() and close() are split at their awaits.  The  *)
(* vendor does not hear what the session makes of an event, so an event is *)
(* sent and handled in one step.  What the session sends is the matter of  *)
(* NovaTransport.  Texts, transcripts, latency marks, logs and errors that *)
(* are only passed on are left out, and with them the timers of the        *)
(* stream's eight minutes, which choose what is said of its end.           *)
(***************************************************************************)
EXTENDS Naturals, Sequences, FiniteSets, FiniteSetsExt

CONSTANTS
    MaxTurns,        \* bound: no step that may open a turn once turnCounter is here
    MaxCompletions,  \* bound: completions the vendor opens
    MaxUsage         \* bound: usage events of one completion

ASSUME BoundsAssumption ==
    MaxTurns \in Nat \ {0} /\ MaxCompletions \in Nat /\ MaxUsage \in Nat

VARIABLES
    s,       \* the session, and what it has reported
    stream,  \* of the transport: "connecting", "up" or "down"
    vendor   \* the vendor's completions

vars == <<s, stream, vendor>>

TurnId == 1..MaxTurns
Completion == 1..MaxCompletions
None == 0   \* undefined

Turn ==
    [phase      : {"none", "open", "ended"},
     billed     : BOOLEAN,
     completion : Completion \cup {None},
     heard      : SUBSET Completion,          \* whose audio is in audioBytes
     tokens     : [Completion -> 0..MaxUsage]]  \* usage events added up, by origin

NoTurn ==
    [phase |-> "none", billed |-> FALSE, completion |-> None, heard |-> {},
     tokens |-> [c \in Completion |-> 0]]

Session ==
    [starting  : {"opening", "ready", "rejected"},      \* start()
     closing   : {"no", "draining", "done", "lost"},  \* how it ended
     closed    : BOOLEAN,
     vad       : BOOLEAN,             \* turnDetection is 'server_vad'
     blockOpen : BOOLEAN,             \* audioBlockOpen
     counter   : 0..MaxTurns,
     active    : TurnId \cup {None},
     turns     : [TurnId -> Turn],
     awaiting  : SUBSET TurnId,       \* awaitingUsage, oldest turn first
     seen      : SUBSET Completion,   \* seenCompletions
     \* reports
     started   : [TurnId -> 0..1],    \* onTurnStart
     ended     : [TurnId -> 0..1],    \* onTurnEnd and onMetrics
     cut       : [TurnId -> 0..1],    \* onInterrupt
     usages    : [TurnId -> 0..1],    \* onUsage
     lost      : 0..1]                \* onError of a stream that has closed

Vendor ==
    [labelled : BOOLEAN,   \* its events carry a completionId
     early : BOOLEAN,      \* history: audio came before its completionStart
     stage : [Completion -> {"none", "early", "open", "over"}],
     usage : [Completion -> 0..MaxUsage],    \* usage events sent
     owed  : [Completion -> 0..MaxUsage]]    \* to an open session, while it ran

Init ==
    /\ \E vad \in BOOLEAN :
         s = [starting |-> "opening", closing |-> "no", closed |-> FALSE,
              vad |-> vad, blockOpen |-> TRUE, counter |-> 0, active |-> None,
              turns |-> [t \in TurnId |-> NoTurn], awaiting |-> {}, seen |-> {},
              started |-> [t \in TurnId |-> 0], ended |-> [t \in TurnId |-> 0],
              cut |-> [t \in TurnId |-> 0], usages |-> [t \in TurnId |-> 0],
              lost |-> 0]
    /\ stream = "connecting"
    /\ \E l \in BOOLEAN :
         vendor = [labelled |-> l, early |-> FALSE, stage |-> [c \in Completion |-> "none"],
                   usage |-> [c \in Completion |-> 0],
                   owed |-> [c \in Completion |-> 0]]

-----------------------------------------------------------------------------
(* Turns: operators from a session record to the next.                       *)

Pending(turn) ==
    turn.phase = "open" /\ turn.completion = None /\ turn.heard = {}

SawUsage(turn) == \E c \in Completion : turn.tokens[c] > 0

\* Mutant: only a turn that was heard is owed a bill.
EndTurn_HeardOnly(x, t, interrupted) ==
    IF x.turns[t].phase # "open" THEN x
    ELSE [x EXCEPT
            !.turns = [x.turns EXCEPT ![t] = [x.turns[t] EXCEPT !.phase = "ended"]],
            !.active = IF x.active = t THEN None ELSE x.active,
            !.awaiting = IF x.turns[t].heard = {} THEN x.awaiting
                         ELSE x.awaiting \cup {t},
            !.ended = [x.ended EXCEPT ![t] = x.ended[t] + 1]]

\* Mutant: a turn that has ended can be ended again.
EndTurn_Twice(x, t, interrupted) ==
    [x EXCEPT
        !.turns = [x.turns EXCEPT ![t] = [x.turns[t] EXCEPT !.phase = "ended"]],
        !.active = IF x.active = t THEN None ELSE x.active,
        !.awaiting = x.awaiting \cup {t},
        !.ended = [x.ended EXCEPT ![t] = x.ended[t] + 1]]

EndTurn(x, t, interrupted) ==
    IF x.turns[t].phase # "open" THEN x
    ELSE [x EXCEPT
            !.turns = [x.turns EXCEPT ![t] = [x.turns[t] EXCEPT !.phase = "ended"]],
            !.active = IF x.active = t THEN None ELSE x.active,
            !.awaiting = IF x.turns[t].billed THEN x.awaiting
                         ELSE x.awaiting \cup {t},
            !.cut = [x.cut EXCEPT ![t] =
                       x.cut[t] + IF interrupted /\ x.turns[t].heard # {} THEN 1 ELSE 0],
            !.ended = [x.ended EXCEPT ![t] = x.ended[t] + 1]]

EndActive(x, interrupted) ==
    IF x.active = None THEN x ELSE EndTurn(x, x.active, interrupted)

OpenTurn(x) ==
    LET t == x.counter + 1
    IN  [x EXCEPT !.counter = t,
                  !.turns = [x.turns EXCEPT ![t] = [NoTurn EXCEPT !.phase = "open"]],
                  !.active = t,
                  !.started = [x.started EXCEPT ![t] = x.started[t] + 1]]

\* A turn nothing has come of yet is kept, and only its t0 moves.
BeginTurn(x) ==
    IF x.active # None /\ Pending(x.turns[x.active]) THEN x
    ELSE OpenTurn(EndActive(x, TRUE))

\* neverRan is the negation: such a turn gets no row.
Ran(turn) == SawUsage(turn) \/ turn.completion # None \/ turn.heard # {}

Bill(x, T) ==
    LET now == {t \in T : ~x.turns[t].billed}
    IN  [x EXCEPT
           !.turns = [t \in TurnId |->
                        [x.turns[t] EXCEPT !.billed = @ \/ t \in now]],
           !.awaiting = x.awaiting \ now,
           !.usages = [t \in TurnId |->
                x.usages[t] + IF t \in now /\ Ran(x.turns[t]) THEN 1 ELSE 0]]

FlushBilling(x) == Bill(x, x.awaiting)

BindTo(x, t, c) ==
    [x EXCEPT !.turns = [x.turns EXCEPT ![t] = [x.turns[t] EXCEPT !.completion = c]],
              !.seen = x.seen \cup {c}]

Holders(x, c) ==
    {t \in x.awaiting \cup ({x.active} \ {None}) : x.turns[t].completion = c}

\* Mutant: an id that is not found is claimed by the open turn, seen or not.
TurnFor_Claims(x, c) ==
    IF c = None
    THEN IF x.active # None THEN x.active
         ELSE IF x.awaiting = {} THEN None ELSE Min(x.awaiting)
    ELSE IF Holders(x, c) # {}
    THEN IF x.active \in Holders(x, c) THEN x.active ELSE Min(Holders(x, c))
    ELSE x.active

\* The turn an event labelled c is for; None labels an event without an id.
TurnFor(x, c) ==
    IF c = None
    THEN IF x.active # None THEN x.active
         ELSE IF x.awaiting = {} THEN None ELSE Min(x.awaiting)
    ELSE IF Holders(x, c) # {}
    THEN IF x.active \in Holders(x, c) THEN x.active ELSE Min(Holders(x, c))
    ELSE IF c \notin x.seen /\ x.active # None /\ x.turns[x.active].completion = None
    THEN x.active ELSE None

\* turnFor() binds an id it has never seen to the open turn.
Claim(x, c) ==
    LET t == TurnFor(x, c)
    IN  IF c # None /\ t # None /\ x.turns[t].completion = None
        THEN BindTo(x, t, c) ELSE x

BindCompletion(x, c) ==
    LET other == /\ x.active # None
                 /\ c # None
                 /\ x.turns[x.active].completion \notin {None, c}
        y == IF other THEN EndActive(x, FALSE) ELSE x
        b == IF y.active = None THEN BeginTurn(y) ELSE y
    IN  IF c = None THEN b ELSE BindTo(b, b.active, c)

-----------------------------------------------------------------------------
(* Output events.  c is the completion an event comes from, l its label.     *)

OnAudioOutput(x, c, l) ==
    LET t == TurnFor(x, l)
        y == Claim(x, l)
    IN  IF t = None \/ x.turns[t].phase = "ended" THEN y
        ELSE [y EXCEPT !.turns = [y.turns EXCEPT ![t] =
                [y.turns[t] EXCEPT !.heard = y.turns[t].heard \cup {c}]]]

OnUsageEvent(x, c, l) ==
    LET t == TurnFor(x, l)
        y == Claim(x, l)
        n == y.turns[t].tokens
    IN  IF t = None THEN y
        ELSE [y EXCEPT !.turns = [y.turns EXCEPT ![t] =
                [y.turns[t] EXCEPT !.tokens = [n EXCEPT ![c] = n[c] + 1]]]]

OnInterrupted(x, l) ==
    LET t == TurnFor(x, l)
        y == Claim(x, l)
    IN  IF t = None THEN y ELSE EndTurn(y, t, TRUE)

OnCompletionEnd(x, l) ==
    LET t == TurnFor(x, l)
        y == Claim(x, l)
    IN  IF t = None THEN y ELSE Bill(EndTurn(y, t, FALSE), {t})

Label(c) == IF vendor.labelled THEN c ELSE None

\* onEvent() drops what comes after the end; so does a stream nobody reads.
Handle(result) == s' = IF s.closed THEN s ELSE result

RoomToOpen == s.counter < MaxTurns

CompletionStart(c) ==
    /\ stream = "up"
    /\ RoomToOpen
    /\ vendor.stage[c] \in {"none", "early"}
    /\ c > 1 => vendor.stage[c - 1] \in {"open", "over"}
    /\ vendor' = [vendor EXCEPT !.stage[c] = "open"]
    /\ Handle(BindCompletion(s, Label(c)))
    /\ UNCHANGED stream

AudioOutput(c) ==
    /\ stream = "up"
    /\ \/ vendor.stage[c] = "open" /\ UNCHANGED vendor
       \/ /\ vendor.stage[c] = "none"
          /\ c > 1 => vendor.stage[c - 1] \in {"open", "over"}
          /\ vendor' = [vendor EXCEPT !.stage[c] = "early", !.early = TRUE]
    /\ Handle(OnAudioOutput(s, c, Label(c)))
    /\ UNCHANGED stream

\* A text that is the marker, or a contentEnd with stopReason INTERRUPTED.
Interrupted(c) ==
    /\ stream = "up"
    /\ vendor.stage[c] = "open"
    /\ Handle(OnInterrupted(s, Label(c)))
    /\ UNCHANGED <<stream, vendor>>

\* Text that is not the marker reaches turnFor() too.
TextOutput(c) ==
    /\ stream = "up"
    /\ vendor.stage[c] = "open"
    /\ Handle(Claim(s, Label(c)))
    /\ UNCHANGED <<stream, vendor>>

UsageEvent(c) ==
    /\ stream = "up"
    /\ vendor.stage[c] \in {"open", "over"}
    /\ vendor.usage[c] < MaxUsage
    /\ LET owed == vendor.stage[c] = "open" /\ ~s.closed
       IN  vendor' = [vendor EXCEPT !.usage[c] = @ + 1,
                                    !.owed[c] = @ + IF owed THEN 1 ELSE 0]
    /\ Handle(OnUsageEvent(s, c, Label(c)))
    /\ UNCHANGED stream

CompletionEnd(c) ==
    /\ stream = "up"
    /\ vendor.stage[c] = "open"
    /\ vendor' = [vendor EXCEPT !.stage[c] = "over"]
    /\ Handle(OnCompletionEnd(s, Label(c)))
    /\ UNCHANGED stream

-----------------------------------------------------------------------------
(* start() and the end of the stream                                         *)

\* open() has returned.  close() may have been called in the meantime.
Opened ==
    /\ s.starting = "opening"
    /\ stream = "connecting"
    /\ stream' = "up"
    /\ s' = [s EXCEPT !.starting = "ready"]
    /\ UNCHANGED vendor

\* open() throws, there is no response stream, or 20 seconds have passed.
StartFails ==
    /\ s.starting = "opening"
    /\ s' = [s EXCEPT !.starting = "rejected", !.closed = TRUE]
    /\ stream' = "down"
    /\ UNCHANGED vendor

OnStreamClosed(x) ==
    IF x.closed THEN x
    ELSE FlushBilling(EndActive(
            [x EXCEPT !.closed = TRUE, !.closing = "lost", !.lost = @ + 1], FALSE))

\* The response body ends or throws: by the vendor's cap, after sessionEnd, or
\* because the connection is gone.
StreamEnds ==
    /\ stream = "up"
    /\ stream' = "down"
    /\ s' = OnStreamClosed(s)
    /\ UNCHANGED vendor

-----------------------------------------------------------------------------
(* Client calls.  The socket lets go of a session whose start() was rejected, *)
(* for want of credentials too.                                              *)

Held == s.starting # "rejected"

\* A frame of the microphone, which may be the one that completes the silence.
PushAudio ==
    /\ Held
    /\ ~s.closed
    /\ s.blockOpen
    /\ RoomToOpen
    /\ \E end \in BOOLEAN : s' = IF s.vad /\ end THEN BeginTurn(s) ELSE s
    /\ UNCHANGED <<stream, vendor>>

CommitAudio ==
    /\ Held
    /\ ~s.closed
    /\ ~s.vad
    /\ RoomToOpen
    /\ s' = BeginTurn(s)
    /\ UNCHANGED <<stream, vendor>>

SendText ==
    /\ Held
    /\ ~s.closed
    /\ RoomToOpen
    /\ s' = BeginTurn(s)
    /\ UNCHANGED <<stream, vendor>>

Interrupt ==
    /\ Held
    /\ s.active # None
    /\ s' = EndActive(s, TRUE)
    /\ UNCHANGED <<stream, vendor>>

\* close() up to its await; a second call returns at once.
Close ==
    /\ Held
    /\ ~s.closed
    /\ s' = [EndActive([s EXCEPT !.closed = TRUE], FALSE)
             EXCEPT !.blockOpen = FALSE, !.closing = "draining"]
    /\ UNCHANGED <<stream, vendor>>

\* close() after its await of endInput(), which takes 500 ms at most.
CloseOut ==
    /\ s.closing = "draining"
    /\ s' = [FlushBilling(s) EXCEPT !.closing = "done"]
    /\ stream' = "down"
    /\ UNCHANGED vendor

-----------------------------------------------------------------------------
VendorStep ==
    \E c \in Completion :
        \/ CompletionStart(c) \/ AudioOutput(c) \/ TextOutput(c)
        \/ Interrupted(c) \/ UsageEvent(c) \/ CompletionEnd(c)

Next ==
    \/ VendorStep
    \/ Opened \/ StartFails \/ StreamEnds
    \/ PushAudio \/ CommitAudio \/ SendText \/ Interrupt
    \/ Close \/ CloseOut

Spec == Init /\ [][Next]_vars

\* The timers of start() and close() fire, and promises that resolve are seen.
FairSpec ==
    Spec /\ WF_vars(StartFails) /\ WF_vars(CloseOut)

-----------------------------------------------------------------------------
(* Properties                                                               *)

\* The records have the fields and the ranges above.
TypeOK ==
    /\ s \in Session
    /\ stream \in {"connecting", "up", "down"}
    /\ vendor \in Vendor

\* The vendor labels every event, and starts a completion before it says anything
\* of it.  (bindCompletion() does not look in seenCompletions.)
InOrder == vendor.labelled /\ ~vendor.early

\* No sound and no token of one completion reaches the turn of another, however
\* late it comes, and no two turns claim one completion (turnFor, bindCompletion);
\* and every usage event that reached an open session while its completion ran is in
\* one turn's bill, also for a turn the user had talked over long before.
CompletionsKeptApart ==
    InOrder =>
        /\ \A t \in TurnId :
              LET turn == s.turns[t]
              IN  /\ turn.heard \subseteq {turn.completion}
                  /\ \A u \in TurnId \ {t} :
                        turn.completion # None => s.turns[u].completion # turn.completion
        /\ \A c \in Completion :
              \E t \in TurnId :
                  /\ s.turns[t].tokens[c] = vendor.owed[c]
                  /\ vendor.owed[c] > 0 => s.turns[t].completion = c
                  /\ \A u \in TurnId \ {t} : s.turns[u].tokens[c] = 0

\* Once a session is over, each turn it began has been ended, and has its one row
\* if anything came of it: also the turns whose usage was still awaited.
Settled == s.closing \in {"done", "lost"}

RanIsBilled ==
    Settled =>
        /\ s.awaiting = {}
        /\ \A t \in 1..s.counter :
              /\ s.ended[t] = 1
              /\ s.usages[t] = IF Ran(s.turns[t]) THEN 1 ELSE 0

\* start() and close() settle, whatever the stream does.
Owes == s.starting = "opening" \/ s.closing = "draining"
CallsSettle == Owes ~> ~Owes

\* Once a session is over, or its start() was rejected, it reports nothing.
Reports == <<s.started, s.ended, s.cut, s.usages, s.lost>>

Gone == Settled \/ (s.closed /\ s.closing = "no")
ClosedIsSilent ==
    [][Gone => Reports' = Reports]_vars
=============================================================================

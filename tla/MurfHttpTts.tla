---------------------------- MODULE MurfHttpTts ----------------------------
(***************************************************************************)
(* src/backend/src/providers/tts/MurfTtsProvider.ts, openHttp: a speech    *)
(* stream over one request per segment.  Texts are buffered until a        *)
(* segment may be cut off, segments wait in a queue, and pump() has one    *)
(* request out at a time, under a timer for the headers and another for    *)
(* the gaps of the body.                                                   *)
(*                                                                         *)
(* Where a segment may end is segmentText()'s matter: here it may cut off  *)
(* any number of the texts buffered, and everything at the flush.  A text  *)
(* counts as one character.  Calls run to completion, and request() is     *)
(* split at its awaits.                                                    *)
(***************************************************************************)
EXTENDS Naturals, Sequences, SequencesExt, FiniteSets, FiniteSetsExt

CONSTANTS
    MaxTexts,    \* bound: texts the caller pushes
    MaxAudio     \* bound: chunks of audio the vendor sends

VARIABLE s

Text == 1..MaxTexts

\* What became of a text.  A request cut off by a barge-in was on the wire.
Fate == {"unsent", "asking", "accepted", "cut", "refused", "unreached"}

Stream ==
    [buffered  : Seq(Text),
     queue     : Seq(Seq(Text)),
     flushed   : BOOLEAN,
     cancelled : BOOLEAN,
     done      : BOOLEAN,
     sentCharacters : Nat,
     \* request() of `text`: "refused" awaits what the vendor says of it
     stage     : {"idle", "headers", "refused", "body"},
     text      : Seq(Text),
     \* the vendor's side, and the reports
     pushed    : 0..MaxTexts,
     fate      : [Text -> Fate],
     order     : Seq(Text),        \* as it was asked for
     audio     : 0..MaxAudio,
     dones     : Nat,
     errors    : Nat]

TypeOK == s \in Stream

Init ==
    s = [buffered |-> <<>>, queue |-> <<>>, flushed |-> FALSE, cancelled |-> FALSE,
         done |-> FALSE, sentCharacters |-> 0, stage |-> "idle", text |-> <<>>,
         pushed |-> 0, fate |-> [t \in Text |-> "unsent"], order |-> <<>>,
         audio |-> 0, dones |-> 0, errors |-> 0]

Becomes(x, fate) ==
    [t \in Text |-> IF t \in Range(x.text) THEN fate ELSE x.fate[t]]

Finish(x) == IF x.done THEN x ELSE [x EXCEPT !.done = TRUE, !.dones = @ + 1]

Fail(x) ==
    IF x.done \/ x.cancelled THEN x ELSE Finish([x EXCEPT !.errors = @ + 1])

\* The loop of pump() and its end, with no request out.
Pump(x) ==
    IF x.queue # <<>> /\ ~x.done /\ ~x.cancelled
    THEN LET text == Head(x.queue)
             y == [x EXCEPT !.queue = Tail(@), !.text = text, !.stage = "headers",
                            !.sentCharacters = @ + Len(text),
                            !.order = @ \o text]
         IN  [y EXCEPT !.fate = Becomes(y, "asking")]
    ELSE LET y == [x EXCEPT !.stage = "idle", !.text = <<>>]
         IN  IF x.flushed /\ x.queue = <<>> THEN Finish(y) ELSE y

\* The loop is left by its catch; what it leaves queued is never asked for.
Throws(x) == Fail([x EXCEPT !.stage = "idle", !.text = <<>>])

\* take(): the first n of the texts buffered are cut off, as one segment or two.
Cuts(b, n) ==
    {SelectSeq(<<SubSeq(b, 1, k), SubSeq(b, k + 1, n)>>, LAMBDA seg : seg # <<>>) :
        k \in 0..n}

Take(x, n, cut) ==
    [x EXCEPT !.queue = @ \o cut, !.buffered = SubSeq(@, n + 1, Len(@))]

PumpIfIdle(x) == IF x.stage = "idle" THEN Pump(x) ELSE x

-----------------------------------------------------------------------------
(* The request                                                               *)

\* fetch() throws.  Once the stream is aborted the text stays billed.
Unreached(x) ==
    IF x.cancelled THEN Throws([x EXCEPT !.fate = Becomes(x, "cut")])
    ELSE Throws([x EXCEPT !.sentCharacters = @ - Len(x.text),
                          !.fate = Becomes(x, "unreached")])

\* No connection, or no headers within 15 seconds, or the abort of a cancel.
FetchFails == s.stage = "headers" /\ s' = Unreached(s)

Accepted ==
    /\ s.stage = "headers"
    /\ ~s.cancelled
    /\ s' = [s EXCEPT !.stage = "body", !.fate = Becomes(s, "accepted")]

Refused ==
    /\ s.stage = "headers"
    /\ ~s.cancelled
    /\ s' = [s EXCEPT !.stage = "refused", !.fate = Becomes(s, "refused"),
                      !.sentCharacters = @ - Len(s.text)]

RefusalRead == s.stage = "refused" /\ s' = Throws(s)

\* The body's next chunk, which may be too little to play anything.
Chunk ==
    /\ s.stage = "body"
    /\ s.audio < MaxAudio
    /\ \E plays \in BOOLEAN :
         s' = IF s.done \/ s.cancelled THEN Pump(s)
              ELSE IF plays THEN [s EXCEPT !.audio = @ + 1] ELSE s

BodyEnds == s.stage = "body" /\ s' = Pump(s)

\* Ten seconds without a chunk, a broken connection, or the abort of a cancel.
BodyFails == s.stage = "body" /\ s' = Throws(s)

-----------------------------------------------------------------------------
(* The caller                                                                *)

PushText ==
    /\ ~s.cancelled /\ ~s.flushed /\ ~s.done
    /\ s.pushed < MaxTexts
    /\ LET t == s.pushed + 1
           y == [s EXCEPT !.pushed = t, !.buffered = Append(@, t)]
       IN  \E n \in 0..Len(y.buffered) : \E cut \in Cuts(y.buffered, n) :
              s' = IF n = 0 THEN y ELSE PumpIfIdle(Take(y, n, cut))

Flush ==
    /\ ~s.cancelled /\ ~s.flushed /\ ~s.done
    /\ \E cut \in Cuts(s.buffered, Len(s.buffered)) :
         s' = PumpIfIdle(Take([s EXCEPT !.flushed = TRUE], Len(s.buffered), cut))

\* cancel() and close() do the same.
Cancel ==
    /\ ~s.cancelled
    /\ s' = [s EXCEPT !.cancelled = TRUE, !.done = TRUE, !.queue = <<>>,
                      !.buffered = <<>>]

-----------------------------------------------------------------------------
Next ==
    \/ FetchFails \/ Accepted \/ Refused \/ RefusalRead
    \/ Chunk \/ BodyEnds \/ BodyFails
    \/ PushText \/ Flush \/ Cancel

Spec == Init /\ [][Next]_s

\* The timers of a request fire; a refusal is read, or its timer fires.
Timers == FetchFails \/ RefusalRead \/ BodyFails
FairSpec == Spec /\ WF_s(Timers)

-----------------------------------------------------------------------------
(* Properties                                                                *)

\* The text is asked for in the order it was pushed, none of it twice, and a turn
\* that ends without an error has asked for all of it.
TextInOrder ==
    LET left == FlattenSeq(s.queue) \o s.buffered
        n == Len(s.order)
    IN  /\ s.order = [i \in 1..n |-> i]
        /\ ~s.done => s.order \o left = [i \in 1..s.pushed |-> i]
        /\ s.dones > 0 /\ s.errors = 0 => n = s.pushed

\* The bill is for the text that the vendor was asked to speak and did not refuse:
\* a request that a barge-in cut off stays in, one that never arrived is out.
BilledAsSent ==
    s.sentCharacters =
        Cardinality({t \in Text : s.fate[t] \in {"asking", "accepted", "cut"}})

\* A turn is ended at most once, with at most one error, and not with a request out.
EndsOnce == s.dones <= 1 /\ s.errors <= s.dones /\ (s.dones > 0 => s.stage = "idle")

\* A flushed turn is ended, by the timers if need be, unless it is cancelled.
Owes == s.flushed /\ s.dones = 0 /\ ~s.cancelled
FlushEnds == Owes ~> ~Owes

\* What the caller hears; and from when on it hears nothing.
Gone == s.cancelled
Reports == <<s.audio, s.dones, s.errors>>
=============================================================================

------------------------------ MODULE MockTts ------------------------------
(***************************************************************************)
(* src/backend/src/providers/tts/MockTtsProvider.ts: a speech stream that  *)
(* needs no vendor.  Words wait in a queue that one chain of timers        *)
(* empties; the chain starts with the first words and ends with the queue. *)
(* The caller pushes nothing after its flush, as PipelineSession does.     *)
(***************************************************************************)
EXTENDS Naturals

CONSTANTS
    MaxTexts     \* bound: words the caller pushes

VARIABLE s

Stream ==
    [pending   : 0..1,             \* text that ends in no space yet
     queue     : 0..MaxTexts,      \* words
     flushed   : BOOLEAN,
     cancelled : BOOLEAN,
     draining  : BOOLEAN,          \* a timer of pump() is set
     pushed    : 0..MaxTexts,
     audio     : 0..MaxTexts,
     dones     : Nat]

TypeOK == s \in Stream

Init ==
    s = [pending |-> 0, queue |-> 0, flushed |-> FALSE, cancelled |-> FALSE,
         draining |-> FALSE, pushed |-> 0, audio |-> 0, dones |-> 0]

Drain(x) == IF x.draining \/ x.cancelled THEN x ELSE [x EXCEPT !.draining = TRUE]

\* A word comes, and what was pending before it goes to the queue.
PushText ==
    /\ ~s.cancelled /\ ~s.flushed
    /\ s.pushed < MaxTexts
    /\ LET y == [s EXCEPT !.pushed = @ + 1, !.pending = 1, !.queue = @ + s.pending]
       IN  s' = IF s.pending = 1 THEN Drain(y) ELSE y

Flush ==
    /\ ~s.cancelled /\ ~s.flushed
    /\ s' = Drain([s EXCEPT !.flushed = TRUE, !.queue = @ + s.pending, !.pending = 0])

Pump ==
    /\ s.draining
    /\ s' = IF s.cancelled THEN [s EXCEPT !.draining = FALSE]
            ELSE IF s.queue > 0 THEN [s EXCEPT !.queue = @ - 1, !.audio = @ + 1]
            ELSE [s EXCEPT !.draining = FALSE,
                           !.dones = IF s.flushed THEN @ + 1 ELSE @]

Cancel ==
    /\ ~s.cancelled
    /\ s' = [s EXCEPT !.cancelled = TRUE, !.queue = 0]

-----------------------------------------------------------------------------
Next == PushText \/ Flush \/ Pump \/ Cancel

Spec == Init /\ [][Next]_s

\* A timer that is set fires.
Timers == Pump
FairSpec == Spec /\ WF_s(Timers)

-----------------------------------------------------------------------------
(* Properties                                                                *)

\* A turn is ended once, and not before every word has been spoken.
EndsOnce == s.dones <= 1 /\ (s.dones = 1 => s.audio = s.pushed)

\* A flushed turn is ended, unless it is cancelled.
Owes == s.flushed /\ s.dones = 0 /\ ~s.cancelled
FlushEnds == Owes ~> ~Owes

\* What the caller hears; and from when on it hears nothing.
Gone == s.cancelled
Reports == <<s.audio, s.dones>>
=============================================================================

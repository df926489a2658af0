----------------------------- MODULE GeminiTts -----------------------------
(***************************************************************************)
(* src/backend/src/providers/tts/GeminiTtsProvider.ts: a speech stream     *)
(* over one request, made at the flush of all the text pushed; a watchdog  *)
(* of thirty seconds is the only thing that ends it when the response      *)
(* stalls.  Texts are counted.  request() is split at its awaits, which    *)
(* "pending" stands for.                                                   *)
(***************************************************************************)
EXTENDS Naturals

CONSTANTS
    MaxTexts,    \* bound: texts the caller pushes
    MaxAudio     \* bound: frames of audio the vendor sends

VARIABLE s

Stream ==
    [buffered : 0..MaxTexts,
     flushed  : BOOLEAN,
     done     : BOOLEAN,
     sentCharacters : 0..MaxTexts,
     aborted  : BOOLEAN,                       \* controller.signal.aborted
     watchdog : BOOLEAN,                       \* armed
     request  : {"none", "pending", "settled"},
     quit     : BOOLEAN,                       \* by cancel() or close()
     \* the vendor's side, and the reports
     asked    : 0..MaxTexts,
     audio    : 0..MaxAudio,
     dones    : Nat,
     errors   : Nat]

TypeOK == s \in Stream

Init ==
    s = [buffered |-> 0, flushed |-> FALSE, done |-> FALSE, sentCharacters |-> 0,
         aborted |-> FALSE, watchdog |-> FALSE, request |-> "none", quit |-> FALSE,
         asked |-> 0, audio |-> 0, dones |-> 0, errors |-> 0]

Finish(x) == IF x.done THEN x ELSE [x EXCEPT !.done = TRUE, !.dones = @ + 1]

Fail(x) == IF x.done THEN x ELSE Finish([x EXCEPT !.errors = @ + 1])

-----------------------------------------------------------------------------
PushText ==
    /\ ~s.done /\ ~s.flushed
    /\ s.buffered < MaxTexts
    /\ s' = [s EXCEPT !.buffered = @ + 1]

\* A turn without text makes no request.
Flush ==
    /\ ~s.done /\ ~s.flushed
    /\ LET y == [s EXCEPT !.flushed = TRUE]
       IN  s' = IF s.buffered = 0 THEN Finish(y)
                ELSE [y EXCEPT !.watchdog = TRUE, !.sentCharacters = s.buffered,
                               !.request = "pending", !.asked = s.buffered]

Watchdog ==
    /\ s.watchdog
    /\ s' = IF s.done THEN [s EXCEPT !.watchdog = FALSE]
            ELSE Fail([s EXCEPT !.watchdog = FALSE, !.aborted = TRUE])

\* A part with audio, cut into frames.
Audio ==
    /\ s.request = "pending"
    /\ s.audio < MaxAudio
    /\ s' = IF s.done THEN s ELSE [s EXCEPT !.audio = @ + 1]

Settles(x) == [x EXCEPT !.request = "settled", !.watchdog = FALSE]

Resolves ==
    /\ s.request = "pending"
    /\ s' = Settles(Finish(s))

\* Refused, blocked, broken off or aborted.  The watchdog has reported its own.
Rejects ==
    /\ s.request = "pending"
    /\ s' = Settles(IF s.aborted THEN s ELSE Fail(s))

\* cancel() and close() do the same.
Cancel ==
    /\ ~s.quit
    /\ s' = [s EXCEPT !.quit = TRUE, !.done = TRUE, !.aborted = TRUE]

-----------------------------------------------------------------------------
Next ==
    \/ PushText \/ Flush \/ Watchdog \/ Audio \/ Resolves \/ Rejects \/ Cancel

Spec == Init /\ [][Next]_s

\* An armed timer fires.
Timers == Watchdog
FairSpec == Spec /\ WF_s(Timers)

-----------------------------------------------------------------------------
(* Properties                                                                *)

\* The bill is for what was put in a request: nothing before the flush, and all of
\* it afterwards, whatever became of the request.
BilledAsSent == s.sentCharacters = s.asked /\ (s.request = "none" => s.asked = 0)

\* A turn is ended at most once, with at most one error.
EndsOnce == s.dones <= 1 /\ s.errors <= s.dones

\* A flushed turn is ended, by the watchdog if need be, unless it is cancelled.
Owes == s.flushed /\ s.dones = 0 /\ ~s.quit
FlushEnds == Owes ~> ~Owes

\* What the caller hears; and from when on it hears nothing.
Gone == s.quit
Reports == <<s.audio, s.dones, s.errors>>
=============================================================================

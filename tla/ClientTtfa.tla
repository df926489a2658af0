----------------------------- MODULE ClientTtfa -----------------------------
(***************************************************************************)
(* The time to the first audible sample, as the page measures it:          *)
(* useVoiceSession.ts starts a clock at the last event of a turn it can    *)
(* see, AudioSink of src/frontend/src/audio/player.ts reports from a timer *)
(* when the turn's first sample is audible, and the number waits for the   *)
(* turn's metrics frame.  A token says which turn the sink waits for.      *)
(*                                                                         *)
(* The server sends, of each turn, the user's final transcript, audio, and *)
(* the metrics, unless the answer was cut off.  A clock is the turn whose  *)
(* event started it.                                                       *)
(***************************************************************************)
EXTENDS Naturals, FiniteSets

CONSTANTS
    MaxTurns,    \* bound: turns of the server
    MaxTokens    \* bound: no step that may bump the token once it is here

VARIABLE s

Turn == 1..MaxTurns
None == 0

\* A timer of the sink carries the token it was set with, and the turn whose audio
\* set it; so does the number it leaves.
Timer == [token : 0..MaxTokens, heard : Turn]
Stash == [token : 0..MaxTokens, heard : Turn, clock : Turn]
NoStash == [token |-> 0, heard |-> None, clock |-> None]

Client ==
    [turnToken     : 0..MaxTokens,
     awaitingFirst : BOOLEAN,
     timers        : SUBSET Timer,
     pending       : Turn \cup {None},        \* pendingTtfaRef: the clock that runs
     stash         : Stash \cup {NoStash},    \* lastClientTtfa
     \* of each turn's row: the number it shows, if any
     rows          : [Turn -> Stash \cup {NoStash}],
     \* the server: the turn it is at, and whether that is over
     turn          : 0..MaxTurns,
     over          : BOOLEAN,
     \* history: the turns of which one was under way when the page began the other
     crossed       : SUBSET (1..MaxTurns)]

TypeOK == s \in Client

Init ==
    s = [turnToken |-> 0, awaitingFirst |-> FALSE, timers |-> {}, pending |-> None,
         stash |-> NoStash, rows |-> [t \in Turn |-> NoStash], turn |-> 0, over |-> TRUE,
         crossed |-> {}]

RoomToBump == s.turnToken < MaxTokens

\* expectTurn(), with the clock that the page starts before it
ExpectTurn(x, t) ==
    [x EXCEPT !.pending = t, !.awaitingFirst = TRUE, !.turnToken = @ + 1]

-----------------------------------------------------------------------------
\* The next turn's transcript.
UserTranscript ==
    /\ s.over
    /\ s.turn < MaxTurns
    /\ RoomToBump
    /\ LET t == s.turn + 1
       IN  s' = ExpectTurn([s EXCEPT !.turn = t, !.over = FALSE], t)

\* enqueue(): the first frame sets the timer.
Audio ==
    /\ ~s.over
    /\ s' = IF ~s.awaitingFirst THEN s
            ELSE [s EXCEPT !.awaitingFirst = FALSE,
                           !.timers = @ \cup {[token |-> s.turnToken, heard |-> s.turn]}]

FirstAudible ==
    \E m \in s.timers :
        LET y == [s EXCEPT !.timers = @ \ {m}]
        IN  s' = IF s.pending = None THEN y
                 ELSE [y EXCEPT !.pending = None,
                                !.stash = [token |-> m.token, heard |-> m.heard,
                                           clock |-> s.pending]]

\* Mutant: whoever reports next takes the number.
ClaimTtfa_Untagged(stash, token) == stash

ClaimTtfa(stash, token) == IF stash.token = token THEN stash ELSE NoStash

Metrics ==
    /\ ~s.over
    /\ s' = [s EXCEPT !.rows[s.turn] = ClaimTtfa(s.stash, s.turnToken),
                      !.stash = NoStash,
                      !.over = TRUE]

\* The server cut the answer off for the user's sake, and sends no metrics for it.
CutOff ==
    /\ ~s.over
    /\ s' = [s EXCEPT !.over = TRUE]

\* interrupt(): the sink is flushed; the answer that was playing may go on.
Flush ==
    /\ RoomToBump
    /\ s' = [s EXCEPT !.awaitingFirst = FALSE, !.turnToken = @ + 1]

\* sendText() and commitAudio(), while the turn before may be on the wire.
PageStartsTurn ==
    /\ s.turn < MaxTurns
    /\ RoomToBump
    /\ LET t == s.turn + 1
       IN  s' = ExpectTurn([s EXCEPT !.crossed = IF s.over THEN @ ELSE @ \cup {s.turn, t}], t)

-----------------------------------------------------------------------------
Next ==
    \/ UserTranscript \/ Audio \/ FirstAudible \/ Metrics \/ CutOff
    \/ Flush \/ PageStartsTurn

Spec == Init /\ [][Next]_s

-----------------------------------------------------------------------------
(* Properties                                                                *)

\* The number on a turn's row is from that turn's own transcript to that turn's
\* own audio, however late the timer of an answer that was cut off fires.  Only
\* when the page began a turn over one that was under way may the two differ.
TtfaIsOwn ==
    \A t \in Turn \ s.crossed :
        s.rows[t] # NoStash => s.rows[t].clock = t /\ s.rows[t].heard = t
=============================================================================

---------------------------- MODULE MockRealtime ----------------------------
(***************************************************************************)
(* src/backend/src/providers/realtime/MockRealtimeProvider.ts: the         *)
(* speech-to-speech session without a vendor.  A pump plays the answer of  *)
(* one turn frame by frame from a timer it sets again; `timer` is the one  *)
(* the session can clear.  respond() over a turn that still speaks leaves  *)
(* that turn's pump running.                                               *)
(***************************************************************************)
EXTENDS Naturals

CONSTANTS
    MaxTurns,     \* bound: turns
    MaxAudio      \* frames of an answer

VARIABLE s

Turn == 1..MaxTurns
None == 0

\* Of each turn: its pump, the frames it has sent, and what was reported of it.
Pump == [set : BOOLEAN, sent : 0..MaxAudio]
Reported == [ended : 0..2, billed : 0..2]

Session ==
    [turnId   : 0..MaxTurns,
     active   : Turn \cup {None},
     sawSpeech : BOOLEAN,
     speaking : BOOLEAN,
     timer    : Turn \cup {None},
     closed   : BOOLEAN,
     pump     : [Turn -> Pump],
     rows     : [Turn -> Reported],
     \* history: the turns begun while a pump ran, and those whose pump it was
     overlapped : SUBSET Turn]

TypeOK == s \in Session

Init ==
    s = [turnId |-> 0, active |-> None, sawSpeech |-> FALSE, speaking |-> FALSE,
         timer |-> None, closed |-> FALSE,
         pump |-> [t \in Turn |-> [set |-> FALSE, sent |-> 0]],
         rows |-> [t \in Turn |-> [ended |-> 0, billed |-> 0]],
         overlapped |-> {}]

-----------------------------------------------------------------------------
\* A turn that is billed is not the active one any more.
Bill(x) ==
    IF x.active = None THEN x
    ELSE [x EXCEPT !.rows[x.active].billed = @ + 1, !.active = None]

EndTurn(x, t) == [x EXCEPT !.speaking = FALSE, !.rows[t].ended = @ + 1]

StopTimer(x) ==
    IF x.timer = None THEN x
    ELSE [x EXCEPT !.pump[x.timer].set = FALSE, !.timer = None]

Interrupt(x) ==
    LET y == Bill(StopTimer(x))
    IN  IF y.speaking THEN EndTurn(y, y.turnId) ELSE y

Respond(x) ==
    LET t == x.turnId + 1
    IN  [x EXCEPT !.turnId = t, !.speaking = TRUE, !.active = t, !.timer = t,
                  !.pump[t].set = TRUE,
                  !.overlapped =
                      LET under == {u \in Turn : x.pump[u].set}
                      IN  IF under = {} THEN @ ELSE @ \cup under \cup {t}]

IdLeft == s.turnId < MaxTurns

-----------------------------------------------------------------------------
\* pushAudio(): a loud chunk is a barge-in.
Loud ==
    /\ ~s.closed
    /\ s' = [(IF s.speaking THEN Interrupt(s) ELSE s) EXCEPT !.sawSpeech = TRUE]

\* Silence long enough, or the button.
CommitAudio ==
    /\ ~s.closed
    /\ s.sawSpeech
    /\ IdLeft
    /\ s' = Respond([s EXCEPT !.sawSpeech = FALSE])

SendText ==
    /\ ~s.closed
    /\ IdLeft
    /\ s' = Respond(s)

ClientInterrupt == s' = Interrupt(s)

Close == s' = Interrupt([s EXCEPT !.closed = TRUE])

PumpFires(t) ==
    /\ s.pump[t].set
    /\ LET y == [s EXCEPT !.pump[t].set = FALSE]
       IN  s' = IF ~s.speaking THEN y
                ELSE IF s.pump[t].sent = MaxAudio THEN Bill(EndTurn(y, t))
                ELSE [s EXCEPT !.pump[t].sent = @ + 1, !.timer = t]

Timers == \E t \in Turn : PumpFires(t)

Next ==
    \/ Loud \/ CommitAudio \/ SendText \/ ClientInterrupt \/ Close
    \/ Timers

Spec == Init /\ [][Next]_s

-----------------------------------------------------------------------------
(* Properties                                                                *)

\* Emits the active turn's usage exactly once, however the turn ended: a turn that
\* ended is billed, once, unless another was begun over it.
EndsOnce ==
    \A t \in Turn :
        LET r == s.rows[t]
        IN  /\ r.billed <= 1
            /\ t \notin s.overlapped => r.ended = r.billed

Gone == s.closed
Reports == s.rows
Owes == \E t \in Turn : s.pump[t].set
=============================================================================

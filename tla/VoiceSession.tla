---------------------------- MODULE VoiceSession ----------------------------
(***************************************************************************)
(* src/frontend/src/hooks/useVoiceSession.ts, with MicRecorder of          *)
(* audio/recorder.ts: one page of the bench, the WebSocket and the         *)
(* microphone it holds, and the buttons of BenchView.tsx that guard the    *)
(* calls.  connect() sleeps while the audio output resumes, startMic()     *)
(* while the user is asked and the worklet loads, and stopMic() while an   *)
(* audio context closes; what runs in between is one step.                 *)
(*                                                                         *)
(* A connection is the socket that one connect() opens, with what the      *)
(* server makes of it; a recorder is what one startMic() creates.  What    *)
(* the page shows of a conversation is left out; its latency is the matter *)
(* of ClientTtfa.                                                          *)
(***************************************************************************)
EXTENDS Naturals

CONSTANTS
    MaxConns,       \* bound: calls of connect()
    MaxRecs         \* bound: recorders

ASSUME BoundsAssumption == MaxConns \in Nat /\ MaxRecs \in Nat

VARIABLE s

Conn == 1..MaxConns
Rec == 1..MaxRecs
None == 0

\* attached: its handlers are in place.  started and asked are of the server: a
\* session runs, and its end was asked for.
Connection ==
    [st       : {"none", "connecting", "open", "closing", "closed"},
     attached : BOOLEAN,
     admitted : BOOLEAN,      \* its URL carried a token the server accepts
     started  : BOOLEAN,
     armed    : BOOLEAN,      \* start_recording was sent
     asked    : {"no", "end", "stop"}]

NoConnection ==
    [st |-> "none", attached |-> FALSE, admitted |-> FALSE, started |-> FALSE,
     armed |-> FALSE, asked |-> "no"]

Page ==
    [state    : {"idle", "connecting", "ready", "ending", "error", "closed", "ended"},
     mounted  : BOOLEAN,
     token    : BOOLEAN,               \* in localStorage
     resuming : 0..MaxConns,           \* connects that await sink.resume()
     calls    : 0..MaxConns,
     ws       : Conn \cup {None},      \* wsRef
     opened   : 0..MaxConns,
     conn     : [Conn -> Connection],
     rec      : Rec \cup {None},       \* recRef
     made     : 0..MaxRecs,
     micOn    : BOOLEAN,
     \* "asking": no stream yet; "loading": the microphone is live; "hot": frames flow;
     \* "aborting": it was loading, and closes; "stale": closed, start() still runs;
     \* "leaked": live, and given up
     mic      : [Rec -> {"none", "asking", "loading", "hot", "closing", "aborting",
                         "stale", "leaked", "off"}],
     waiter   : [Rec -> {"none", "mic", "end", "drop"}],  \* who awaits its stop()
     madeFor  : [Rec -> Conn \cup {None}],  \* history: the open socket it was made on
     timer    : BOOLEAN,               \* endTimerRef is armed
     threw    : BOOLEAN,               \* history: endConversation()'s await was rejected
     overtook : BOOLEAN]               \* history: disconnect() went on below a connect()

TypeOK == s \in Page

Init ==
    s = [state |-> "idle", mounted |-> TRUE, token |-> TRUE, resuming |-> 0,
         calls |-> 0, ws |-> None, opened |-> 0, conn |-> [k \in Conn |-> NoConnection],
         rec |-> None, made |-> 0, micOn |-> FALSE, mic |-> [r \in Rec |-> "none"],
         waiter |-> [r \in Rec |-> "none"], madeFor |-> [r \in Rec |-> None],
         timer |-> FALSE, threw |-> FALSE, overtook |-> FALSE]

-----------------------------------------------------------------------------
(* Operators from a page to the next                                         *)

CloseSocket(st) == IF st \in {"connecting", "open"} THEN "closing" ELSE st

Detach(x, k) ==
    IF k = None THEN x
    ELSE [x EXCEPT !.conn[k] = [x.conn[k] EXCEPT !.attached = FALSE,
                                                 !.st = CloseSocket(x.conn[k].st)]]

IsOpen(x) == x.ws # None /\ x.conn[x.ws].st = "open"

\* send() of a control message
Ask(x, what) == IF IsOpen(x) THEN [x EXCEPT !.conn[x.ws].asked = what] ELSE x

Arm(x) == IF IsOpen(x) THEN [x EXCEPT !.conn[x.ws].armed = TRUE] ELSE x

ArmTimer(x) == [x EXCEPT !.timer = TRUE]

\* disconnect() after its await, whatever the page has turned to meanwhile.
Drop(x) == [Detach(x, x.ws) EXCEPT !.ws = None, !.state = "idle",
                                   !.overtook = @ \/ x.resuming > 0]

Continue(x, who) ==
    CASE who = "end" -> ArmTimer(x)
      [] who = "drop" -> Drop(x)
      [] OTHER -> x

Released(x) == [x EXCEPT !.rec = None, !.micOn = FALSE]

Live == {"loading", "hot"}

\* stopMic(), and what its caller does then.  A recorder that still asks holds
\* nothing to stop; the second close() of a context rejects.
StopMic(x, who) ==
    LET r == x.rec
        mic == IF r = None THEN "off" ELSE x.mic[r]
    IN  CASE mic \in {"asking", "stale", "off"} -> Continue(Released(x), who)
          [] mic \in Live ->
                [x EXCEPT !.mic[r] = IF mic = "hot" THEN "closing" ELSE "aborting",
                          !.waiter[r] = who]
          [] OTHER -> [x EXCEPT !.threw = @ \/ who = "end"]

-----------------------------------------------------------------------------
(* connect(), and the socket it opens                                        *)

\* Mutant: the socket of the conversation before stays.
Connect_KeepsSocket ==
    /\ s.mounted
    /\ s.calls < MaxConns
    /\ s.state \notin {"connecting", "ready", "ending"}
    /\ s' = [s EXCEPT !.ws = None, !.state = "connecting", !.timer = FALSE,
                      !.threw = FALSE, !.calls = @ + 1, !.resuming = @ + 1]

\* The button is there unless a session runs, ends or is being opened.
Connect ==
    /\ s.mounted
    /\ s.calls < MaxConns
    /\ s.state \notin {"connecting", "ready", "ending"}
    /\ s' = [Detach(s, s.ws) EXCEPT !.ws = None, !.state = "connecting",
                                    !.timer = FALSE, !.threw = FALSE,
                                    !.calls = @ + 1, !.resuming = @ + 1]

\* A page that has been left runs it too.
Resumed ==
    /\ s.resuming > 0
    /\ LET k == s.opened + 1
       IN  s' = [s EXCEPT !.resuming = @ - 1, !.ws = k, !.opened = k,
                          !.conn[k] = [NoConnection EXCEPT !.st = "connecting",
                                                           !.attached = TRUE,
                                                           !.admitted = s.token]]

ResumeFails ==
    /\ s.resuming > 0
    /\ s' = [s EXCEPT !.resuming = @ - 1, !.state = "error"]

\* onopen sends `start`.
Opens(k) ==
    /\ s.conn[k].st = "connecting"
    /\ s.conn[k].admitted
    /\ s' = [s EXCEPT !.conn[k].st = "open"]

Current(k) == s.conn[k].attached /\ s.ws = k

CloseState(state) == IF state \in {"error", "ended"} THEN state ELSE "closed"

\* onclose.  With 4401 the stored token goes too; the page is left later.
SocketCloses(k) ==
    /\ s.conn[k].st \in {"connecting", "open", "closing"}
    /\ \E unauthorized \in BOOLEAN :
         LET y == [s EXCEPT !.conn[k].st = "closed"]
         IN  /\ unauthorized => s.conn[k].st = "connecting"
             /\ s' = IF ~Current(k) THEN y
                     ELSE StopMic([y EXCEPT !.state = CloseState(@),
                                            !.token = @ /\ ~unauthorized], "mic")

\* onerror comes before the close event.
SocketFails(k) ==
    /\ s.conn[k].st \in {"connecting", "open"}
    /\ s' = LET y == [s EXCEPT !.conn[k].st = "closing"]
            IN  IF ~Current(k) THEN y
                ELSE StopMic([y EXCEPT !.state = "error"], "mic")

-----------------------------------------------------------------------------
(* Messages of the server                                                    *)

\* Mutant: only startMic() arms the recording.
SessionStarted_NoRearm(k) ==
    /\ s.conn[k].st = "open"
    /\ ~s.conn[k].started
    /\ s' = LET y == [s EXCEPT !.conn[k].started = TRUE]
            IN  IF ~Current(k) THEN y ELSE [y EXCEPT !.state = "ready"]

\* A recorder that is there already is armed for this session.
SessionStarted(k) ==
    /\ s.conn[k].st = "open"
    /\ ~s.conn[k].started
    /\ s' = LET y == [s EXCEPT !.conn[k].started = TRUE]
                z == [y EXCEPT !.state = "ready"]
            IN  IF ~Current(k) THEN y
                ELSE IF s.rec # None THEN Arm(z) ELSE z

\* `error` leaves the socket and the microphone as they are.
ServerError(k) ==
    /\ s.conn[k].st = "open"
    /\ Current(k)
    /\ s' = [s EXCEPT !.state = "error"]

SessionClosed(k) ==
    /\ s.conn[k].st = "open"
    /\ s.conn[k].asked # "no"
    /\ Current(k)
    /\ s' = [Detach(s, k) EXCEPT !.ws = None,
                                 !.state = IF s.conn[k].asked = "end" THEN "ended"
                                           ELSE "closed"]

-----------------------------------------------------------------------------
(* The microphone                                                            *)

\* The mic is armed before it opens.
StartMic ==
    /\ s.mounted
    /\ s.state = "ready"
    /\ ~s.micOn
    /\ s.rec = None
    /\ s.made < MaxRecs
    /\ LET r == s.made + 1
       IN  s' = Arm([s EXCEPT !.made = r, !.rec = r, !.mic[r] = "asking",
                              !.madeFor[r] = IF IsOpen(s) THEN s.ws ELSE None])

\* The user answers.  A refusal takes whatever recorder is there out of recRef.
PromptAnswered(r) ==
    /\ s.mic[r] = "asking"
    /\ \/ s' = [s EXCEPT !.mic[r] = "loading"]
       \/ s' = [s EXCEPT !.mic[r] = "off", !.rec = None]

WorkletLoads(r) ==
    /\ s.mic[r] \in {"loading", "aborting"}
    /\ s' = [s EXCEPT !.mic[r] = IF @ = "loading" THEN "hot" ELSE "closing",
                      !.micOn = TRUE]

\* The catch of startMic() stops nothing: what start() has opened stays open.
WorkletFails(r) ==
    /\ s.mic[r] \in {"loading", "aborting", "stale"}
    /\ s' = [s EXCEPT !.mic[r] = CASE @ = "loading" -> "leaked"
                                   [] @ = "aborting" -> "closing"
                                   [] OTHER -> "off",
                      !.rec = None]

\* Its tracks were stopped at once; the context has closed.
ContextClosed(r) ==
    /\ s.mic[r] \in {"closing", "aborting"}
    /\ LET st == IF s.mic[r] = "aborting" THEN "stale" ELSE "off"
       IN  s' = Continue(Released([s EXCEPT !.mic[r] = st]), s.waiter[r])

StopMicClicked ==
    /\ s.mounted
    /\ s.micOn
    /\ s' = StopMic(s, "mic")

-----------------------------------------------------------------------------
(* The end                                                                   *)

EndConversation ==
    /\ s.mounted
    /\ s.state = "ready"
    /\ s' = StopMic(Ask([s EXCEPT !.state = "ending"], "end"), "end")

EndTimerFires ==
    /\ s.timer
    /\ s' = [s EXCEPT !.timer = FALSE,
                      !.state = IF @ = "ending" THEN "closed" ELSE @]

Disconnect ==
    /\ s.mounted
    /\ s.state = "ready"
    /\ s' = StopMic(Ask(s, "stop"), "drop")

\* Sign out drops the session, and the token at once.
Logout ==
    /\ s.mounted
    /\ s.token
    /\ s' = [StopMic(Ask(s, "stop"), "drop") EXCEPT !.token = FALSE]

\* The token expires, or goes in another tab.
Kicked ==
    /\ s.token
    /\ s' = [s EXCEPT !.token = FALSE]

\* The page gives way to the login page: the cleanup of the hook's effect.
Unmount ==
    /\ s.mounted
    /\ ~s.token
    /\ s' = [StopMic(Detach(s, s.ws), "mic") EXCEPT !.mounted = FALSE, !.timer = FALSE]

-----------------------------------------------------------------------------
Next ==
    \/ Connect \/ Resumed \/ ResumeFails
    \/ \E k \in Conn :
          \/ Opens(k) \/ SocketCloses(k) \/ SocketFails(k)
          \/ SessionStarted(k) \/ ServerError(k) \/ SessionClosed(k)
    \/ StartMic \/ StopMicClicked
    \/ \E r \in Rec :
          \/ PromptAnswered(r) \/ WorkletLoads(r) \/ WorkletFails(r)
          \/ ContextClosed(r)
    \/ EndConversation \/ EndTimerFires
    \/ Disconnect \/ Logout \/ Kicked \/ Unmount

Spec == Init /\ [][Next]_s

\* An armed timer fires, and a context that is told to close does.
Timers == EndTimerFires \/ \E r \in Rec : ContextClosed(r)
FairSpec == Spec /\ WF_s(Timers)

-----------------------------------------------------------------------------
(* Properties                                                                *)

\* Whatever recorder's frames a running session hears, its server was told to record,
\* also when the recorder is older than the session; but for a recorder that the page
\* let go of without stopping it and that was not made on this socket: nothing arms
\* the next session for one of those, and that session hears it and records nothing.
SpokenIsRecorded ==
    IsOpen(s) /\ s.conn[s.ws].started =>
        \A r \in Rec :
            s.mic[r] = "hot" =>
                s.conn[s.ws].armed \/ (s.rec # r /\ s.madeFor[r] # s.ws)

\* A socket the server has admitted, and may run a session on, is the one the page
\* would close: not that of a connect() before, nor one of a page that was left.
NoOrphanSocket ==
    \A k \in Conn : s.conn[k].st = "open" => s.ws = k /\ s.mounted

\* And it is, unless disconnect() woke while a connect() slept and gave the button
\* back; also for the page that is left while it connects.
SocketIsHeld == ~s.overtook => NoOrphanSocket

\* A microphone that is live is the one that the button, the end of the session
\* and a lost connection stop.
MicIsStoppable ==
    \A r \in Rec : s.mic[r] \in {"loading", "hot", "leaked"} => s.rec = r

\* `ending` ends, whether the summary comes or not, if the recorder was not being
\* stopped already when the end was asked for.
Owes == s.state = "ending" /\ s.mounted /\ ~s.threw
EndingEnds == Owes ~> ~Owes
=============================================================================

--------------------------- MODULE SessionSocket ---------------------------
(***************************************************************************)
(* src/backend/src/server/session-socket.ts: one WebSocket, the session,   *)
(* ledger and recorder it holds, and what happens to them when the client  *)
(* ends, restarts, drops the socket, or the process is told to stop.       *)
(*                                                                         *)
(* ws does not serialise async message handlers, so a handler that awaits  *)
(* the disk or a vendor is a task that sleeps while others run; what it    *)
(* does between two awaits is one step.  close() of a session resolves     *)
(* without I/O in the pipeline and for OpenAI, and drains the vendor's      *)
(* stream for Nova Sonic, which reports what is left to bill after that.   *)
(*                                                                         *)
(* A conversation is the id of the session, ledger, recorder and record    *)
(* that one "start" creates.  Recorder and store appear with the steps of  *)
(* SessionRecorder.ts and SessionStore.ts that decide who runs when.       *)
(***************************************************************************)
EXTENDS Naturals, Sequences, FiniteSets

CONSTANTS
    MaxConvs,    \* bound: conversations one socket starts
    MaxTurns,    \* bound: usage reports of one session
    MaxHandlers  \* bound: message handlers asleep at a time

ASSUME SizeAssumption ==
    /\ MaxConvs \in Nat \ {0}
    /\ MaxTurns \in Nat \ {0}
    /\ MaxHandlers \in Nat \ {0}

VARIABLES
    s,
    crossed      \* history: a message or the close came while a handler waited
                 \* for a vendor, or in the middle of a restart

vars == <<s, crossed>>

Conv == 1..MaxConvs
None == 0

\* Slot 0 is finish(), which runs at most once; the others are messages.
FinishSlot == 0
Slot == 0..MaxHandlers

\* A sleeping handler: what it waits for, the conversation its locals are about,
\* and the turns in the summary it holds.
Task ==
    [kind : {"none", "start", "end", "stop", "finish", "arm"},
     at   : {"idle", "closing", "recStop", "unlink", "saving", "starting",
             "catchStop", "arming"},
     conv : Conv \cup {None},
     sum  : 0..MaxTurns]

NoTask == [kind |-> "none", at |-> "idle", conv |-> None, sum |-> 0]

\* A queued save: its snapshot, and the handler that awaits it, if one does.
Save == [conv : Conv, turns : 0..MaxTurns, awaited : BOOLEAN, slot : Slot]

State ==
    [conn     : {"open", "closing", "closed"},
     session  : Conv \cup {None},
     ledger   : Conv \cup {None},
     recorder : Conv \cup {None},
     finished : {"no", "running", "done"},
     tasks    : [Slot -> Task],
     count    : 0..MaxConvs,
     drains   : BOOLEAN,  \* close() of a session waits for its vendor
     ses      : [Conv -> {"none", "starting", "live", "failed", "draining",
                          "closed"}],
     \* "doomed": stop() came while start() was opening the channels
     rec      : [Conv -> {"none", "idle", "opening", "doomed", "on",
                          "stopping", "done"}],
     reported : [Conv -> 0..MaxTurns],  \* onUsage events of the session
     turns    : [Conv -> 0..MaxTurns],  \* ledger.turnCount
     made     : [Conv -> BOOLEAN],      \* stop() returned a recording
     wav      : [Conv -> BOOLEAN],      \* <recordId>.wav is on disk
     filed    : [Conv -> 0..MaxTurns],  \* turns in <recordId>.json; 0: no file
     unsaved  : [Conv -> BOOLEAN],      \* a save of it failed
     told     : [Conv -> Seq(0..MaxTurns)],  \* summaries that were sent
     saves    : Seq(Save),              \* SessionStore's queue
     shutdown : BOOLEAN,
     exited   : {"no", "drained", "timeout"}]

Init ==
  /\ crossed = FALSE
  /\ \E drains \in BOOLEAN :
      s = [drains |-> drains, conn |-> "open", session |-> None, ledger |-> None, recorder |-> None,
           finished |-> "no", tasks |-> [i \in Slot |-> NoTask], count |-> 0,
           ses |-> [c \in Conv |-> "none"], rec |-> [c \in Conv |-> "none"],
           reported |-> [c \in Conv |-> 0], turns |-> [c \in Conv |-> 0],
           made |-> [c \in Conv |-> FALSE], wav |-> [c \in Conv |-> FALSE],
           filed |-> [c \in Conv |-> 0], unsaved |-> [c \in Conv |-> FALSE],
           told |-> [c \in Conv |-> << >>], saves |-> << >>,
           shutdown |-> FALSE, exited |-> "no"]

Asleep(kinds) == {i \in Slot : s.tasks[i].kind \in kinds}
Free == {i \in Slot \ {FinishSlot} : s.tasks[i].kind = "none"}
NextSlot == CHOOSE i \in Free : \A j \in Free : i <= j

-----------------------------------------------------------------------------
(* Steps of a handler, each from a state to the next.                        *)

Sleep(x, i, kind, at, c, n) ==
    [x EXCEPT !.tasks[i] = [kind |-> kind, at |-> at, conv |-> c, sum |-> n]]

Return(x, i) == [x EXCEPT !.tasks[i] = NoTask]

Enqueue(x, awaited, i) ==
    [x EXCEPT !.saves = Append(@, [conv |-> x.ledger,
                                   turns |-> x.turns[x.ledger],
                                   awaited |-> awaited, slot |-> i])]

Unbilled(x) == x.ledger = None \/ x.turns[x.ledger] = 0

\* persist(), when nobody awaits it.
Persist(x) == IF Unbilled(x) THEN x ELSE Enqueue(x, FALSE, FinishSlot)

\* Mutant: the record is left to be written at the end.
OnUsage_NotPersisted(x, c) ==
    LET y == [x EXCEPT !.reported[c] = @ + 1]
    IN  IF y.ledger = None THEN y ELSE [y EXCEPT !.turns[y.ledger] = @ + 1]

\* events.onUsage, one closure for every session of the socket.
OnUsage(x, c) ==
    LET y == [x EXCEPT !.reported[c] = @ + 1]
    IN  IF y.ledger = None THEN y
        ELSE Persist([y EXCEPT !.turns[y.ledger] = @ + 1])

\* session?.close(), which may report the turn it cuts short, and forgetting it.
\* A session that is being closed already resolves at once.
Closable(x) == x.session # None /\ x.ses[x.session] \in {"starting", "live"}

MayReport(x) ==
    IF ~x.drains /\ Closable(x) /\ x.ses[x.session] = "live" /\ x.reported[x.session] < MaxTurns
    THEN BOOLEAN ELSE {FALSE}

\* Mutant: the session is forgotten and not closed.
CloseSession_Forgets(x, report) == [x EXCEPT !.session = None]

CloseSession(x, report) ==
    LET c == x.session
        y == IF report THEN OnUsage(x, c) ELSE x
    IN  IF Closable(x) THEN [y EXCEPT !.ses[c] = "closed", !.session = None]
        ELSE [x EXCEPT !.session = None]

\* rec.stop() up to its first await: only a recorder with channels has work to do.
StopRecorder(x, c) ==
    [x EXCEPT !.rec[c] = CASE @ = "on"      -> "stopping"
                           [] @ = "opening" -> "doomed"
                           [] OTHER         -> @]

Stopping(x) == x.recorder # None /\ x.rec[x.recorder] = "on"

\* Reached by start's catch: everything this start created is dropped.
StartFails(x, i) ==
    LET y == [x EXCEPT !.session = None, !.ledger = None]
    IN  IF y.recorder = None THEN Return(y, i)
        ELSE IF Stopping(y)
        THEN Sleep(StopRecorder(y, y.recorder), i, "start", "catchStop",
                   y.recorder, 0)
        ELSE Return([StopRecorder(y, y.recorder) EXCEPT !.recorder = None], i)

CreateSession(x, i) ==
    LET c == x.count + 1
    IN  Sleep([x EXCEPT !.count = c, !.session = c, !.ledger = c,
                        !.recorder = c, !.ses[c] = "starting",
                        !.rec[c] = "idle"],
              i, "start", "starting", c, 0)

\* What follows finalize() in its caller; createSession() may throw.
AfterFinalize(x, i, kind, configured) ==
    IF kind = "end" THEN Return(x, i)
    ELSE IF configured THEN CreateSession(x, i) ELSE StartFails(x, i)

\* finalize() once the save has settled: the report goes to the client.
SendSummary(x, i, kind, c, n, configured) ==
    AfterFinalize([x EXCEPT !.told[c] = IF x.conn = "open" THEN Append(@, n)
                                        ELSE @,
                            !.ledger = None],
                  i, kind, configured)

FileRecord(x, i, kind, configured) ==
    LET c == x.ledger
    IN  IF c = None THEN AfterFinalize(x, i, kind, configured)
        ELSE IF x.turns[c] = 0 THEN SendSummary(x, i, kind, c, 0, configured)
        ELSE Sleep(Enqueue(x, TRUE, i), i, kind, "saving", c, x.turns[c])

FinishDone(x) ==
    [Return(x, FinishSlot) EXCEPT !.ledger = None, !.finished = "done"]

\* What follows closeRecording() in finalize(), in "stop" and in finish().
AfterRecording(x, i, kind, configured) ==
    CASE kind = "stop"   -> Return([Persist(x) EXCEPT !.ledger = None], i)
      [] kind = "finish" ->
            IF Unbilled(x) THEN FinishDone(x)
            ELSE Sleep(Enqueue(x, TRUE, i), i, kind, "saving", x.ledger, 0)
      [] OTHER           -> FileRecord(x, i, kind, configured)

CloseRecording(x, i, kind, configured) ==
    LET c == x.recorder
        y == [x EXCEPT !.recorder = None]
    IN  IF c = None THEN AfterRecording(x, i, kind, configured)
        ELSE IF Stopping(x)
        THEN Sleep(StopRecorder(y, c), i, kind, "recStop", c, 0)
        ELSE AfterRecording(StopRecorder(y, c), i, kind, configured)

\* close() of a session whose stream is to be drained first.
AwaitVendor(x, i, kind) ==
    LET c == x.session
    IN  Sleep([x EXCEPT !.ses[c] = IF @ = "live" THEN "draining" ELSE "closed"],
              i, kind, "closing", c, 0)

\* finalize(), "stop" and finish() all begin alike.
WindUp(x, i, kind, report, configured) ==
    IF x.drains /\ Closable(x) THEN AwaitVendor(x, i, kind)
    ELSE CloseRecording(CloseSession(x, report), i, kind, configured)

\* Mutant: the ledger is dropped before the session that may still report.
Finish_DropsLedger(x, report) ==
    IF x.finished # "no" THEN x
    ELSE WindUp([x EXCEPT !.finished = "running", !.ledger = None], FinishSlot,
                "finish", report, TRUE)

Finish(x, report) ==
    IF x.finished # "no" THEN x
    ELSE WindUp([x EXCEPT !.finished = "running"], FinishSlot, "finish",
                report, TRUE)

-----------------------------------------------------------------------------
(* Messages.  The client waits for the answer to "start" before it asks for  *)
(* the end, and for the end before it starts again on the same socket;       *)
(* "stop" it may send at any time, and the socket may close at any time, in  *)
(* the middle of anything.  After "stop" the client closes the socket and    *)
(* sends no more.  A "start" that crosses the close frame of a shutdown is   *)
(* left out: the process exits within seconds.                               *)

Up == s.exited = "no"

\* A handler waits for a vendor to drain the stream of the session it closes.
Draining == \E i \in Slot : s.tasks[i].at = "closing"

\* A "start" has put the old session away and has not made the new one.
Replacing ==
    \E i \in Asleep({"start"}) : s.tasks[i].at \in {"recStop", "unlink", "saving"}

Crossing(p) == crossed' = (crossed \/ p)

Receives == Up /\ s.conn # "closed" /\ Free # {}

\* Mutant: a live session is replaced and not ended first.
Start_Abandons ==
    /\ Receives
    /\ s.conn = "open"
    /\ Asleep({"start", "end", "stop"}) = {}
    /\ s.count < MaxConvs
    /\ s' = CreateSession(s, NextSlot)
    /\ UNCHANGED crossed

Start ==
    /\ Receives
    /\ s.conn = "open"
    /\ Asleep({"start", "end", "stop"}) = {}
    /\ s.count < MaxConvs
    /\ \E report \in MayReport(s), configured \in BOOLEAN :
          s' = IF s.session # None \/ s.ledger # None
               THEN WindUp(s, NextSlot, "start", report, configured)
               ELSE AfterFinalize(s, NextSlot, "start", configured)
    /\ UNCHANGED crossed

EndConversation ==
    /\ Receives
    /\ Asleep({"start", "end", "stop"}) = {}
    /\ Crossing(Draining)
    /\ \E report \in MayReport(s) :
          s' = WindUp(s, NextSlot, "end", report, TRUE)

Stop ==
    /\ Receives
    /\ Crossing(Draining)
    /\ \E report \in MayReport(s) :
          s' = WindUp(s, NextSlot, "stop", report, TRUE)

\* start() of a recorder that was started before, or is gone, does nothing.
StartRecording ==
    /\ Receives
    /\ s.recorder # None
    /\ s.rec[s.recorder] = "idle"
    /\ s' = Sleep([s EXCEPT !.rec[s.recorder] = "opening"], NextSlot, "arm",
                  "arming", s.recorder, 0)
    /\ UNCHANGED crossed

\* The session reports a turn while it is live.
Usage(c) ==
    /\ Up
    /\ s.ses[c] = "live"
    /\ s.reported[c] < MaxTurns
    /\ s' = OnUsage(s, c)
    /\ UNCHANGED crossed

-----------------------------------------------------------------------------
(* Handlers that wake up.                                                    *)

Wakes(i, at) == Up /\ s.tasks[i].at = at /\ UNCHANGED crossed

\* session.start() settles; by then someone may have closed and dropped it.
Started(i) ==
    /\ Wakes(i, "starting")
    /\ LET c == s.tasks[i].conv
           y == [s EXCEPT !.ses[c] = IF @ = "starting" THEN "live" ELSE @]
       IN  s' = IF s.session = None THEN StartFails(y, i) ELSE Return(y, i)

StartRejected(i) ==
    /\ Wakes(i, "starting")
    /\ LET c == s.tasks[i].conv
       IN  s' = StartFails([s EXCEPT !.ses[c] = IF @ = "starting" THEN "failed"
                                                ELSE @], i)

\* The stream is drained, or half a second is over: what the vendor still owed
\* an account of is reported, and only then is the session forgotten.
VendorClosed(i) ==
    /\ Wakes(i, "closing")
    /\ LET t == s.tasks[i]
           c == t.conv
       IN  \E report, configured \in BOOLEAN :
             /\ report => s.ses[c] = "draining" /\ s.reported[c] < MaxTurns
             /\ LET y == IF report THEN OnUsage(s, c) ELSE s
                IN  s' = CloseRecording([y EXCEPT !.ses[c] = "closed",
                                                  !.session = None],
                                        i, t.kind, configured)

\* Mutant: stop() is not looked for after the await.
RecorderOpens_NoRecheck(i) ==
    /\ Wakes(i, "arming")
    /\ s' = Return([s EXCEPT !.rec[s.tasks[i].conv] = "on"], i)

\* Both channels are open; stop() may have come and gone in the meantime.
RecorderOpens(i) ==
    /\ Wakes(i, "arming")
    /\ LET c == s.tasks[i].conv
       IN  s' = Return([s EXCEPT !.rec[c] = IF @ = "doomed" THEN "done"
                                            ELSE "on"], i)

RecorderFailsToOpen(i) ==
    /\ Wakes(i, "arming")
    /\ LET c == s.tasks[i].conv
       IN  s' = Return([s EXCEPT !.rec[c] = "done",
                                 !.recorder = IF @ = c THEN None ELSE @], i)

\* stop() has interleaved the channels and renamed the WAV into place.
Recorded(c) == [s EXCEPT !.rec[c] = "done", !.made[c] = TRUE, !.wav[c] = TRUE]

RecordingMade(i) ==
    /\ Wakes(i, "recStop")
    /\ LET t == s.tasks[i]
           y == Recorded(t.conv)
       IN  \E configured \in BOOLEAN :
             s' = IF Unbilled(y)
                  THEN Sleep(y, i, t.kind, "unlink", t.conv, 0)
                  ELSE AfterRecording(y, i, t.kind, configured)

\* Nothing was said, or stop() threw: closeRecording() goes on either way.
NothingRecorded(i) ==
    /\ Wakes(i, "recStop")
    /\ LET t == s.tasks[i]
       IN  \E configured \in BOOLEAN :
             s' = AfterRecording([s EXCEPT !.rec[t.conv] = "done"], i, t.kind,
                                 configured)

Unlinked(i) ==
    /\ Wakes(i, "unlink")
    /\ LET t == s.tasks[i]
       IN  \E configured \in BOOLEAN :
             s' = AfterRecording([s EXCEPT !.wav[t.conv] = FALSE], i, t.kind,
                                 configured)

CatchStopped(i) ==
    /\ Wakes(i, "catchStop")
    /\ LET c == s.tasks[i].conv
       IN  \E made \in BOOLEAN :
             s' = Return([(IF made THEN Recorded(c)
                           ELSE [s EXCEPT !.rec[c] = "done"])
                          EXCEPT !.recorder = None], i)

-----------------------------------------------------------------------------
(* SessionStore.save(): one write at a time, in the order of the calls.      *)

Settle(x, e, configured) ==
    IF ~e.awaited THEN x
    ELSE LET t == x.tasks[e.slot]
         IN  IF t.kind = "finish" THEN FinishDone(x)
             ELSE SendSummary(x, e.slot, t.kind, t.conv, t.sum, configured)

StoreWrites ==
    /\ Up
    /\ s.saves # << >>
    /\ UNCHANGED crossed
    /\ LET e == Head(s.saves)
       IN  \E ok, configured \in BOOLEAN :
             s' = Settle([s EXCEPT !.saves = Tail(@),
                                   !.filed[e.conv] = IF ok THEN e.turns ELSE @,
                                   !.unsaved[e.conv] = @ \/ ~ok],
                         e, configured)

-----------------------------------------------------------------------------
(* The end of the socket and of the process.                                 *)

SocketCloses ==
    /\ Up
    /\ s.conn # "closed"
    /\ Crossing(Draining \/ Replacing)
    /\ \E report \in MayReport(s) :
          s' = Finish([s EXCEPT !.conn = "closed"], report)

\* SIGTERM: close the live sockets and wait for their finish(), or 8 seconds.
Shutdown ==
    /\ Up
    /\ ~s.shutdown
    /\ Crossing(Draining \/ Replacing)
    /\ \E report \in MayReport(s) :
          LET y == [s EXCEPT !.shutdown = TRUE]
          IN  s' = IF s.finished = "done" THEN y
                   ELSE Finish([y EXCEPT !.conn = IF @ = "open" THEN "closing"
                                                  ELSE @], report)

Drained ==
    /\ Up
    /\ s.shutdown
    /\ s.finished = "done"
    /\ s' = [s EXCEPT !.exited = "drained"]
    /\ UNCHANGED crossed

DrainTimesOut ==
    /\ Up
    /\ s.shutdown
    /\ s.finished # "done"
    /\ s' = [s EXCEPT !.exited = "timeout"]
    /\ UNCHANGED crossed

-----------------------------------------------------------------------------
FileSystem(i) ==
    \/ RecorderOpens(i) \/ RecorderFailsToOpen(i)
    \/ RecordingMade(i) \/ NothingRecorded(i) \/ Unlinked(i) \/ CatchStopped(i)

\* What a handler may wait for but the start of a session and the store.
Wakeup(i) == VendorClosed(i) \/ FileSystem(i)

Next ==
    \/ Start \/ EndConversation \/ Stop \/ StartRecording
    \/ \E c \in Conv : Usage(c)
    \/ \E i \in Slot : Started(i) \/ StartRejected(i) \/ Wakeup(i)
    \/ StoreWrites
    \/ SocketCloses \/ Shutdown \/ Drained \/ DrainTimesOut

Spec == Init /\ [][Next]_vars

-----------------------------------------------------------------------------
(* Properties                                                               *)

\* The record has the fields and the ranges above.
TypeOK == s \in State /\ crossed \in BOOLEAN

\* A session that may still cost money is the one the socket can close: no
\* restart, failed start or dropped socket leaves a vendor connection behind.
NoOrphanSession ==
    \A c \in Conv : s.ses[c] \in {"starting", "live"} => s.session = c

\* All sessions of a socket report through the same closure, yet every turn a
\* session reports is in the ledger of its own conversation, and a ledger that is
\* still held is complete.  What is lost is what a vendor reports after the
\* ledger is gone: it takes a message or a close that crossed a vendor's close()
\* or a restart, as when "stop" waits for the vendor and the socket closes.  No
\* turn is ever counted in a conversation that did not report it.
UsageInOwnLedger ==
    \A c \in Conv :
        /\ s.turns[c] <= s.reported[c]
        /\ s.ledger = c => s.turns[c] = s.reported[c]
        /\ s.turns[c] < s.reported[c] => crossed

\* Once the queue of saves is empty every turn is on disk, ended or not, unless
\* the disk refused it.
AllTurnsFiled ==
    s.saves = << >> =>
        \A c \in Conv : s.unsaved[c] \/ s.filed[c] = s.turns[c]

\* The client is sent at most one report of a conversation, and no turn is added
\* to it afterwards, whatever else crosses a vendor's close(); an "end" after the
\* "stop" is the one order the client never sends.
SummaryIsFinal ==
    \A c \in Conv :
        /\ Len(s.told[c]) <= 1
        /\ \A k \in 1..Len(s.told[c]) : s.told[c][k] = s.turns[c]

\* No handler is at work and no save is under way.
Quiet ==
    /\ Up
    /\ s.saves = << >>
    /\ \A i \in Slot : s.tasks[i] = NoTask

\* A recorder the socket has let go of is closed once its handlers have returned,
\* even when it was stopped while its files were being opened.
RecordersAreClosed ==
    Quiet => \A c \in Conv :
                 s.rec[c] \in {"opening", "doomed", "on", "stopping"}
                     => s.recorder = c

\* A recording that was made is kept as long as its record: when nothing is going
\* on any more, a conversation that was filed has its WAV beside it.
RecordingKept ==
    Quiet => \A c \in Conv : s.made[c] /\ s.filed[c] > 0 => s.wav[c]

\* Once the socket is gone and its handlers have returned, no session is left
\* that nobody can close.
ClosedSocketHoldsNothing ==
    s.finished = "done" /\ Quiet => s.session = None
=============================================================================

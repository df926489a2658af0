-------------------------------- MODULE Bench --------------------------------
(***************************************************************************)
(* The page that runs the rigs against each other:                         *)
(* src/frontend/src/App.tsx, with what the controls of Sidebar.tsx,        *)
(* BenchView.tsx and RigBuilder.tsx let the user do while a conversation   *)
(* is on.                                                                  *)
(*                                                                         *)
(* Of the session hook only what the page reads is here: its state, its    *)
(* turns and its summary (VoiceSession has the sockets); idle, closed,     *)
(* ended and error are alike to the page, and are "over".  A configuration *)
(* is a number that every edit raises; conversations are counted, and of   *)
(* a turn it is noted how its rig was configured, and locked, when it came.*)
(***************************************************************************)
EXTENDS Integers, FiniteSets, Sequences, SequencesExt, FiniteSetsExt

CONSTANTS
    MaxRigs,    \* bound: rigs that are ever made
    MaxConvs,   \* bound: conversations
    MaxTurns,   \* bound: turns of a conversation
    MaxEdits    \* bound: changes of a configuration

VARIABLE s

Colours == ToSet([i \in DOMAIN s.rigs |-> s.rigs[i].colour])
Ids == {s.rigs[i].id : i \in DOMAIN s.rigs}
RigOf(id) == SelectLastInSeq(s.rigs, LAMBDA r : r.id = id)

\* What a live session pins.
Locked == s.state \in {"connecting", "ready", "ending"}

\* How the rig that runs is configured now; it may be gone.
Gone == -1
Config == IF s.running \in Ids THEN s.rigs[RigOf(s.running)].config ELSE Gone

-----------------------------------------------------------------------------
\* The two effects of a render, after `t` has been put together: the bill that was
\* awaited opens its report, if the user is still on the bench; and the turns that
\* have landed are the score of the rig that runs.
Rendered(t) ==
    LET due == t.summary # 0 /\ t.awaiting
        filed == IF ~due THEN t
                 ELSE IF t.view # "bench" THEN [t EXCEPT !.awaiting = FALSE]
                 ELSE [t EXCEPT !.awaiting = FALSE, !.record = t.summary,
                                !.live = TRUE, !.view = "run"]
    IN  IF t.running = 0 \/ t.turns = <<>> THEN filed
        ELSE [filed EXCEPT !.scores = [id \in DOMAIN @ \cup {t.running} |->
                                          IF id = t.running THEN t.turns ELSE @[id]]]

\* Rigs from storage or the seed, of which the first is shown; nothing else is kept.
Loaded(rigs, made) ==
    [rigs |-> rigs, active |-> Head(rigs).id,
     high |-> Max({rigs[i].colour : i \in DOMAIN rigs}),
     state |-> "over", attached |-> FALSE, conv |-> 0, turns |-> <<>>, summary |-> 0,
     running |-> 0, awaiting |-> FALSE, view |-> "bench", record |-> 0, live |-> FALSE,
     scores |-> [id \in {} |-> <<>>],
     \* for the properties: who has had which colour, and which rig was run as what
     given |-> {<<rigs[i].id, rigs[i].colour>> : i \in DOMAIN rigs}, ran |-> <<>>,
     \* for the bounds: the rigs there have been, and the changes on this page
     made |-> made, edits |-> 0]

Init ==
    s = Loaded(<<[id |-> 1, colour |-> 0, config |-> 0], [id |-> 2, colour |-> 1, config |-> 0]>>,
               2)

\* The page is left (a reload, or a logout and the next login) and opened again; the
\* configurations are numbered afresh.
Reopen ==
    s' = Loaded([i \in DOMAIN s.rigs |-> [s.rigs[i] EXCEPT !.config = 0]], s.made)

-----------------------------------------------------------------------------
(* The user                                                                  *)

\* A new rig takes the colour after the highest there has been on this page.
AddRig ==
    /\ ~Locked /\ s.made < MaxRigs
    /\ LET next == Max(Colours \cup {s.high}) + 1
       IN  s' = [s EXCEPT
                !.rigs = Append(@, [id |-> s.made + 1, colour |-> next, config |-> 0]),
                !.active = s.made + 1, !.made = @ + 1, !.view = "bench",
                !.high = next, !.given = @ \cup {<<s.made + 1, next>>}]

\* Offered for the active rig, while there is another.
DeleteRig ==
    /\ s.view = "bench" /\ ~Locked /\ Len(s.rigs) > 1
    /\ LET left == SelectSeq(s.rigs, LAMBDA r : r.id # s.active)
       IN  s' = [s EXCEPT !.rigs = left, !.active = Head(left).id]

UpdateRig ==
    /\ ~Locked /\ s.edits < MaxEdits
    /\ s' = [s EXCEPT !.rigs[RigOf(s.active)].config = s.edits + 1, !.edits = @ + 1]

SelectRig(id) ==
    /\ Locked => id = s.active
    /\ s' = [s EXCEPT !.active = id, !.view = "bench"]

Navigate(view) == s' = Rendered([s EXCEPT !.view = view])

\* A record from Runs; it is not the conversation that has just ended.
OpenRun ==
    /\ s.view = "runs"
    /\ s' = Rendered([s EXCEPT !.record = 0, !.live = FALSE, !.view = "run"])

\* In one render with the page's own changes the hook lets go of the socket there
\* was, of its turns and of its summary; the next socket is on its way.
Connect ==
    /\ s.view = "bench" /\ ~Locked /\ s.conv < MaxConvs
    /\ s' = Rendered([s EXCEPT
            !.awaiting = TRUE, !.running = s.active, !.state = "connecting",
            !.attached = TRUE, !.conv = @ + 1, !.turns = <<>>, !.summary = 0,
            !.ran = Append(@, <<s.active, s.rigs[RigOf(s.active)].config>>)])

End ==
    /\ s.state = "ready" /\ s.view = "bench"
    /\ s' = [s EXCEPT !.state = "ending"]

-----------------------------------------------------------------------------
(* The session hook                                                          *)

\* The audio output cannot be had: there is no socket.
ResumeFails ==
    /\ s.state = "connecting"
    /\ s' = [s EXCEPT !.state = "over", !.attached = FALSE]

\* A start that fails is answered by an error and by nothing after it.
SessionStarted ==
    /\ s.attached /\ s.state = "connecting"
    /\ s' = [s EXCEPT !.state = "ready"]

\* The socket stays: what the server still reports comes in.
ServerError ==
    /\ s.attached
    /\ s' = [s EXCEPT !.state = "over"]

Metrics ==
    /\ s.attached /\ s.state # "connecting" /\ Len(s.turns) < MaxTurns
    /\ s' = Rendered([s EXCEPT !.turns = Append(@, [conv |-> s.conv, config |-> Config,
                                               locked |-> Locked])])

Summary ==
    /\ s.attached /\ s.state # "connecting" /\ s.summary = 0
    /\ s' = Rendered([s EXCEPT !.summary = s.conv])

SessionClosed ==
    /\ s.attached /\ s.summary # 0
    /\ s' = [s EXCEPT !.state = "over", !.attached = FALSE]

\* wsRef keeps a socket that has closed, but nothing comes from it.
SocketCloses ==
    /\ s.attached
    /\ s' = [s EXCEPT !.state = "over", !.attached = FALSE]

\* The summary may still come: the socket is kept.
EndTimeout ==
    /\ s.state = "ending"
    /\ s' = [s EXCEPT !.state = "over"]

Next ==
    \/ Reopen \/ AddRig \/ DeleteRig \/ UpdateRig \/ OpenRun \/ Connect \/ End
    \/ \E id \in Ids : SelectRig(id)
    \/ \E view \in {"bench", "runs"} : Navigate(view)
    \/ ResumeFails \/ SessionStarted \/ ServerError \/ Metrics \/ Summary
    \/ SessionClosed \/ SocketCloses \/ EndTimeout

-----------------------------------------------------------------------------
(* Properties                                                                *)

\* Of the rigs a page has shown no two have had one colour, also those that have
\* been deleted: a chart under comparison is not repainted.
ColoursAreFresh ==
    \A a, b \in s.given : a[2] = b[2] => a[1] = b[1]

\* While a conversation is on, the rig on the bench is the one that runs, as it was
\* when the conversation began.
RigIsPinned ==
    Locked => /\ s.active = s.running /\ s.running \in Ids
              /\ Last(s.ran) = <<s.running, s.rigs[RigOf(s.running)].config>>

\* The numbers beside a rig come from one conversation, and one of that rig; and all
\* of them came in while the rig was what that conversation ran, but for those that
\* come in with the lock off: an error of the server, and the end of the wait for the
\* bill, take it off and leave the socket, and the rig can be changed or deleted.
ScoresAreOwn ==
    \A id \in DOMAIN s.scores : \A i \in DOMAIN s.scores[id] :
        LET turn == s.scores[id][i]
            run == s.ran[turn.conv]
        IN  /\ run[1] = id
            /\ turn.conv = s.scores[id][1].conv
            /\ turn.config = run[2] \/ ~turn.locked

\* The report that says it has just ended is of the last conversation begun here.
ReportIsOfLast ==
    s.view = "run" /\ s.live => s.record = s.conv
=============================================================================

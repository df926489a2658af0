------------------------- MODULE VoiceSessionProofs -------------------------
(***************************************************************************)
(* Proofs about VoiceSession, for every number of connections and          *)
(* recorders: what a running session hears is recorded, unless it hears a  *)
(* recorder that was let go of before it, and its socket is the one the    *)
(* page holds unless disconnect() overtook a connect().                    *)
(***************************************************************************)
EXTENDS VoiceSession, TLAPS

\* A socket that may still get, or has, a session.
Alive(c) == c.st \in {"connecting", "open"}

\* The sockets there are were made one after the other, for an admitted page.
Made(x) ==
    /\ x.opened + x.resuming <= x.calls
    /\ x.ws <= x.opened
    /\ \A k \in Conn : k > x.opened => x.conn[k] = NoConnection
    /\ \A k \in Conn : x.conn[k].st = "open" => x.conn[k].admitted
    /\ \A k \in Conn : x.conn[k].st \in {"none", "connecting"} => ~x.conn[k].started
    /\ ~x.mounted => ~x.token

\* One socket is alive, or one connect() sleeps with the button away.
Sole(x) ==
    /\ x.resuming > 0 => x.resuming = 1 /\ x.state = "connecting" /\ x.ws = None
    /\ \A k \in Conn : Alive(x.conn[k]) => x.ws = k
    /\ \A k \in Conn : Alive(x.conn[k]) /\ x.conn[k].admitted => x.mounted

\* The handlers of the socket the page holds are in place, and the server of a
\* session knows of the recorder.
Heard(x) ==
    x.ws # None =>
        /\ Alive(x.conn[x.ws]) => x.conn[x.ws].attached
        /\ x.conn[x.ws].st = "open" /\ x.conn[x.ws].started /\ x.rec # None
               => x.conn[x.ws].armed

\* The socket a recorder was made on, if it was open, has been told of it.
Told(x) == \A r \in Rec : x.madeFor[r] # None => x.conn[x.madeFor[r]].armed

Inv(x) ==
    /\ x \in Page
    /\ Made(x)
    /\ ~x.overtook => Sole(x)
    /\ Heard(x)
    /\ Told(x)

-----------------------------------------------------------------------------
(* Three kinds of change                                                     *)

\* The number and the owners of the sockets, and the recorders made on them.
SameLife(x, y) ==
    /\ y.madeFor = x.madeFor
    /\ y.opened = x.opened
    /\ y.resuming = x.resuming
    /\ y.calls = x.calls
    /\ y.mounted = x.mounted
    /\ y.overtook = x.overtook

\* All but what the server does, and the counters of the microphone.
Beside(x, y) ==
    /\ SameLife(x, y)
    /\ y.ws = x.ws
    /\ y.state = x.state
    /\ y.token = x.token
    /\ y.rec = x.rec
    /\ y.mic = x.mic
    /\ y.waiter = x.waiter

\* Nothing happens to a socket: a recorder goes, the state or the token may.
LEMMA Frame ==
    ASSUME NEW x, NEW y, Inv(x), y \in Page, SameLife(x, y),
           y.conn = x.conn, y.ws = x.ws, y.rec \in {x.rec, None},
           y.token => x.token,
           x.overtook \/ y.state = x.state \/ x.resuming = 0 \/ x.ws # None
    PROVE  Inv(y)
<1>1. Made(y)
  BY DEF Inv, Made, SameLife
<1>2. ~y.overtook => Sole(y)
  BY DEF Inv, Sole, SameLife
<1>3. Heard(y) /\ Told(y)
  BY DEF Inv, Heard, Told, SameLife
<1> QED BY <1>1, <1>2, <1>3 DEF Inv

\* The state of one socket changes, and it does not come to life.
Revised(x, k, c) == [x EXCEPT !.conn = [x.conn EXCEPT ![k] = c]]

\* One socket is revised, and the page's facts about it and the others stay.
LEMMA Revision ==
    ASSUME NEW x, Inv(x), NEW k \in Conn, NEW c \in Connection, k <= x.opened,
           Alive(c) => Alive(x.conn[k]),
           Alive(c) => c.attached = x.conn[k].attached,
           c.admitted = x.conn[k].admitted,
           x.conn[k].armed => c.armed,
           c.st = "open" => c.admitted,
           c.st \in {"none", "connecting"} => ~c.started,
           x.ws = k /\ c.st = "open" /\ c.started /\ x.rec # None => c.armed
    PROVE  /\ Inv(Revised(x, k, c)) /\ Beside(x, Revised(x, k, c))
           /\ Revised(x, k, c).conn = [x.conn EXCEPT ![k] = c]
<1> DEFINE conn == [x.conn EXCEPT ![k] = c]
           y == Revised(x, k, c)
<1>1. conn \in [Conn -> Connection] /\ conn[k] = c
      /\ \A j \in Conn \ {k} : conn[j] = x.conn[j]
  BY DEF Inv, Page
<1>2. y = [x EXCEPT !.conn = conn]
  BY DEF Revised
<1> HIDE DEF conn, y
<1>3. y \in Page /\ Beside(x, y) /\ y.conn = conn
  BY <1>1, <1>2 DEF Inv, Page, SameLife, Beside
<1>4. Made(y)
  <2>1. x.opened \in 0..MaxConns /\ Made(x)
    BY DEF Inv, Page
  <2>2. \A j \in Conn : j > y.opened => y.conn[j] = NoConnection
    BY <1>1, <1>3, <2>1 DEF Made, SameLife, Beside, Conn
  <2>3. \A j \in Conn : y.conn[j].st = "open" => y.conn[j].admitted
    BY <1>1, <1>3, <2>1 DEF Made
  <2>4. \A j \in Conn : y.conn[j].st \in {"none", "connecting"} => ~y.conn[j].started
    BY <1>1, <1>3, <2>1 DEF Made
  <2> QED BY <1>3, <2>1, <2>2, <2>3, <2>4 DEF Made, SameLife, Beside
<1>5. ~y.overtook => Sole(y)
  BY <1>1, <1>3 DEF Inv, Sole, SameLife, Beside
<1>6. Heard(y)
  <2>1. x.ws \in Conn \cup {None}
    BY DEF Inv, Page
  <2> QED BY <1>1, <1>3, <2>1 DEF Inv, Heard, Beside
<1>7. Told(y)
  <2> SUFFICES ASSUME NEW r \in Rec, y.madeFor[r] # None
               PROVE  y.conn[y.madeFor[r]].armed
    BY DEF Told
  <2>1. y.madeFor[r] = x.madeFor[r] /\ x.madeFor[r] \in Conn
    BY <1>3 DEF Inv, Page, Beside, SameLife
  <2>2. x.conn[x.madeFor[r]].armed
    BY <1>3, <2>1 DEF Inv, Told
  <2> QED BY <1>1, <1>3, <2>1, <2>2
<1>8. Inv(y)
  BY <1>3, <1>4, <1>5, <1>6, <1>7 DEF Inv
<1> QED BY <1>3, <1>8 DEF conn, y

\* The page lets go of a socket that is not alive.
LEMMA Unheld ==
    ASSUME NEW x, NEW y, Inv(x), y \in Page,
           y.conn = x.conn, y.ws = None, y.rec = x.rec, y.token = x.token,
           y.madeFor = x.madeFor,
           y.opened = x.opened, y.resuming = x.resuming, y.calls = x.calls,
           y.mounted = x.mounted,
           x.ws # None => ~Alive(x.conn[x.ws]),
           ~y.overtook => ~x.overtook /\ x.resuming = 0
    PROVE  Inv(y)
<1>1. x.ws \in Conn \cup {None} /\ x.opened \in Nat
  BY BoundsAssumption DEF Inv, Page
<1>2. Made(y)
  BY <1>1 DEF Inv, Made, None
<1>3. ~y.overtook => Sole(y)
  <2> SUFFICES ASSUME ~y.overtook PROVE Sole(y)
    OBVIOUS
  <2>1. Sole(x) /\ x.resuming = 0
    BY DEF Inv
  <2>2. \A k \in Conn : ~Alive(y.conn[k])
    BY <2>1 DEF Sole, Conn, None
  <2> QED BY <2>1, <2>2 DEF Sole
<1>4. Heard(y) /\ Told(y)
  BY DEF Heard, Inv, Told
<1> QED BY <1>2, <1>3, <1>4 DEF Inv

-----------------------------------------------------------------------------
(* The operators from a page to the next.                                   *)

\* A socket that is closed is not alive any more, and its handlers are gone.
LEMMA DetachKeeps ==
    ASSUME NEW x, Inv(x), NEW k \in Conn, k <= x.opened
    PROVE  /\ Inv(Detach(x, k)) /\ Beside(x, Detach(x, k))
           /\ ~Alive(Detach(x, k).conn[k])
           /\ \A j \in Conn \ {k} : Detach(x, k).conn[j] = x.conn[j]
<1> DEFINE old == x.conn[k]
           c == [old EXCEPT !.attached = FALSE, !.st = CloseSocket(old.st)]
<1>1. old \in Connection /\ x.conn \in [Conn -> Connection] /\ x \in Page
  BY DEF Inv, Page
<1>2. CloseSocket(old.st) \in {"none", "closing", "closed"}
      /\ (CloseSocket(old.st) = "none" => old.st = "none")
  BY <1>1 DEF CloseSocket, Connection
<1>3. /\ c \in Connection /\ c.st = CloseSocket(old.st) /\ c.admitted = old.admitted
      /\ c.started = old.started /\ c.armed = old.armed
  BY <1>1, <1>2 DEF Connection
<1>4. Detach(x, k) = Revised(x, k, c)
  BY <1>1 DEF Detach, Revised, Page, Conn, None
<1> HIDE DEF c
<1>5. ~Alive(c)
  BY <1>2, <1>3 DEF Alive
<1>6. c.st \in {"none", "connecting"} => ~c.started
  BY <1>2, <1>3 DEF Inv, Made
<1>7. /\ Inv(Revised(x, k, c)) /\ Beside(x, Revised(x, k, c))
      /\ Revised(x, k, c).conn = [x.conn EXCEPT ![k] = c]
  BY <1>2, <1>3, <1>5, <1>6, Revision
<1> QED BY <1>1, <1>4, <1>5, <1>7

\* The socket the page holds, if it holds one.
LEMMA DetachHeldKeeps ==
    ASSUME NEW x, Inv(x)
    PROVE  /\ Inv(Detach(x, x.ws)) /\ Beside(x, Detach(x, x.ws))
           /\ x.ws # None => ~Alive(Detach(x, x.ws).conn[x.ws])
<1>1. CASE x.ws = None
  BY <1>1 DEF Detach, Beside, SameLife
<1>2. CASE x.ws # None
  <2>1. x.ws \in Conn /\ x.ws <= x.opened
    BY <1>2 DEF Inv, Page, Made
  <2> QED BY <2>1, DetachKeeps
<1> QED BY <1>1, <1>2

\* What the page tells the server of an open session.
LEMMA AskKeeps ==
    ASSUME NEW x, Inv(x), NEW what \in {"end", "stop"}
    PROVE  Inv(Ask(x, what)) /\ Beside(x, Ask(x, what))
<1>1. CASE ~IsOpen(x)
  BY <1>1 DEF Ask, Beside, SameLife
<1>2. CASE IsOpen(x)
  <2> DEFINE k == x.ws
             c == [x.conn[k] EXCEPT !.asked = what]
  <2>1. k \in Conn /\ k <= x.opened /\ x.conn[k] \in Connection /\ x.conn[k].st = "open"
        /\ x \in Page /\ x.conn \in [Conn -> Connection]
    BY <1>2 DEF IsOpen, Inv, Page, Made
  <2>2. /\ c \in Connection /\ c.st = x.conn[k].st /\ c.admitted = x.conn[k].admitted
        /\ c.started = x.conn[k].started /\ c.armed = x.conn[k].armed
        /\ c.attached = x.conn[k].attached
    BY <2>1 DEF Connection
  <2>3. Ask(x, what) = Revised(x, k, c)
    BY <1>2, <2>1 DEF Ask, Revised, Page
  <2> HIDE DEF c
  <2>4. c.admitted
    BY <2>1, <2>2 DEF Inv, Made
  <2>5. x.ws = k /\ c.st = "open" /\ c.started /\ x.rec # None => c.armed
    BY <2>1, <2>2 DEF Inv, Heard, Conn, None
  <2>6. Inv(Revised(x, k, c)) /\ Beside(x, Revised(x, k, c))
    BY <2>1, <2>2, <2>4, <2>5, Revision DEF Alive
  <2> QED BY <2>3, <2>6
<1> QED BY <1>1, <1>2

\* The server of an open session is told of the microphone.
LEMMA ArmKeeps ==
    ASSUME NEW x, Inv(x)
    PROVE  /\ Inv(Arm(x)) /\ Beside(x, Arm(x))
           /\ IsOpen(Arm(x)) => Arm(x).conn[x.ws].armed
<1>1. CASE ~IsOpen(x)
  BY <1>1 DEF Arm, Beside, SameLife
<1>2. CASE IsOpen(x)
  <2> DEFINE k == x.ws
             c == [x.conn[k] EXCEPT !.armed = TRUE]
  <2>1. k \in Conn /\ k <= x.opened /\ x.conn[k] \in Connection /\ x.conn[k].st = "open"
        /\ x \in Page /\ x.conn \in [Conn -> Connection]
    BY <1>2 DEF IsOpen, Inv, Page, Made
  <2>2. /\ c \in Connection /\ c.st = x.conn[k].st /\ c.admitted = x.conn[k].admitted
        /\ c.started = x.conn[k].started /\ c.armed
        /\ c.attached = x.conn[k].attached
    BY <2>1 DEF Connection
  <2>3. Arm(x) = Revised(x, k, c)
    BY <1>2, <2>1 DEF Arm, Revised, Page
  <2> HIDE DEF c
  <2>4. c.admitted
    BY <2>1, <2>2 DEF Inv, Made
  <2>5. x.ws = k /\ c.st = "open" /\ c.started /\ x.rec # None => c.armed
    BY <2>2
  <2>6. c.st \in {"none", "connecting"} => ~c.started
    BY <2>1, <2>2
  <2>7. Alive(c) => Alive(x.conn[k])
    BY <2>2 DEF Alive
  <2>8. k <= x.opened /\ c.attached = x.conn[k].attached /\ c.admitted = x.conn[k].admitted
    BY <2>1, <2>2
  <2> HIDE DEF k
  <2>9. Inv(Revised(x, k, c)) /\ Beside(x, Revised(x, k, c))
    BY <2>1, <2>2, <2>4, <2>5, <2>6, <2>7, <2>8, Revision
    <2>10. Revised(x, k, c).conn[k].armed
    BY <2>1, <2>2 DEF Revised, Page
  <2> QED BY <2>3, <2>9, <2>10 DEF k
<1> QED BY <1>1, <1>2

\* disconnect() lets go of the socket, whatever the page has turned to meanwhile.
LEMMA DropKeeps ==
    ASSUME NEW x, Inv(x)
    PROVE  /\ Inv(Drop(x)) /\ Drop(x).token = x.token /\ Drop(x).mounted = x.mounted
           /\ Drop(x).mic = x.mic /\ Drop(x).waiter = x.waiter
<1> DEFINE z == Detach(x, x.ws)
           y == Drop(x)
<1>1. /\ Inv(z) /\ Beside(x, z)
      /\ x.ws # None => ~Alive(z.conn[x.ws])
  BY DetachHeldKeeps
<1>2. y = [z EXCEPT !.ws = None, !.state = "idle",
                    !.overtook = z.overtook \/ x.resuming > 0]
  BY DEF Drop
<1> HIDE DEF z, y
<1>3. z \in Page /\ (z.overtook \/ x.resuming > 0) \in BOOLEAN /\ z.resuming = x.resuming
      /\ x.resuming \in Nat /\ z.ws = x.ws
  BY <1>1, BoundsAssumption DEF Inv, Page, Beside, SameLife
<1>4. /\ y \in Page /\ y.conn = z.conn /\ y.ws = None /\ y.rec = z.rec
      /\ y.token = z.token /\ y.opened = z.opened /\ y.resuming = z.resuming
      /\ y.calls = z.calls /\ y.mounted = z.mounted /\ y.mic = z.mic
      /\ y.waiter = z.waiter /\ y.madeFor = z.madeFor
  BY <1>2, <1>3 DEF Page
<1>5. y.overtook = (z.overtook \/ x.resuming > 0)
  BY <1>2, <1>3 DEF Page
<1>6. ~y.overtook => ~z.overtook /\ z.resuming = 0
  <2>1. ~y.overtook => ~z.overtook /\ ~(x.resuming > 0)
    BY ZenonT(30), <1>5
  <2> QED BY <1>3, <2>1
<1>7. Inv(y)
  BY <1>1, <1>3, <1>4, <1>6, Unheld
<1> QED BY <1>1, <1>4, <1>7 DEF Beside, SameLife, y

\* What a caller of stopMic() does when it is over.
LEMMA ContinueKeeps ==
    ASSUME NEW x, Inv(x), NEW who \in {"none", "mic", "end", "drop"}
    PROVE  /\ Inv(Continue(x, who))
           /\ Continue(x, who).token = x.token
           /\ Continue(x, who).mounted = x.mounted
           /\ who = "mic" => Continue(x, who) = x
<1>1. CASE who = "drop"
  BY <1>1, DropKeeps DEF Continue
<1>2. CASE who = "end"
  <2> DEFINE y == [x EXCEPT !.timer = TRUE]
  <2>1. Continue(x, who) = y
    BY <1>2 DEF Continue, ArmTimer
  <2>2. x \in Page
    BY DEF Inv
  <2>3. y \in Page /\ SameLife(x, y) /\ y.conn = x.conn /\ y.ws = x.ws /\ y.rec = x.rec
        /\ y.token = x.token /\ y.state = x.state /\ y.mounted = x.mounted
    BY <2>2 DEF Page, SameLife
  <2> HIDE DEF y
  <2> QED BY <1>2, <2>1, <2>3, Frame
<1>3. CASE who \in {"none", "mic"}
  BY <1>3 DEF Continue
<1> QED BY <1>1, <1>2, <1>3

\* The page lets go of its recorder.
LEMMA ReleasedKeeps ==
    ASSUME NEW x, Inv(x)
    PROVE  /\ Inv(Released(x)) /\ SameLife(x, Released(x))
           /\ Released(x).conn = x.conn /\ Released(x).ws = x.ws
           /\ Released(x).token = x.token /\ Released(x).state = x.state
<1> DEFINE y == [x EXCEPT !.rec = None, !.micOn = FALSE]
<1>1. x \in Page
  BY DEF Inv
<1>2. y \in Page /\ SameLife(x, y) /\ y.conn = x.conn /\ y.ws = x.ws /\ y.rec = None
      /\ y.token = x.token /\ y.state = x.state
  BY <1>1 DEF Page, SameLife
<1> HIDE DEF y
<1>3. Inv(y)
  BY <1>2, Frame
<1> QED BY <1>2, <1>3 DEF Released, y

\* stopMic() touches the socket only for disconnect().
LEMMA StopMicKeeps ==
    ASSUME NEW x, Inv(x), NEW who \in {"mic", "end", "drop"}
    PROVE  /\ Inv(StopMic(x, who))
           /\ StopMic(x, who).token = x.token
           /\ StopMic(x, who).mounted = x.mounted
           /\ who = "mic" => /\ SameLife(x, StopMic(x, who))
                             /\ StopMic(x, who).conn = x.conn
                             /\ StopMic(x, who).ws = x.ws
                             /\ StopMic(x, who).state = x.state
<1> DEFINE mic == IF x.rec = None THEN "off" ELSE x.mic[x.rec]
<1>1. x \in Page /\ x.mic \in [Rec -> {"none", "asking", "loading", "hot", "closing",
                                       "aborting", "stale", "leaked", "off"}]
      /\ x.waiter \in [Rec -> {"none", "mic", "end", "drop"}]
      /\ x.rec \in Rec \cup {None} /\ x.threw \in BOOLEAN
  BY DEF Inv, Page
<1>2. CASE mic \in {"asking", "stale", "off"}
  <2>1. StopMic(x, who) = Continue(Released(x), who)
    BY <1>2 DEF StopMic, Live
  <2>2. /\ Inv(Released(x)) /\ SameLife(x, Released(x))
        /\ Released(x).conn = x.conn /\ Released(x).ws = x.ws
        /\ Released(x).token = x.token /\ Released(x).state = x.state
    BY ReleasedKeeps
  <2>3. /\ Inv(Continue(Released(x), who))
        /\ Continue(Released(x), who).token = Released(x).token
        /\ Continue(Released(x), who).mounted = Released(x).mounted
        /\ who = "mic" => Continue(Released(x), who) = Released(x)
    BY <2>2, ContinueKeeps
  <2> QED BY <2>1, <2>2, <2>3 DEF SameLife
<1>3. CASE mic \in Live
  <2> DEFINE m == [x.mic EXCEPT ![x.rec] = IF mic = "hot" THEN "closing" ELSE "aborting"]
             w == [x.waiter EXCEPT ![x.rec] = who]
             y == [x EXCEPT !.mic = m, !.waiter = w]
  <2>1. mic \notin {"asking", "stale", "off"} /\ x.rec \in Rec
    BY <1>1, <1>3 DEF Live
  <2>2. StopMic(x, who) = y
    BY <1>1, <1>3, <2>1 DEF StopMic, Page
  <2>3. /\ m \in [Rec -> {"none", "asking", "loading", "hot", "closing", "aborting",
                          "stale", "leaked", "off"}]
        /\ w \in [Rec -> {"none", "mic", "end", "drop"}]
    BY <1>1, <2>1
  <2> HIDE DEF m, w
  <2>4. y \in Page /\ SameLife(x, y) /\ y.conn = x.conn /\ y.ws = x.ws /\ y.rec = x.rec
        /\ y.token = x.token /\ y.state = x.state /\ y.mounted = x.mounted
    BY <1>1, <2>3 DEF Page, SameLife
  <2> HIDE DEF y
  <2>5. Inv(y)
    BY <2>4, Frame
  <2> QED BY <2>2, <2>4, <2>5
<1>4. CASE mic \notin {"asking", "stale", "off"} \cup Live
  <2> DEFINE t == x.threw \/ who = "end"
             y == [x EXCEPT !.threw = t]
  <2>1. StopMic(x, who) = y
    BY <1>4 DEF StopMic
  <2>2. t \in BOOLEAN
    OBVIOUS
  <2> HIDE DEF t
  <2>3. y \in Page /\ SameLife(x, y) /\ y.conn = x.conn /\ y.ws = x.ws /\ y.rec = x.rec
        /\ y.token = x.token /\ y.state = x.state /\ y.mounted = x.mounted
    BY <1>1, <2>2 DEF Page, SameLife
  <2> HIDE DEF y
  <2>4. Inv(y)
    BY <2>3, Frame
  <2> QED BY <2>1, <2>3, <2>4
<1> QED BY <1>2, <1>3, <1>4

-----------------------------------------------------------------------------
(* connect() and the sockets.                                               *)

\* A page that has just been opened holds nothing.
LEMMA InitInv == Init => Inv(s)
<1> SUFFICES ASSUME Init PROVE Inv(s)
  OBVIOUS
<1> DEFINE conn == [k \in Conn |-> NoConnection]
           none == [r \in Rec |-> "none"]
           for == [r \in Rec |-> None]
<1>1. conn \in [Conn -> Connection] /\ \A k \in Conn : conn[k] = NoConnection
  BY DEF NoConnection, Connection
<1>2. none \in [Rec -> {"none"}] /\ for \in [Rec -> {None}]
  OBVIOUS
<1> HIDE DEF conn, none, for
<1>3. s = [state |-> "idle", mounted |-> TRUE, token |-> TRUE, resuming |-> 0,
           calls |-> 0, ws |-> None, opened |-> 0, conn |-> conn,
           rec |-> None, made |-> 0, micOn |-> FALSE, mic |-> none,
           waiter |-> none, madeFor |-> for, timer |-> FALSE, threw |-> FALSE,
           overtook |-> FALSE]
  BY DEF Init, conn, none, for
<1>4. s \in Page
  BY <1>1, <1>2, <1>3, BoundsAssumption DEF Page
<1>5. \A k \in Conn : s.conn[k].st = "none" /\ ~s.conn[k].started
  BY <1>1, <1>3 DEF NoConnection
<1>6. Made(s)
  BY <1>1, <1>3, <1>5 DEF Made, None
<1>7. Sole(s) /\ Heard(s) /\ Told(s)
  BY <1>2, <1>3, <1>5 DEF Sole, Alive, Heard, Told
<1> QED BY <1>4, <1>6, <1>7 DEF Inv

\* connect() up to its await detaches the socket of before: none is alive, and one
\* call sleeps.
LEMMA ConnectStep ==
    ASSUME Inv(s), Connect
    PROVE  Inv(s')
<1> DEFINE z == Detach(s, s.ws)
<1>1. /\ s.calls < MaxConns /\ s.state # "connecting"
      /\ s' = [z EXCEPT !.ws = None, !.state = "connecting", !.timer = FALSE,
                        !.threw = FALSE, !.calls = z.calls + 1,
                        !.resuming = z.resuming + 1]
  BY DEF Connect
<1>2. Inv(z) /\ Beside(s, z) /\ (s.ws # None => ~Alive(z.conn[s.ws]))
  BY DetachHeldKeeps
<1> HIDE DEF z
<1>3. z \in Page /\ Made(z) /\ z.calls = s.calls /\ z.ws = s.ws /\ z.state = s.state
      /\ z.overtook = s.overtook /\ z.resuming = s.resuming
  BY <1>2 DEF Inv, Beside, SameLife
<1>4. z.resuming + 1 \in 0..MaxConns /\ z.calls + 1 \in 0..MaxConns /\ z.opened \in Nat
  BY <1>1, <1>3, BoundsAssumption DEF Page, Made
<1> DEFINE q == z.resuming + 1
           n == z.calls + 1
<1>5. s' = [z EXCEPT !.ws = None, !.state = "connecting", !.timer = FALSE,
                     !.threw = FALSE, !.calls = n, !.resuming = q]
  BY <1>1
<1>6. q \in 0..MaxConns /\ n \in 0..MaxConns
  BY <1>4
<1> HIDE DEF q, n
<1>7. /\ s' \in Page /\ s'.conn = z.conn /\ s'.ws = None /\ s'.state = "connecting"
      /\ s'.calls = n /\ s'.resuming = q /\ s'.opened = z.opened
      /\ s'.mounted = z.mounted /\ s'.token = z.token /\ s'.overtook = z.overtook
      /\ s'.madeFor = z.madeFor
  BY <1>3, <1>5, <1>6 DEF Page
<1>8. Made(s')
  BY <1>3, <1>4, <1>7 DEF Made, Page, None, q, n
<1>9. ~s'.overtook => Sole(s')
  <2> SUFFICES ASSUME ~s'.overtook PROVE Sole(s')
    OBVIOUS
  <2>1. Sole(z) /\ Sole(s)
    BY <1>2, <1>3, <1>7 DEF Inv
  <2>2. z.resuming = 0
    BY <1>1, <1>3, <2>1 DEF Sole, Page
  <2>3. \A k \in Conn : ~Alive(z.conn[k])
    BY <1>2, <1>3, <2>1 DEF Sole, Conn, None
  <2> QED BY <1>7, <2>2, <2>3 DEF Sole, q
<1>10. Heard(s') /\ Told(s')
  BY <1>2, <1>7 DEF Heard, Inv, Told
<1> QED BY <1>7, <1>8, <1>9, <1>10 DEF Inv

\* The call that slept makes the one living socket.
LEMMA ResumedStep ==
    ASSUME Inv(s), Resumed
    PROVE  Inv(s')
<1> DEFINE k == s.opened + 1
           c == [NoConnection EXCEPT !.st = "connecting", !.attached = TRUE,
                                     !.admitted = s.token]
           conn == [s.conn EXCEPT ![k] = c]
           q == s.resuming - 1
<1>1. /\ s.resuming > 0
      /\ s' = [s EXCEPT !.resuming = q, !.ws = k, !.opened = k, !.conn = conn]
  BY DEF Resumed
<1>2. s \in Page /\ Made(s) /\ s.token \in BOOLEAN /\ s.conn \in [Conn -> Connection]
      /\ s.opened \in Nat /\ s.resuming \in Nat /\ s.calls \in 0..MaxConns
      /\ s.ws \in Conn \cup {None}
  BY BoundsAssumption DEF Inv, Page
<1>3. k \in Conn /\ k \in 0..MaxConns /\ q \in 0..MaxConns /\ k # None
      /\ k + q <= s.calls /\ s.resuming = q + 1 /\ k > s.opened
  <2>1. /\ s.resuming > 0 /\ s.opened + s.resuming <= s.calls
        /\ s.opened \in Nat /\ s.resuming \in Nat /\ s.calls \in 0..MaxConns
        /\ MaxConns \in Nat
    BY <1>1, <1>2, BoundsAssumption DEF Made
  <2> QED BY <2>1 DEF Conn, None
<1>4. c \in Connection /\ c.st = "connecting" /\ c.attached /\ c.admitted = s.token
      /\ ~c.started
  BY <1>2 DEF NoConnection, Connection
<1> HIDE DEF c
<1>5. conn \in [Conn -> Connection] /\ conn[k] = c
      /\ \A j \in Conn \ {k} : conn[j] = s.conn[j]
  BY <1>2, <1>3, <1>4
<1> HIDE DEF conn, q, k
<1>6. /\ s' \in Page /\ s'.conn = conn /\ s'.ws = k /\ s'.opened = k
      /\ s'.resuming = q /\ s'.calls = s.calls /\ s'.mounted = s.mounted
      /\ s'.token = s.token /\ s'.overtook = s.overtook /\ s'.madeFor = s.madeFor
  BY <1>1, <1>2, <1>3, <1>5 DEF Page
<1>7. Made(s')
  <2>1. \A j \in Conn : j > k => j > s.opened /\ j # k
    BY <1>2, <1>3 DEF Conn
  <2>2. \A j \in Conn : j > s'.opened => s'.conn[j] = NoConnection
    BY <1>2, <1>5, <1>6, <2>1 DEF Made
  <2>3. \A j \in Conn : s'.conn[j].st = "open" => s'.conn[j].admitted
    BY <1>2, <1>4, <1>5, <1>6 DEF Made
  <2>4. \A j \in Conn : s'.conn[j].st \in {"none", "connecting"} => ~s'.conn[j].started
    BY <1>2, <1>4, <1>5, <1>6 DEF Made
  <2>5. s'.opened + s'.resuming <= s'.calls /\ s'.ws <= s'.opened
    BY <1>3, <1>6
  <2> QED BY <1>2, <1>6, <2>2, <2>3, <2>4, <2>5 DEF Made
<1>8. ~s'.overtook => Sole(s')
  <2> SUFFICES ASSUME ~s'.overtook PROVE Sole(s')
    OBVIOUS
  <2>1. Sole(s)
    BY <1>6 DEF Inv
  <2>2. q = 0 /\ s.ws = None
    BY <1>1, <1>3, <2>1 DEF Sole
  <2>3. \A j \in Conn \ {k} : ~Alive(conn[j])
    BY <1>5, <2>1, <2>2 DEF Sole, Conn, None
  <2>4. c.admitted => s.mounted
    BY <1>2, <1>4 DEF Made
  <2> QED BY <1>5, <1>6, <2>2, <2>3, <2>4 DEF Sole
<1>9. Heard(s')
  BY <1>4, <1>5, <1>6 DEF Heard
<1>10. Told(s')
  <2> SUFFICES ASSUME NEW r \in Rec, s.madeFor[r] # None
               PROVE  conn[s.madeFor[r]].armed
    BY <1>6 DEF Told
  <2>1. s.madeFor[r] \in Conn /\ s.conn[s.madeFor[r]].armed
    BY <1>2 DEF Inv, Page, Told
  <2>2. ~s.conn[k].armed
    BY <1>2, <1>3 DEF Made, NoConnection
  <2> QED BY <1>5, <2>1, <2>2
<1> QED BY <1>6, <1>7, <1>8, <1>9, <1>10 DEF Inv

\* The call that slept gives up, and no socket is made.
LEMMA ResumeFailsStep ==
    ASSUME Inv(s), ResumeFails
    PROVE  Inv(s')
<1> DEFINE q == s.resuming - 1
<1>1. s.resuming > 0 /\ s' = [s EXCEPT !.resuming = q, !.state = "error"]
  BY DEF ResumeFails
<1>2. s \in Page /\ Made(s) /\ s.resuming \in 0..MaxConns /\ s.opened \in Nat
      /\ s.calls \in Nat
  BY BoundsAssumption DEF Inv, Page
<1>3. q \in 0..MaxConns /\ s.resuming = q + 1
  BY <1>1, <1>2, BoundsAssumption
<1> HIDE DEF q
<1>4. /\ s' \in Page /\ s'.conn = s.conn /\ s'.ws = s.ws /\ s'.opened = s.opened
      /\ s'.resuming = q /\ s'.calls = s.calls /\ s'.mounted = s.mounted
      /\ s'.token = s.token /\ s'.overtook = s.overtook /\ s'.rec = s.rec
      /\ s'.madeFor = s.madeFor
  BY <1>1, <1>2, <1>3 DEF Page
<1>5. Made(s')
  BY <1>2, <1>3, <1>4 DEF Made
<1>6. ~s'.overtook => Sole(s')
  BY <1>1, <1>3, <1>4 DEF Inv, Sole
<1>7. Heard(s') /\ Told(s')
  BY <1>4 DEF Inv, Heard, Told
<1> QED BY <1>4, <1>5, <1>6, <1>7 DEF Inv

\* A socket that is not the one before it has been made.
LEMMA OldSocket ==
    ASSUME Inv(s), NEW k \in Conn, s.conn[k].st # "none"
    PROVE  k <= s.opened /\ s.conn[k] \in Connection
BY BoundsAssumption DEF Inv, Page, Made, NoConnection, Conn

\* A connecting socket that was admitted opens.
LEMMA OpensStep ==
    ASSUME Inv(s), NEW k \in Conn, Opens(k)
    PROVE  Inv(s')
<1> DEFINE c == [s.conn[k] EXCEPT !.st = "open"]
<1>1. s.conn[k].st = "connecting" /\ s.conn[k].admitted
  BY DEF Opens
<1>2. k <= s.opened /\ s.conn[k] \in Connection /\ s \in Page /\ ~s.conn[k].started
      /\ s.conn \in [Conn -> Connection]
  BY <1>1, OldSocket DEF Inv, Made, Page
<1>3. s' = Revised(s, k, c)
  BY <1>2 DEF Opens, Revised, Page
<1>4. /\ c \in Connection /\ c.st = "open" /\ c.admitted = s.conn[k].admitted
      /\ c.attached = s.conn[k].attached /\ c.started = s.conn[k].started
      /\ c.armed = s.conn[k].armed
  BY <1>2 DEF Connection
<1> HIDE DEF c
<1>5. /\ Alive(s.conn[k]) /\ c.admitted /\ ~c.started
  BY <1>1, <1>2, <1>4 DEF Alive
<1>6. Inv(Revised(s, k, c))
  BY <1>2, <1>4, <1>5, Revision
<1> QED BY <1>3, <1>6

\* A socket that fails, or has closed: nothing is asked of its session any more.
LEMMA DeadSocket ==
    ASSUME Inv(s), NEW k \in Conn, s.conn[k].st # "none",
           NEW st \in {"closing", "closed"}, NEW y,
           y = [s EXCEPT !.conn[k].st = st]
    PROVE  Inv(y) /\ Beside(s, y)
<1> DEFINE c == [s.conn[k] EXCEPT !.st = st]
<1>1. k <= s.opened /\ s.conn[k] \in Connection /\ s \in Page
      /\ s.conn \in [Conn -> Connection]
  BY OldSocket DEF Inv, Page
<1>2. y = Revised(s, k, c)
  BY <1>1 DEF Revised, Page
<1>3. /\ c \in Connection /\ c.st = st /\ c.admitted = s.conn[k].admitted
      /\ c.armed = s.conn[k].armed
  BY <1>1 DEF Connection
<1> HIDE DEF c
<1>4. ~Alive(c) /\ c.st \notin {"open", "none", "connecting"}
  BY <1>3 DEF Alive
<1>5. Inv(Revised(s, k, c)) /\ Beside(s, Revised(s, k, c))
  BY <1>1, <1>3, <1>4, Revision
<1> QED BY <1>2, <1>5

\* A socket closes: the page hears of it if the handlers are in place.
LEMMA SocketClosesStep ==
    ASSUME Inv(s), NEW k \in Conn, SocketCloses(k)
    PROVE  Inv(s')
<1>1. s.conn[k].st # "none"
  BY DEF SocketCloses
<1> DEFINE y == [s EXCEPT !.conn[k].st = "closed"]
           state == CloseState(y.state)
<1>2. Inv(y) /\ Beside(s, y)
  BY <1>1, DeadSocket
<1>3. CASE ~Current(k)
  <2>1. s' = y
    BY <1>3 DEF SocketCloses
  <2> QED BY <1>2, <2>1
<1>4. CASE Current(k)
  <2>1. PICK u \in BOOLEAN :
          s' = StopMic([y EXCEPT !.state = CloseState(y.state),
                                 !.token = y.token /\ ~u], "mic")
    BY <1>4 DEF SocketCloses
  <2> DEFINE token == y.token /\ ~u
             z == [y EXCEPT !.state = state, !.token = token]
  <2>2. token \in BOOLEAN /\ (token => y.token)
    OBVIOUS
  <2>3. y \in Page /\ y.ws # None
    BY <1>2, <1>4 DEF Inv, Current, Beside, Conn, None
  <2>4. state \in {"idle", "connecting", "ready", "ending", "error", "closed", "ended"}
    BY <2>3 DEF CloseState, Page
  <2>5. s' = StopMic(z, "mic")
    BY <2>1
  <2> HIDE DEF y, token, state
  <2>6. z \in Page /\ SameLife(y, z) /\ z.conn = y.conn /\ z.ws = y.ws /\ z.rec = y.rec
        /\ z.token = token
    <3>1. z \in Page
      BY <2>2, <2>3, <2>4 DEF Page
    <3>2. SameLife(y, z)
      BY <2>3 DEF Page, SameLife
    <3>3. z.conn = y.conn /\ z.ws = y.ws /\ z.rec = y.rec /\ z.token = token
      BY <2>3 DEF Page
    <3> QED BY <3>1, <3>2, <3>3
  <2> HIDE DEF z
  <2>7. Inv(z)
    BY <1>2, <2>2, <2>3, <2>6, Frame
  <2> QED BY <2>5, <2>7, StopMicKeeps
<1> QED BY <1>3, <1>4

\* A socket fails: likewise, and its close comes later.
LEMMA SocketFailsStep ==
    ASSUME Inv(s), NEW k \in Conn, SocketFails(k)
    PROVE  Inv(s')
<1>1. s.conn[k].st # "none"
  BY DEF SocketFails
<1> DEFINE y == [s EXCEPT !.conn[k].st = "closing"]
           z == [y EXCEPT !.state = "error"]
<1>2. Inv(y) /\ Beside(s, y)
  BY <1>1, DeadSocket
<1>3. CASE ~Current(k)
  <2>1. s' = y
    BY <1>3 DEF SocketFails
  <2> QED BY <1>2, <2>1
<1>4. CASE Current(k)
  <2>1. s' = StopMic(z, "mic")
    BY <1>4 DEF SocketFails
  <2>2. y \in Page /\ y.ws # None
    BY <1>2, <1>4 DEF Inv, Current, Beside, Conn, None
  <2> HIDE DEF y
  <2>3. z \in Page /\ SameLife(y, z) /\ z.conn = y.conn /\ z.ws = y.ws /\ z.rec = y.rec
        /\ z.token = y.token
    BY <2>2 DEF Page, SameLife
  <2> HIDE DEF z
  <2>4. Inv(z)
    BY <1>2, <2>2, <2>3, Frame
  <2> QED BY <2>1, <2>4, StopMicKeeps
<1> QED BY <1>3, <1>4

\* A page that turns to another state while it holds a socket.
LEMMA Turned ==
    ASSUME NEW y, Inv(y), NEW state \in {"ready", "error", "ending", "closed"},
           y.overtook \/ y.resuming = 0 \/ y.ws # None,
           NEW z, z = [y EXCEPT !.state = state]
    PROVE  Inv(z) /\ SameLife(y, z) /\ z.ws = y.ws /\ z.conn = y.conn /\ z.rec = y.rec
           /\ z.token = y.token
<1>1. y \in Page
  BY DEF Inv
<1>2. z \in Page /\ SameLife(y, z) /\ z.conn = y.conn /\ z.ws = y.ws /\ z.rec = y.rec
      /\ z.token = y.token
  BY <1>1 DEF Page, SameLife
<1> QED BY <1>2, Frame

\* The session is heard of; if the page has a recorder, it is armed in the same step.
LEMMA SessionStartedStep ==
    ASSUME Inv(s), NEW k \in Conn, SessionStarted(k)
    PROVE  Inv(s')
<1>1. s.conn[k].st = "open"
  BY DEF SessionStarted
<1>2. k <= s.opened /\ s.conn[k] \in Connection /\ s \in Page /\ s.conn[k].admitted
      /\ s.conn \in [Conn -> Connection]
  BY <1>1, OldSocket DEF Inv, Made, Page
<1> DEFINE c == [s.conn[k] EXCEPT !.started = TRUE]
           a == [c EXCEPT !.armed = TRUE]
<1>3. /\ c \in Connection /\ c.st = "open" /\ c.admitted = s.conn[k].admitted
      /\ c.attached = s.conn[k].attached /\ c.armed = s.conn[k].armed
      /\ a \in Connection /\ a.st = "open" /\ a.admitted = s.conn[k].admitted
      /\ a.attached = s.conn[k].attached /\ a.armed
  BY <1>1, <1>2 DEF Connection
<1>4. Revised(s, k, c) = [s EXCEPT !.conn[k].started = TRUE]
  BY <1>2 DEF Revised, Page
<1>5. Alive(s.conn[k]) /\ c.admitted /\ a.admitted
  BY <1>1, <1>2, <1>3 DEF Alive
<1>6. CASE Current(k) /\ s.rec # None
  <2> DEFINE z == [Revised(s, k, c) EXCEPT !.state = "ready"]
  <2>1. s' = Arm(z)
    BY <1>4, <1>6 DEF SessionStarted
  <2>2. s.ws = k /\ k # None
    BY <1>6 DEF Current, Conn, None
  <2>3. Revised(s, k, c).conn[k] = c /\ Revised(s, k, c).ws = k
    BY <1>2, <1>3, <2>2 DEF Revised, Page
  <2>4. z.ws = k /\ z.conn[k] = c /\ z.conn = Revised(s, k, c).conn
    BY <1>2, <2>3 DEF Revised, Page
  <2>5. s' = [z EXCEPT !.conn[k].armed = TRUE]
    <3> HIDE DEF z, c
    <3>1. IsOpen(z)
      BY <1>3, <2>2, <2>4 DEF IsOpen
    <3>2. s' = [z EXCEPT !.conn[z.ws].armed = TRUE]
      BY <2>1, <3>1 DEF Arm
    <3> QED BY <2>4, <3>2
  <2>6. s' = [Revised(s, k, a) EXCEPT !.state = "ready"]
    <3> DEFINE old == [s.conn EXCEPT ![k] = c]
               new == [s.conn EXCEPT ![k] = a]
    <3>1. z = [[s EXCEPT !.conn = old] EXCEPT !.state = "ready"]
      BY DEF Revised
    <3>2. /\ old \in [Conn -> Connection]
          /\ new = [old EXCEPT ![k] = [old[k] EXCEPT !.armed = TRUE]]
      <4> HIDE DEF c
      <4> QED BY <1>2, <1>3
    <3>3. Revised(s, k, a) = [s EXCEPT !.conn = new]
      BY DEF Revised
    <3> HIDE DEF z, a, c, old, new
    <3>4. z.conn = old
      BY <1>2, <3>1 DEF Page
    <3>5. s' = [z EXCEPT !.conn = new]
      BY <2>5, <3>2, <3>4
    <3> QED BY <1>2, <3>1, <3>3, <3>5 DEF Page
  <2> HIDE DEF a, c, z
  <2>7. Inv(Revised(s, k, a)) /\ Beside(s, Revised(s, k, a))
    BY <1>2, <1>3, <1>5, Revision
  <2> QED BY <2>2, <2>6, <2>7, Turned DEF Beside
<1>7. CASE ~(Current(k) /\ s.rec # None)
  <2>1. s.ws = k /\ s.rec # None => FALSE
    BY <1>5, <1>7 DEF Inv, Heard, Current, Conn, None
  <2> HIDE DEF a, c
  <2>2. Inv(Revised(s, k, c)) /\ Beside(s, Revised(s, k, c))
    BY <1>2, <1>3, <1>5, <2>1, Revision
  <2>3. CASE ~Current(k)
    <3>1. s' = Revised(s, k, c)
      BY <1>4, <2>3 DEF SessionStarted
    <3> QED BY <2>2, <3>1
  <2>4. CASE Current(k)
    <3>1. s' = [Revised(s, k, c) EXCEPT !.state = "ready"]
      BY <1>4, <1>7, <2>4 DEF SessionStarted
    <3>2. s.ws # None
      BY <2>4 DEF Current, Conn, None
    <3> QED BY <2>2, <3>1, <3>2, Turned DEF Beside
  <2> QED BY <2>3, <2>4
<1> QED BY <1>6, <1>7

\* An error the server reports leaves the socket as it is.
LEMMA ServerErrorStep ==
    ASSUME Inv(s), NEW k \in Conn, ServerError(k)
    PROVE  Inv(s')
<1>1. s' = [s EXCEPT !.state = "error"] /\ s.ws # None
  BY DEF ServerError, Current, Conn, None
<1> QED BY <1>1, Turned

\* The end of the session closes the socket the page holds.
LEMMA SessionClosedStep ==
    ASSUME Inv(s), NEW k \in Conn, SessionClosed(k)
    PROVE  Inv(s')
<1> DEFINE z == Detach(s, k)
           state == IF s.conn[k].asked = "end" THEN "ended" ELSE "closed"
<1>1. s.ws = k /\ s.conn[k].st = "open" /\ s' = [z EXCEPT !.ws = None, !.state = state]
  BY DEF SessionClosed, Current
<1>2. Inv(z) /\ Beside(s, z) /\ ~Alive(z.conn[k])
  BY <1>1, OldSocket, DetachKeeps
<1>3. z \in Page /\ z.ws = k /\ k # None /\ z.resuming \in Nat
  BY <1>1, <1>2, BoundsAssumption DEF Inv, Beside, Conn, None, Page
<1>4. state \in {"ended", "closed"}
  OBVIOUS
<1> HIDE DEF z, state
<1>5. /\ s' \in Page /\ s'.conn = z.conn /\ s'.ws = None /\ s'.rec = z.rec
      /\ s'.token = z.token /\ s'.opened = z.opened /\ s'.resuming = z.resuming
      /\ s'.calls = z.calls /\ s'.mounted = z.mounted /\ s'.overtook = z.overtook
      /\ s'.madeFor = z.madeFor
  BY <1>1, <1>3, <1>4 DEF Page
<1>6. ~z.overtook => z.resuming = 0
  BY <1>2, <1>3 DEF Inv, Sole
<1> QED BY <1>2, <1>3, <1>5, <1>6, Unheld

-----------------------------------------------------------------------------
(* The microphone, and the end.                                             *)

\* A recorder is made and its server is told of it in one step.
LEMMA StartMicStep ==
    ASSUME Inv(s), StartMic
    PROVE  Inv(s')
<1> DEFINE r == s.made + 1
           for == IF IsOpen(s) THEN s.ws ELSE None
           b == [s EXCEPT !.made = r, !.rec = r, !.mic[r] = "asking", !.madeFor[r] = for]
           m == [s.mic EXCEPT ![r] = "asking"]
           f == [s.madeFor EXCEPT ![r] = for]
           a == Arm(s)
<1>1. s.made < MaxRecs /\ s' = Arm(b)
  BY DEF StartMic
<1>2. s \in Page /\ s.mic \in [Rec -> {"none", "asking", "loading", "hot", "closing",
                                       "aborting", "stale", "leaked", "off"}]
      /\ s.made \in 0..MaxRecs /\ s.madeFor \in [Rec -> Conn \cup {None}]
      /\ s.ws \in Conn \cup {None}
  BY DEF Inv, Page
<1>3. r \in Rec /\ r \in 0..MaxRecs
  BY <1>1, <1>2, BoundsAssumption DEF Rec
<1>4. m \in [Rec -> {"none", "asking", "loading", "hot", "closing", "aborting",
                     "stale", "leaked", "off"}]
      /\ f \in [Rec -> Conn \cup {None}] /\ f[r] = for
      /\ \A q \in Rec \ {r} : f[q] = s.madeFor[q]
  BY <1>2, <1>3
<1>5. b = [s EXCEPT !.made = r, !.rec = r, !.mic = m, !.madeFor = f]
  BY <1>2 DEF Page
<1> HIDE DEF r, m, b, f
<1>6. b.ws = s.ws /\ b.conn = s.conn
  BY <1>2, <1>5 DEF Page
<1>7. IsOpen(b) <=> IsOpen(s)
  BY <1>6 DEF IsOpen
<1>8. Inv(a) /\ Beside(s, a) /\ (IsOpen(a) => a.conn[s.ws].armed)
  BY ArmKeeps
<1>9. s' = [a EXCEPT !.made = r, !.rec = r, !.mic = m, !.madeFor = f]
  <2>1. CASE ~IsOpen(s)
    BY <1>1, <1>5, <1>7, <2>1 DEF Arm
  <2>2. CASE IsOpen(s)
    <3>1. s' = [b EXCEPT !.conn[s.ws].armed = TRUE]
      BY <1>1, <1>6, <1>7, <2>2 DEF Arm
    <3>2. a = [s EXCEPT !.conn[s.ws].armed = TRUE]
      BY <2>2 DEF Arm
    <3> QED BY <1>2, <1>5, <3>1, <3>2 DEF Page
  <2> QED BY <2>1, <2>2
<1> HIDE DEF a
<1>10. a \in Page
  BY <1>8 DEF Inv
<1>11. /\ s' \in Page /\ s'.conn = a.conn /\ s'.ws = a.ws /\ s'.madeFor = f
       /\ s'.state = a.state /\ s'.token = a.token /\ s'.opened = a.opened
       /\ s'.resuming = a.resuming /\ s'.calls = a.calls /\ s'.mounted = a.mounted
       /\ s'.overtook = a.overtook
  BY <1>3, <1>4, <1>9, <1>10 DEF Page
<1>12. Made(s')
  BY <1>8, <1>11 DEF Inv, Made
<1>13. ~s'.overtook => Sole(s')
  BY <1>8, <1>11 DEF Inv, Sole
<1>14. Heard(s')
  BY <1>8, <1>11 DEF Inv, Heard, IsOpen, Beside
<1>15. Told(s')
  <2> SUFFICES ASSUME NEW q \in Rec, f[q] # None
               PROVE  a.conn[f[q]].armed
    BY <1>11 DEF Told
  <2>1. CASE q = r
    <3>1. IsOpen(s) /\ f[q] = s.ws
      BY <1>4, <2>1
    <3>2. IsOpen(a)
      BY <1>2, <3>1 DEF a, Arm, IsOpen, Page, Connection
    <3> QED BY <1>8, <3>1, <3>2
  <2>2. CASE q # r
    BY <1>4, <1>8, <2>2 DEF Inv, Told, Beside, SameLife
  <2> QED BY <2>1, <2>2
<1> QED BY <1>11, <1>12, <1>13, <1>14, <1>15 DEF Inv

\* What happens to a recorder does nothing to a socket.
LEMMA MicStep ==
    ASSUME NEW x, Inv(x), NEW r \in Rec,
           NEW mic \in {"asking", "loading", "hot", "closing", "stale", "leaked", "off"},
           NEW rec \in {x.rec, None}, NEW on \in BOOLEAN, NEW y,
           y = [x EXCEPT !.mic[r] = mic, !.rec = rec, !.micOn = on]
    PROVE  Inv(y)
<1> DEFINE m == [x.mic EXCEPT ![r] = mic]
<1>1. x \in Page /\ x.mic \in [Rec -> {"none", "asking", "loading", "hot", "closing",
                                       "aborting", "stale", "leaked", "off"}]
  BY DEF Inv, Page
<1>2. m \in [Rec -> {"none", "asking", "loading", "hot", "closing", "aborting",
                     "stale", "leaked", "off"}]
  BY <1>1
<1>3. y = [x EXCEPT !.mic = m, !.rec = rec, !.micOn = on]
  BY <1>1 DEF Page
<1>4. rec \in Rec \cup {None}
  BY <1>1 DEF Page
<1> HIDE DEF m
<1>5. y \in Page /\ SameLife(x, y) /\ y.conn = x.conn /\ y.ws = x.ws /\ y.rec = rec
      /\ y.token = x.token /\ y.state = x.state
  <2>1. y \in Page
    <3> DEFINE a == [x EXCEPT !.mic = m]
               b == [a EXCEPT !.rec = rec]
    <3>1. a \in Page
      BY <1>1, <1>2 DEF Page
    <3>2. y = [b EXCEPT !.micOn = on]
      BY <1>1, <1>3 DEF Page
    <3> HIDE DEF a
    <3>3. b \in Page
      BY <1>4, <3>1 DEF Page
    <3> HIDE DEF b
    <3> QED BY <3>2, <3>3 DEF Page
  <2>2. SameLife(x, y)
    BY <1>1, <1>3 DEF Page, SameLife
  <2>3. /\ y.conn = x.conn /\ y.ws = x.ws /\ y.rec = rec
        /\ y.token = x.token /\ y.state = x.state
    BY <1>1, <1>3 DEF Page
  <2> QED BY <2>1, <2>2, <2>3
<1> QED BY <1>5, Frame

\* What a prompt, a worklet and a context come to; the last wakes who waited for it.
LEMMA RecorderStep ==
    ASSUME Inv(s), NEW r \in Rec,
           PromptAnswered(r) \/ WorkletLoads(r) \/ WorkletFails(r) \/ ContextClosed(r)
    PROVE  Inv(s')
<1>1. s \in Page /\ s.micOn \in BOOLEAN
  BY DEF Inv, Page
<1>2. CASE PromptAnswered(r)
  <2>1. CASE s' = [s EXCEPT !.mic[r] = "loading"]
    <3>1. s' = [s EXCEPT !.mic[r] = "loading", !.rec = s.rec, !.micOn = s.micOn]
      BY <1>1, <2>1 DEF Page
    <3> QED BY <1>1, <3>1, MicStep
  <2>2. CASE s' = [s EXCEPT !.mic[r] = "off", !.rec = None]
    <3>1. s' = [s EXCEPT !.mic[r] = "off", !.rec = None, !.micOn = s.micOn]
      BY <1>1, <2>2 DEF Page
    <3> QED BY <1>1, <3>1, MicStep
  <2> QED BY <1>2, <2>1, <2>2 DEF PromptAnswered
<1>3. CASE WorkletLoads(r)
  <2> DEFINE mic == IF s.mic[r] = "loading" THEN "hot" ELSE "closing"
  <2>1. s' = [s EXCEPT !.mic[r] = mic, !.micOn = TRUE]
    BY <1>3 DEF WorkletLoads
  <2>2. mic \in {"hot", "closing"}
    OBVIOUS
  <2> HIDE DEF mic
  <2>3. s' = [s EXCEPT !.mic[r] = mic, !.rec = s.rec, !.micOn = TRUE]
    BY <1>1, <2>1 DEF Page
  <2> QED BY <2>2, <2>3, MicStep
<1>4. CASE WorkletFails(r)
  <2> DEFINE mic == CASE s.mic[r] = "loading" -> "leaked"
                      [] s.mic[r] = "aborting" -> "closing"
                      [] OTHER -> "off"
  <2>1. s' = [s EXCEPT !.mic[r] = mic, !.rec = None]
    BY <1>4 DEF WorkletFails
  <2>2. mic \in {"leaked", "closing", "off"}
    OBVIOUS
  <2> HIDE DEF mic
  <2>3. s' = [s EXCEPT !.mic[r] = mic, !.rec = None, !.micOn = s.micOn]
    BY <1>1, <2>1 DEF Page
  <2> QED BY <1>1, <2>2, <2>3, MicStep
<1>5. CASE ContextClosed(r)
  <2> DEFINE mic == IF s.mic[r] = "aborting" THEN "stale" ELSE "off"
             y == [s EXCEPT !.mic[r] = mic, !.rec = None, !.micOn = FALSE]
  <2>1. s' = Continue(Released([s EXCEPT !.mic[r] = mic]), s.waiter[r])
    BY <1>5 DEF ContextClosed
  <2>2. mic \in {"stale", "off"}
    OBVIOUS
  <2> HIDE DEF mic
  <2>3. Released([s EXCEPT !.mic[r] = mic]) = y
    BY <1>1 DEF Released, Page
  <2>4. Inv(y)
    BY <2>2, MicStep
  <2>5. s.waiter[r] \in {"none", "mic", "end", "drop"}
    BY <1>1 DEF Page
  <2> HIDE DEF y
  <2> QED BY <2>1, <2>3, <2>4, <2>5, ContinueKeeps
<1> QED BY <1>2, <1>3, <1>4, <1>5

\* endConversation() asks for the summary and stops the microphone.
LEMMA EndConversationStep ==
    ASSUME Inv(s), EndConversation
    PROVE  Inv(s')
<1> DEFINE z == [s EXCEPT !.state = "ending"]
<1>1. s.state = "ready" /\ s' = StopMic(Ask(z, "end"), "end")
  BY DEF EndConversation
<1>2. s.overtook \/ s.resuming = 0
  BY <1>1, BoundsAssumption DEF Inv, Sole, Page
<1>3. Inv(z)
  BY <1>2, Turned
<1> HIDE DEF z
<1>4. Inv(Ask(z, "end"))
  BY <1>3, AskKeeps
<1> QED BY <1>1, <1>4, StopMicKeeps

\* The end timer fires, in this conversation or the next.
LEMMA EndTimerStep ==
    ASSUME Inv(s), EndTimerFires
    PROVE  Inv(s')
<1> DEFINE state == IF s.state = "ending" THEN "closed" ELSE s.state
<1>1. s' = [s EXCEPT !.timer = FALSE, !.state = state]
  BY DEF EndTimerFires
<1>2. s \in Page /\ s.resuming \in Nat
  BY BoundsAssumption DEF Inv, Page
<1>3. state \in {"idle", "connecting", "ready", "ending", "error", "closed", "ended"}
      /\ (state # s.state => s.state = "ending")
  BY <1>2 DEF Page
<1> HIDE DEF state
<1>4. /\ s' \in Page /\ SameLife(s, s') /\ s'.conn = s.conn /\ s'.ws = s.ws
      /\ s'.rec = s.rec /\ s'.token = s.token /\ s'.state = state
  BY <1>1, <1>2, <1>3 DEF Page, SameLife
<1>5. s.overtook \/ s'.state = s.state \/ s.resuming = 0
  BY <1>2, <1>3, <1>4 DEF Inv, Sole
<1> QED BY <1>4, <1>5, Frame

\* disconnect() up to its await, and the button that stops the microphone.
LEMMA DisconnectStep ==
    ASSUME Inv(s), Disconnect \/ StopMicClicked
    PROVE  Inv(s')
<1>1. CASE Disconnect
  <2>1. s' = StopMic(Ask(s, "stop"), "drop") /\ Inv(Ask(s, "stop"))
    BY <1>1, AskKeeps DEF Disconnect
  <2> QED BY <2>1, StopMicKeeps
<1>2. CASE StopMicClicked
  <2>1. s' = StopMic(s, "mic")
    BY <1>2 DEF StopMicClicked
  <2> QED BY <2>1, StopMicKeeps
<1> QED BY <1>1, <1>2

\* A page without a token is admitted nowhere.
LEMMA TokenGoes ==
    ASSUME NEW x, Inv(x), NEW y, y = [x EXCEPT !.token = FALSE]
    PROVE  Inv(y)
<1>1. x \in Page
  BY DEF Inv
<1>2. y \in Page /\ SameLife(x, y) /\ y.conn = x.conn /\ y.ws = x.ws /\ y.rec = x.rec
      /\ y.token = FALSE /\ y.state = x.state
  BY <1>1 DEF Page, SameLife
<1> QED BY <1>2, Frame

\* The token goes: by a logout, or by another tab or its expiry.
LEMMA LogoutStep ==
    ASSUME Inv(s), Logout \/ Kicked
    PROVE  Inv(s')
<1>1. CASE Logout
  <2> DEFINE z == StopMic(Ask(s, "stop"), "drop")
  <2>1. s' = [z EXCEPT !.token = FALSE] /\ Inv(Ask(s, "stop"))
    BY <1>1, AskKeeps DEF Logout
  <2>2. Inv(z)
    BY <2>1, StopMicKeeps
  <2> HIDE DEF z
  <2> QED BY <2>1, <2>2, TokenGoes
<1>2. CASE Kicked
  BY <1>2, TokenGoes DEF Kicked
<1> QED BY <1>1, <1>2

\* The page that is left has closed the socket it held.
LEMMA UnmountStep ==
    ASSUME Inv(s), Unmount
    PROVE  Inv(s')
<1> DEFINE z == Detach(s, s.ws)
           y == StopMic(z, "mic")
<1>1. ~s.token /\ s' = [y EXCEPT !.mounted = FALSE, !.timer = FALSE]
  BY DEF Unmount
<1>2. Inv(z) /\ Beside(s, z) /\ (s.ws # None => ~Alive(z.conn[s.ws]))
  BY DetachHeldKeeps
<1> HIDE DEF z
<1>3. Inv(y) /\ y.token = z.token /\ SameLife(z, y) /\ y.conn = z.conn /\ y.ws = z.ws
      /\ y.state = z.state
  BY <1>2, StopMicKeeps
<1> HIDE DEF y
<1>4. y \in Page /\ ~y.token
  BY <1>1, <1>2, <1>3 DEF Inv, Beside
<1>5. /\ s' \in Page /\ s'.conn = y.conn /\ s'.ws = y.ws /\ s'.opened = y.opened
      /\ s'.resuming = y.resuming /\ s'.calls = y.calls /\ s'.rec = y.rec
      /\ s'.token = y.token /\ s'.overtook = y.overtook /\ s'.state = y.state
      /\ s'.madeFor = y.madeFor
  BY <1>1, <1>4 DEF Page
<1>6. Made(s')
  BY <1>3, <1>4, <1>5 DEF Inv, Made
<1>7. ~s'.overtook => Sole(s')
  <2> SUFFICES ASSUME ~s'.overtook PROVE Sole(s')
    OBVIOUS
  <2>1. Sole(y)
    BY <1>3, <1>5 DEF Inv
  <2>2. \A k \in Conn : ~Alive(y.conn[k])
    BY <1>2, <1>3, <2>1 DEF Sole, Beside, Conn, None
  <2> QED BY <1>5, <2>1, <2>2 DEF Sole
<1>8. Heard(s') /\ Told(s')
  BY <1>3, <1>5 DEF Inv, Heard, Told
<1> QED BY <1>5, <1>6, <1>7, <1>8 DEF Inv

-----------------------------------------------------------------------------
(* The theorems.                                                            *)

IInv == Inv(s)

\* The page and its sockets agree in every reachable state.
THEOREM Invariant == Spec => []IInv
<1>1. IInv /\ [Next]_s => IInv'
  <2> SUFFICES ASSUME Inv(s), [Next]_s PROVE Inv(s')
    BY DEF IInv
  <2>1. CASE Connect \/ Resumed \/ ResumeFails
    BY <2>1, ConnectStep, ResumedStep, ResumeFailsStep
  <2>2. ASSUME NEW k \in Conn,
               \/ Opens(k) \/ SocketCloses(k) \/ SocketFails(k)
               \/ SessionStarted(k) \/ ServerError(k) \/ SessionClosed(k)
        PROVE  Inv(s')
    BY <2>2, OpensStep, SocketClosesStep, SocketFailsStep, SessionStartedStep,
       ServerErrorStep, SessionClosedStep
  <2>3. CASE StartMic \/ StopMicClicked
    BY <2>3, StartMicStep, DisconnectStep
  <2>4. ASSUME NEW r \in Rec,
               \/ PromptAnswered(r) \/ WorkletLoads(r) \/ WorkletFails(r)
               \/ ContextClosed(r)
        PROVE  Inv(s')
    BY <2>4, RecorderStep
  <2>5. CASE EndConversation \/ EndTimerFires
    BY <2>5, EndConversationStep, EndTimerStep
  <2>6. CASE Disconnect \/ Logout \/ Kicked \/ Unmount
    BY <2>6, DisconnectStep, LogoutStep, UnmountStep
  <2>7. CASE UNCHANGED s
    BY <2>7
  <2> QED BY <2>1, <2>2, <2>3, <2>4, <2>5, <2>6, <2>7 DEF Next
<1>2. Init => IInv
  BY InitInv DEF IInv
<1> QED BY <1>1, <1>2, PTL DEF Spec

\* The record of the page keeps its type, for any number of connections.
THEOREM TypesHold == Spec => []TypeOK
<1>1. IInv => TypeOK
  BY DEF IInv, Inv, TypeOK
<1> QED BY <1>1, Invariant, PTL

\* Whatever recorder a running session hears, its server was told to record: the one
\* the page holds, be it older than the session, and one that it has let go of, if it
\* was made on this socket.  Only an older one that was let go of is not recorded.
THEOREM SpeechIsRecorded == Spec => []SpokenIsRecorded
<1>1. IInv => SpokenIsRecorded
  <2> SUFFICES ASSUME Inv(s), IsOpen(s), s.conn[s.ws].started,
                      NEW r \in Rec, ~(s.rec # r /\ s.madeFor[r] # s.ws)
               PROVE  s.conn[s.ws].armed
    BY DEF IInv, SpokenIsRecorded
  <2>1. s.ws # None
    BY DEF IsOpen
  <2>2. CASE s.rec = r
    BY <2>1, <2>2 DEF Inv, Heard, IsOpen, Rec, None
  <2>3. CASE s.madeFor[r] = s.ws
    BY <2>1, <2>3 DEF Inv, Told
  <2> QED BY <2>2, <2>3
<1> QED BY <1>1, Invariant, PTL

\* An open socket is the one the page would close, unless disconnect() went on while
\* a connect() slept.
THEOREM SocketsAreHeld == Spec => []SocketIsHeld
<1>1. IInv => SocketIsHeld
  BY DEF IInv, Inv, Made, Sole, Alive, SocketIsHeld, NoOrphanSocket
<1> QED BY <1>1, Invariant, PTL
=============================================================================
